-------------------------- MODULE ExtractionCascade --------------------------
(***************************************************************************)
(* What module 3 does with one event between the directory lookup and the  *)
(* publication: run_extraction_cascade (app/services/extraction) looks for *)
(* the paper's metadata in up to four tiers and scores what it found, and  *)
(* compute_routing (app/routing/engine.py) decides what becomes of it.     *)
(*                                                                         *)
(* The text itself is not modelled: what a tier finds in it is an input.   *)
(* The scores of the three dimensions are in hundredths, the overall score *)
(* in ten-thousandths: the code rounds to four digits, so this is exact.   *)
(***************************************************************************)
EXTENDS Integers, FiniteSets

CONSTANTS
    LlmThreshold,      \* settings.llm_confidence_threshold
    LlmCap,            \* settings.llm_confidence_cap
    RoutingThreshold   \* settings.default_confidence_threshold

ASSUME ThresholdsAssumption ==
    /\ LlmThreshold \in 0 .. 10000
    /\ LlmCap \in 1 .. 100
    /\ RoutingThreshold \in 0 .. 10000

Fields     == {"title", "authors", "year", "venue", "doi"}
Dimensions == {"authors", "title", "venueYear"}
Tiers      == {"REGEX", "CROSSREF", "NLP", "LLM"}
Actions    == {"AUTO_SAVE", "REVIEW_REQUIRED", "BLOCK"}
Stages     == {"regex", "crossref", "nlp", "score", "llm", "route", "done"}

\* The actions a validation issue may ask for, and the faculty's status.
Issues   == {"REVIEW_REQUIRED", "BLOCK"}
Statuses == {"active", "inactive", "not_found"}

VARIABLES
    status,    \* faculty_status of the enriched context
    issues,    \* actions of the other validation issues
    pc,
    found,     \* metadata fields that have a value
    points,    \* authors_score, title_score, venue_year_score
    verified,  \* crossref_verified
    tier,      \* tier_used
    score,     \* overall_confidence.score
    action     \* final_action

vars == <<status, issues, pc, found, points, verified, tier, score, action>>

Lesser(a, b)  == IF a < b THEN a ELSE b
Greater(a, b) == IF a > b THEN a ELSE b

\* _compute_confidence.
Overall(p) == p["authors"] * 40 + p["title"] * 30 + p["venueYear"] * 30

TypeOK ==
    /\ status \in Statuses
    /\ issues \in SUBSET Issues
    /\ pc \in Stages
    /\ found \in SUBSET Fields
    /\ points \in [Dimensions -> 0 .. 100]
    /\ verified \in BOOLEAN
    /\ tier \in Tiers
    /\ score \in 0 .. 10000
    /\ action \in Actions

Init ==
    /\ status \in Statuses
    /\ issues \in SUBSET Issues
    /\ pc = "regex"
    /\ found = {}
    /\ points = [d \in Dimensions |-> 0]
    /\ verified = FALSE
    /\ tier = "REGEX"
    /\ score = 0
    /\ action = "AUTO_SAVE"

\* Tier 1: title, year and DOI; a title or a year is worth 0.60.
Regex(hits) ==
    /\ pc = "regex"
    /\ hits \subseteq {"title", "year", "doi"}
    /\ found' = hits
    /\ points' = [authors   |-> 0,
                  title     |-> IF "title" \in hits THEN 60 ELSE 0,
                  venueYear |-> IF "year" \in hits THEN 60 ELSE 0]
    /\ pc' = IF "doi" \in hits THEN "crossref" ELSE "nlp"
    /\ UNCHANGED <<status, issues, verified, tier, score, action>>

\* Tier 2 resolves the DOI: its data come first, the venue is always its own,
\* and every dimension that has a value is worth 1.0.
CrossRef(hits) ==
    /\ pc = "crossref"
    /\ hits \subseteq {"title", "authors", "year", "venue"}
    /\ found' = found \cup hits
    /\ points' = [authors   |-> IF "authors" \in found' THEN 100 ELSE 0,
                  title     |-> IF "title" \in found' THEN 100 ELSE 0,
                  venueYear |-> IF {"venue", "year"} \cap found' # {} THEN 100 ELSE 0]
    /\ verified' = TRUE
    /\ tier' = "CROSSREF"
    /\ pc' = "score"
    /\ UNCHANGED <<status, issues, score, action>>

\* No such DOI, a timeout, an error.
CrossRefFails ==
    /\ pc = "crossref"
    /\ pc' = "nlp"
    /\ UNCHANGED <<status, issues, found, points, verified, tier, score, action>>

\* Tier 3: fills what is missing, at 0.75; a year alone adds no points.
Nlp(hits) ==
    /\ pc = "nlp"
    /\ hits \subseteq {"title", "authors", "year", "venue"}
    /\ LET new == hits \ found
       IN  points' = [authors   |-> IF "authors" \in new THEN 75 ELSE points["authors"],
                      title     |-> IF "title" \in new THEN 75 ELSE points["title"],
                      venueYear |-> IF "venue" \in new THEN Greater(points["venueYear"], 75)
                                    ELSE points["venueYear"]]
    /\ found' = found \cup hits
    /\ tier' = "NLP"
    /\ pc' = "score"
    /\ UNCHANGED <<status, issues, verified, score, action>>

\* The score that decides whether tier 4 is called.
Score ==
    /\ pc = "score"
    /\ score' = Overall(points)
    /\ pc' = IF score' < LlmThreshold THEN "llm" ELSE "route"
    /\ UNCHANGED <<status, issues, found, points, verified, tier, action>>

\* extract_with_bedrock's confidence, from the number of fields it found.
LlmConfidence(hits) ==
    Lesser(70 + 5 * Cardinality(hits \ {"doi"}), LlmCap)

\* The points of the dimensions once tier 4 has filled what was missing.
LlmPoints(hits) ==
    LET new  == hits \ found
        conf == LlmConfidence(hits)
    IN  [authors   |-> IF "authors" \in new THEN Lesser(conf, 90) ELSE points["authors"],
         title     |-> IF "title" \in new THEN Lesser(conf, 90) ELSE points["title"],
         venueYear |-> IF "venue" \in new
                       THEN Lesser(Greater(points["venueYear"], conf), 90)
                       ELSE points["venueYear"]]

\* Mutant: tier 4 takes the place of what was found before.
LlmOverwrites(hits) ==
    /\ pc = "llm"
    /\ hits \subseteq Fields
    /\ points' = [authors   |-> LlmConfidence(hits),
                  title     |-> LlmConfidence(hits),
                  venueYear |-> LlmConfidence(hits)]
    /\ score' = Overall(points')
    /\ found' = found \cup hits
    /\ tier' = "LLM"
    /\ pc' = "route"
    /\ UNCHANGED <<status, issues, verified, action>>

\* Mutant: the cap is left to the points tier 4 has set.
LlmUncapped(hits) ==
    /\ pc = "llm"
    /\ hits \subseteq Fields
    /\ points' = LlmPoints(hits)
    /\ score' = Overall(points')
    /\ found' = found \cup hits
    /\ tier' = "LLM"
    /\ pc' = "route"
    /\ UNCHANGED <<status, issues, verified, action>>

\* Tier 4; a score over 0.90 is computed again from points that are not.
Llm(hits) ==
    /\ pc = "llm"
    /\ hits \subseteq Fields
    /\ points' = LlmPoints(hits)
    /\ score' = IF Overall(points') > 9000
                THEN Overall([d \in Dimensions |-> Lesser(points'[d], 90)])
                ELSE Overall(points')
    /\ found' = found \cup hits
    /\ tier' = "LLM"
    /\ pc' = "route"
    /\ UNCHANGED <<status, issues, verified, action>>

\* Bedrock fails, or does not answer in JSON.
LlmFails ==
    /\ pc = "llm"
    /\ pc' = "route"
    /\ UNCHANGED <<status, issues, found, points, verified, tier, score, action>>

\* The validation issues: FACULTY_INVALID is one of them.
AllIssues == issues \cup (IF status = "active" THEN {} ELSE {"BLOCK"})

\* Mutant: the rules in the order of the list, the last one wins.
RouteLastWins ==
    /\ pc = "route"
    /\ action' = IF "REVIEW_REQUIRED" \in AllIssues \/ score < RoutingThreshold
                 THEN "REVIEW_REQUIRED"
                 ELSE IF "BLOCK" \in AllIssues THEN "BLOCK" ELSE action
    /\ pc' = "done"
    /\ UNCHANGED <<status, issues, found, points, verified, tier, score>>

\* compute_routing: rules 1 and 2 block; 3 and 4 only look at what is not blocked.
Route ==
    /\ pc = "route"
    /\ action' = IF status \in {"not_found", "inactive"} \/ "BLOCK" \in AllIssues
                 THEN "BLOCK"
                 ELSE IF score < RoutingThreshold \/ "REVIEW_REQUIRED" \in AllIssues
                 THEN "REVIEW_REQUIRED"
                 ELSE action
    /\ pc' = "done"
    /\ UNCHANGED <<status, issues, found, points, verified, tier, score>>

Next ==
    \/ \E hits \in SUBSET Fields : Regex(hits) \/ CrossRef(hits) \/ Nlp(hits) \/ Llm(hits)
    \/ CrossRefFails
    \/ Score
    \/ LlmFails
    \/ Route

Spec == Init /\ [][Next]_vars

-----------------------------------------------------------------------------
(***************************************************************************)
(* Properties.                                                             *)
(***************************************************************************)

\* "Cap = 0.90": a score the language model had a part in is at most 0.90,
\* although CrossRef's dimensions are worth 1.0 and tier 4 fills in the others.
LlmScoreCapped == tier = "LLM" => score <= 9000

\* What is saved without anyone's review, papers.validated, has a title, authors
\* and a venue or a year, from whatever tiers and failures it comes: no single
\* dimension can be missing and the score still reach the threshold.
AutoSaveComplete ==
    pc = "done" /\ action = "AUTO_SAVE" =>
        {"title", "authors"} \subseteq found /\ {"venue", "year"} \cap found # {}

\* The tests' rule: BLOCK wins over everything, and nothing is saved without
\* review if there is any reason against it.
BlockDominates ==
    pc = "done" =>
        /\ action = "BLOCK" <=> status # "active" \/ "BLOCK" \in issues
        /\ action = "AUTO_SAVE" => issues = {} /\ score >= RoutingThreshold
=============================================================================
