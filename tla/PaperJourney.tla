---------------------------- MODULE PaperJourney -----------------------------
(***************************************************************************)
(* What one e-mail comes to: the cascade of module 3, the event it builds  *)
(* of the outcome (PaperExtractedV1.build) and the row module 4's consumer *)
(* makes of that event (_build_paper_create, PaperCreate), or does not.    *)
(*                                                                         *)
(* The two sides disagree about what may be null, and PaperCreate bounds   *)
(* values that no tier checks.  A value is one of two kinds: one           *)
(* PaperCreate takes, or one it refuses (unfit).                           *)
(***************************************************************************)
EXTENDS ExtractionCascade

VARIABLES
    unfit,       \* fields of the metadata that PaperCreate refuses
    department,  \* the directory knows a department_code
    outcome      \* Pending, Abandoned, or the row

journeyVars == <<vars, unfit, department, outcome>>

Pending   == [status |-> "pending"]
Abandoned == [status |-> "abandoned"]

\* users.department_code may be NULL; a faculty member who is not found, or
\* whose lookup fails, has neither department nor e-mail.
JourneyInit ==
    /\ Init
    /\ unfit = {}
    /\ department \in BOOLEAN
    /\ status = "not_found" => ~ department
    /\ outcome = Pending

(***************************************************************************)
(* The values: a title of 10 characters or more, a year from 2000 to the   *)
(* next, a venue of at most 500 characters, a DOI of at most 200, authors  *)
(* of 1 to 300.                                                            *)
(***************************************************************************)

\* One unfit value is as bad as several.
OneOf(fields) == {{}} \cup {{f} : f \in fields}

\* Tier 1 takes years from 1950 to 2029 and a DOI of any length, its titles
\* have 11 to 300 characters.  CrossRef's data replace them and are taken as
\* they are; so is the model's answer, where there was nothing.  Tier 3's
\* values fit, but for the year.
Extract(hits) ==
    /\ \/ Regex(hits) /\ unfit' \in OneOf(hits \cap {"year", "doi"})
       \/ CrossRef(hits) /\ unfit' \in {(unfit \ hits) \cup bad : bad \in OneOf(hits)}
       \/ Nlp(hits) /\ unfit' \in {unfit \cup bad : bad \in OneOf((hits \ found) \cap {"year"})}
       \/ Llm(hits) /\ unfit' \in {unfit \cup bad : bad \in OneOf(hits \ found)}
    /\ UNCHANGED <<department, outcome>>

Proceed ==
    /\ CrossRefFails \/ Score \/ LlmFails \/ Route
    /\ UNCHANGED <<unfit, department, outcome>>

(***************************************************************************)
(* Module 4                                                                *)
(***************************************************************************)

\* _map_topic_to_status.
StatusOf(a) ==
    CASE a = "AUTO_SAVE"       -> "PUBLISHED"
      [] a = "REVIEW_REQUIRED" -> "PENDING_REVIEW"
      [] a = "BLOCK"           -> "REJECTED"

\* The event carries a null where nothing was found, and the defaults of
\* dict.get are for keys that are missing: int(None) raises, and PaperCreate
\* refuses a null title, e-mail or department.
ContextAccepted == status # "not_found" /\ department

\* Mutant: the DOI is not Optional.
MetadataAcceptedWithDoi == {"title", "year", "doi"} \subseteq found /\ unfit = {}
MetadataAccepted == {"title", "year"} \subseteq found /\ unfit = {}

\* The authors are never missing: both sides put "Unknown Author" for none.
\* A paper that is to be published is embedded, unless that fails.
\* Mutant: the status is that of a published paper unless an issue blocks it.
RowLenient(embedded) ==
    [status      |-> IF status = "active" THEN "PUBLISHED" ELSE "REJECTED",
     placeholder |-> "authors" \notin found,
     embedded    |-> embedded]
Row(embedded) ==
    [status      |-> StatusOf(action),
     placeholder |-> "authors" \notin found,
     embedded    |-> embedded]

Store ==
    /\ pc = "done"
    /\ outcome = Pending
    /\ ContextAccepted
    /\ MetadataAccepted
    /\ \E embedded \in BOOLEAN :
          /\ embedded => StatusOf(action) = "PUBLISHED"
          /\ outcome' = Row(embedded)
    /\ UNCHANGED <<vars, unfit, department>>

\* Every attempt raises the same error.
Abandon ==
    /\ pc = "done"
    /\ outcome = Pending
    /\ ~ (ContextAccepted /\ MetadataAccepted)
    /\ outcome' = Abandoned
    /\ UNCHANGED <<vars, unfit, department>>

JourneyNext ==
    \/ \E hits \in SUBSET Fields : Extract(hits)
    \/ Proceed
    \/ Store
    \/ Abandon

JourneySpec == JourneyInit /\ [][JourneyNext]_journeyVars

-----------------------------------------------------------------------------
(***************************************************************************)
(* Properties                                                              *)
(***************************************************************************)

Kept == outcome \notin {Pending, Abandoned}

\* What is published without review has real authors, a title, a year and a
\* faculty member who is active, and nobody asked for a review or a block: the
\* placeholders of either side never get that far.
PublishedIsReal ==
    Kept /\ outcome.status = "PUBLISHED" =>
        /\ ~ outcome.placeholder
        /\ {"title", "year"} \subseteq found
        /\ status = "active" /\ issues = {}

\* A validated paper of a faculty member with a department is lost for one of
\* two reasons only: nobody found the year, which the score allows when there
\* is a venue, or a value is out of module 4's bounds.  It is never the title
\* or the authors that are missing.
ValidatedLostForYear ==
    outcome = Abandoned /\ action = "AUTO_SAVE" /\ department =>
        unfit # {} \/ ("year" \notin found /\ "venue" \in found)
=============================================================================
