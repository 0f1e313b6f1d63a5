----------------------- MODULE ExtractionCascadeProofs -----------------------
(***************************************************************************)
(* The score and the decision of module 3, for every threshold and cap.    *)
(*                                                                         *)
(* What makes them work is that a point is never given for a field that    *)
(* was not found (PointsBacked), that a score above 0.70 takes points in   *)
(* every dimension, which the cap does not change (ScoreBacked), and that  *)
(* tier 4 is the last to touch either (LlmIsLast).                         *)
(***************************************************************************)
EXTENDS PaperJourney, FiniteSetTheorems, TLAPS

PointsBacked ==
    /\ points["authors"] > 0 => "authors" \in found
    /\ points["title"] > 0 => "title" \in found
    /\ points["venueYear"] > 0 => "venue" \in found \/ "year" \in found

ScoreBacked ==
    /\ pc \in {"regex", "crossref", "nlp", "score"} => score = 0
    /\ points["authors"] = 0 => score <= 6000
    /\ points["title"] = 0 \/ points["venueYear"] = 0 => score <= 7000

LlmIsLast ==
    tier = "LLM" => pc \in {"route", "done"} /\ score <= 9000

\* Until the routing nothing speaks against AUTO_SAVE; after it, Route's rules.
Decided ==
    /\ pc # "done" => action = "AUTO_SAVE"
    /\ pc = "done" =>
          /\ action = "BLOCK" <=> status # "active" \/ "BLOCK" \in issues
          /\ action = "AUTO_SAVE" => issues = {} /\ score >= RoutingThreshold

IndInv == TypeOK /\ PointsBacked /\ ScoreBacked /\ LlmIsLast /\ Decided

-----------------------------------------------------------------------------

\* The weighted sum behind Overall, and its bounds.
Weighted(a, t, v) == a * 40 + t * 30 + v * 30

LEMMA WeightedInt ==
    ASSUME NEW a \in Int, NEW t \in Int, NEW v \in Int
    PROVE  Weighted(a, t, v) \in Int
BY DEF Weighted

LEMMA WeightedLow ==
    ASSUME NEW a \in Int, NEW t \in Int, NEW v \in Int,
           0 <= a, 0 <= t, 0 <= v
    PROVE  0 <= Weighted(a, t, v)
BY DEF Weighted

LEMMA WeightedHigh ==
    ASSUME NEW a \in Int, NEW t \in Int, NEW v \in Int,
           a <= 100, t <= 100, v <= 100
    PROVE  Weighted(a, t, v) <= 10000
BY DEF Weighted

LEMMA WeightedNoAuthors ==
    ASSUME NEW a \in Int, NEW t \in Int, NEW v \in Int,
           a = 0, t <= 100, v <= 100
    PROVE  Weighted(a, t, v) <= 6000
BY DEF Weighted

LEMMA WeightedNoTitle ==
    ASSUME NEW a \in Int, NEW t \in Int, NEW v \in Int,
           a <= 100, t = 0, v <= 100
    PROVE  Weighted(a, t, v) <= 7000
BY DEF Weighted

LEMMA WeightedNoVenueYear ==
    ASSUME NEW a \in Int, NEW t \in Int, NEW v \in Int,
           a <= 100, t <= 100, v = 0
    PROVE  Weighted(a, t, v) <= 7000
BY DEF Weighted

LEMMA WeightedCapped ==
    ASSUME NEW a \in Int, NEW t \in Int, NEW v \in Int,
           a <= 90, t <= 90, v <= 90
    PROVE  Weighted(a, t, v) <= 9000
BY DEF Weighted

LEMMA OverallWeighted ==
    ASSUME NEW p
    PROVE  Overall(p) = Weighted(p["authors"], p["title"], p["venueYear"])
BY Zenon DEF Overall, Weighted

\* A record of points, and the score it is worth.
LEMMA OverallType ==
    ASSUME NEW p \in [Dimensions -> 0 .. 100]
    PROVE  /\ p["authors"] \in 0 .. 100
           /\ p["title"] \in 0 .. 100
           /\ p["venueYear"] \in 0 .. 100
           /\ Overall(p) \in 0 .. 10000
           /\ p["authors"] = 0 => Overall(p) <= 6000
           /\ p["title"] = 0 \/ p["venueYear"] = 0 => Overall(p) <= 7000
<1>1. "authors" \in Dimensions /\ "title" \in Dimensions /\ "venueYear" \in Dimensions
    BY DEF Dimensions
<1>2. PICK a \in Int : a = p["authors"] /\ 0 <= a /\ a <= 100
    BY <1>1
<1>3. PICK t \in Int : t = p["title"] /\ 0 <= t /\ t <= 100
    BY <1>1
<1>4. PICK v \in Int : v = p["venueYear"] /\ 0 <= v /\ v <= 100
    BY <1>1
<1>5. PICK sum : sum = Weighted(a, t, v)
    OBVIOUS
<1>6. Overall(p) = sum
    BY <1>2, <1>3, <1>4, <1>5, OverallWeighted
<1>7. sum \in Int /\ 0 <= sum /\ sum <= 10000
    <2>1. sum \in Int
        BY <1>5, WeightedInt
    <2>2. 0 <= sum
        BY <1>2, <1>3, <1>4, <1>5, WeightedLow
    <2>3. sum <= 10000
        BY <1>2, <1>3, <1>4, <1>5, WeightedHigh
    <2> QED BY <2>1, <2>2, <2>3
<1>8. a = 0 => sum <= 6000
    BY <1>2, <1>3, <1>4, <1>5, WeightedNoAuthors
<1>9. t = 0 => sum <= 7000
    BY <1>2, <1>3, <1>4, <1>5, WeightedNoTitle
<1>10. v = 0 => sum <= 7000
    BY <1>2, <1>3, <1>4, <1>5, WeightedNoVenueYear
<1> QED BY SMTT(30), <1>2, <1>3, <1>4, <1>6, <1>7, <1>8, <1>9, <1>10

\* With the points capped at 90 the score is at most 9000.
LEMMA OverallCapped ==
    ASSUME NEW p \in [Dimensions -> 0 .. 100],
           NEW q, q = [d \in Dimensions |-> Lesser(p[d], 90)]
    PROVE  Overall(q) \in 0 .. 9000
<1>0. "authors" \in Dimensions /\ "title" \in Dimensions /\ "venueYear" \in Dimensions
    BY DEF Dimensions
<1>1. ASSUME NEW d \in Dimensions
      PROVE  q[d] \in Int /\ 0 <= q[d] /\ q[d] <= 90
    <2>1. PICK n \in Int : n = p[d] /\ 0 <= n
        OBVIOUS
    <2>2. PICK m : m = Lesser(n, 90)
        OBVIOUS
    <2>3. q[d] = m
        BY <2>1, <2>2
    <2>4. m \in Int /\ 0 <= m /\ m <= 90
        BY <2>1, <2>2 DEF Lesser
    <2> QED BY <2>3, <2>4
<1>2. PICK b \in Int : b = q["authors"] /\ 0 <= b /\ b <= 90
    BY <1>0, <1>1
<1>3. PICK u \in Int : u = q["title"] /\ 0 <= u /\ u <= 90
    BY <1>0, <1>1
<1>4. PICK w \in Int : w = q["venueYear"] /\ 0 <= w /\ w <= 90
    BY <1>0, <1>1
<1>5. PICK sum : sum = Weighted(b, u, w)
    OBVIOUS
<1>6. Overall(q) = sum
    BY <1>2, <1>3, <1>4, <1>5, OverallWeighted
<1>7. sum \in Int
    BY <1>5, WeightedInt
<1>8. 0 <= sum
    BY <1>2, <1>3, <1>4, <1>5, WeightedLow
<1>9. sum <= 9000
    BY <1>2, <1>3, <1>4, <1>5, WeightedCapped
<1> QED BY SMTT(30), <1>6, <1>7, <1>8, <1>9

\* The confidence of tier 4 is positive and never above 1.0.
LEMMA LlmConfidenceType ==
    ASSUME NEW hits \in SUBSET Fields
    PROVE  LlmConfidence(hits) \in 1 .. 100
<1>1. IsFiniteSet(Fields)
    <2>1. IsFiniteSet({"title"})
        BY FS_Singleton
    <2>2. IsFiniteSet({"title"} \cup {"authors"})
        BY <2>1, FS_AddElement
    <2>3. IsFiniteSet({"title"} \cup {"authors"} \cup {"year"})
        BY <2>2, FS_AddElement
    <2>4. IsFiniteSet({"title"} \cup {"authors"} \cup {"year"} \cup {"venue"})
        BY <2>3, FS_AddElement
    <2>5. IsFiniteSet({"title"} \cup {"authors"} \cup {"year"} \cup {"venue"} \cup {"doi"})
        BY <2>4, FS_AddElement
    <2>6. Fields = {"title"} \cup {"authors"} \cup {"year"} \cup {"venue"} \cup {"doi"}
        BY DEF Fields
    <2> QED BY <2>5, <2>6
<1>2. IsFiniteSet(hits \ {"doi"})
    BY <1>1, FS_Subset
<1>3. Cardinality(hits \ {"doi"}) \in Nat
    BY <1>2, FS_CardinalityType
<1> DEFINE n == Cardinality(hits \ {"doi"})
<1> HIDE DEF n
<1>4. n \in Nat => Lesser(70 + 5 * n, LlmCap) \in 1 .. 100
    BY SMTT(30), ThresholdsAssumption DEF Lesser
<1> QED BY <1>3, <1>4 DEF n, LlmConfidence

\* Tier 4 gives points for fields it has found, at most 90 for each.
LEMMA LlmPointsBacked ==
    ASSUME TypeOK, PointsBacked, NEW hits \in SUBSET Fields
    PROVE  LET p == LlmPoints(hits)
           IN  /\ p \in [Dimensions -> 0 .. 100]
               /\ p["authors"] > 0 => "authors" \in found \cup hits
               /\ p["title"] > 0 => "title" \in found \cup hits
               /\ p["venueYear"] > 0 =>
                     "venue" \in found \cup hits \/ "year" \in found \cup hits
<1> DEFINE conf == LlmConfidence(hits)
           a == IF "authors" \in hits \ found THEN Lesser(conf, 90) ELSE points["authors"]
           t == IF "title" \in hits \ found THEN Lesser(conf, 90) ELSE points["title"]
           v == IF "venue" \in hits \ found
                THEN Lesser(Greater(points["venueYear"], conf), 90)
                ELSE points["venueYear"]
<1>1. LlmPoints(hits) = [authors |-> a, title |-> t, venueYear |-> v]
    BY DEF LlmPoints
<1>2. conf \in 1 .. 100
    BY LlmConfidenceType
<1>3. /\ points["authors"] \in 0 .. 100
      /\ points["title"] \in 0 .. 100
      /\ points["venueYear"] \in 0 .. 100
    BY OverallType DEF TypeOK
<1> HIDE DEF conf
<1>4. a \in 0 .. 100 /\ t \in 0 .. 100 /\ v \in 0 .. 100
    BY <1>2, <1>3 DEF Lesser, Greater
<1>5. /\ a > 0 => "authors" \in found \cup hits
      /\ t > 0 => "title" \in found \cup hits
      /\ v > 0 => "venue" \in found \cup hits \/ "year" \in found \cup hits
    BY DEF PointsBacked
<1> HIDE DEF a, t, v
<1>6. [authors |-> a, title |-> t, venueYear |-> v] \in [Dimensions -> 0 .. 100]
    BY <1>4 DEF Dimensions
<1> QED BY <1>1, <1>5, <1>6

-----------------------------------------------------------------------------

LEMMA InitInv == Init => IndInv
<1> SUFFICES ASSUME Init PROVE IndInv
    OBVIOUS
<1>1. points["authors"] = 0 /\ points["title"] = 0 /\ points["venueYear"] = 0
    BY DEF Init, Dimensions
<1>2. points \in [Dimensions -> 0 .. 100]
    BY DEF Init
<1>3. /\ status \in Statuses /\ issues \in SUBSET Issues
      /\ pc \in Stages /\ tier \in Tiers /\ action \in Actions
      /\ found \in SUBSET Fields /\ verified \in BOOLEAN
    BY DEF Init, Stages, Tiers, Actions
<1>4. score = 0
    BY DEF Init
<1>5. TypeOK
    BY <1>2, <1>3, <1>4 DEF TypeOK
<1> QED BY <1>1, <1>4, <1>5 DEF Init, IndInv, PointsBacked, ScoreBacked, LlmIsLast, Decided

\* The tiers before the score: what they find raises points from what is found.
LEMMA TiersInv ==
    ASSUME IndInv, NEW hits \in SUBSET Fields,
           Regex(hits) \/ CrossRef(hits) \/ Nlp(hits)
    PROVE  IndInv'
<1> USE DEF IndInv
<1>0. /\ points["authors"] \in 0 .. 100 /\ points["title"] \in 0 .. 100
      /\ points["venueYear"] \in 0 .. 100
    BY OverallType DEF TypeOK
<1>1. /\ UNCHANGED <<status, issues, score, action>>
      /\ pc \in {"regex", "crossref", "nlp"} /\ pc' \in {"crossref", "nlp", "score"}
      /\ tier # "LLM" /\ tier' \in {"REGEX", "CROSSREF", "NLP"}
      /\ found' \in SUBSET Fields /\ verified' \in BOOLEAN
    <2>1. pc \in {"regex", "crossref", "nlp"}
        BY DEF Regex, CrossRef, Nlp
    <2>2. tier \in {"REGEX", "CROSSREF", "NLP"}
        BY <2>1 DEF TypeOK, Tiers, LlmIsLast
    <2>3. CASE Regex(hits)
        BY SMTT(30), <2>1, <2>2, <2>3 DEF Regex, TypeOK, Fields
    <2>4. CASE CrossRef(hits)
        BY <2>1, <2>2, <2>4 DEF CrossRef, TypeOK, Fields
    <2>5. CASE Nlp(hits)
        BY <2>1, <2>2, <2>5 DEF Nlp, TypeOK, Fields
    <2> QED BY <2>3, <2>4, <2>5
<1>2. /\ points'["authors"] \in 0 .. 100
      /\ points'["title"] \in 0 .. 100
      /\ points'["venueYear"] \in 0 .. 100
      /\ points' \in [Dimensions -> 0 .. 100]
    <2>1. CASE Regex(hits)
        BY <2>1 DEF Regex, Dimensions
    <2>2. CASE CrossRef(hits)
        BY <2>2 DEF CrossRef, Dimensions
    <2>3. CASE Nlp(hits)
        BY <2>3, <1>0 DEF Nlp, Dimensions, Greater
    <2> QED BY <2>1, <2>2, <2>3
<1>3. PointsBacked'
    <2>1. CASE Regex(hits)
        BY <2>1 DEF Regex, PointsBacked
    <2>2. CASE CrossRef(hits)
        BY <2>2 DEF CrossRef, PointsBacked
    <2>3. CASE Nlp(hits)
        BY <2>3, <1>0 DEF Nlp, PointsBacked, Greater
    <2> QED BY <2>1, <2>2, <2>3
<1>4. score = 0 /\ score' = 0
    BY <1>1 DEF ScoreBacked
<1>5. ScoreBacked'
    BY SMTT(30), <1>4 DEF ScoreBacked
<1>6. TypeOK'
    BY <1>1, <1>2 DEF TypeOK, Stages, Tiers
<1>7. LlmIsLast'
    BY <1>1 DEF LlmIsLast
<1>8. Decided'
    BY <1>1 DEF Decided
<1> QED BY <1>3, <1>5, <1>6, <1>7, <1>8

\* Tier 4 and its cap.
LEMMA LlmInv ==
    ASSUME IndInv, NEW hits \in SUBSET Fields, Llm(hits)
    PROVE  IndInv'
<1> USE DEF IndInv
<1>1. /\ points' = LlmPoints(hits)
      /\ found' = found \cup hits
      /\ pc = "llm" /\ pc' = "route" /\ tier' = "LLM"
      /\ UNCHANGED <<status, issues, verified, action>>
    BY DEF Llm
<1>2. points' \in [Dimensions -> 0 .. 100] /\ PointsBacked'
    BY SMTT(30), <1>1, LlmPointsBacked DEF PointsBacked
<1> DEFINE worth  == Overall(points')
           capped == Overall([d \in Dimensions |-> Lesser(points'[d], 90)])
<1>3. /\ worth \in 0 .. 10000
      /\ points'["authors"] = 0 => worth <= 6000
      /\ points'["title"] = 0 \/ points'["venueYear"] = 0 => worth <= 7000
    BY SMTT(30), <1>2, OverallType
<1>4. capped \in 0 .. 9000
    BY SMTT(30), <1>2, OverallCapped
<1>5. score' = IF worth > 9000 THEN capped ELSE worth
    BY DEF Llm
<1> HIDE DEF worth, capped
<1>6. /\ score' \in 0 .. 9000
      /\ points'["authors"] = 0 => score' <= 6000
      /\ points'["title"] = 0 \/ points'["venueYear"] = 0 => score' <= 7000
    <2>1. CASE worth > 9000
        BY <2>1, <1>3, <1>4, <1>5
    <2>2. CASE ~(worth > 9000)
        BY SMTT(30), <2>2, <1>3, <1>5
    <2> QED BY SMTT(30), <2>1, <2>2
<1>7. TypeOK'
    BY SMTT(30), <1>1, <1>2, <1>6 DEF TypeOK, Stages, Tiers
<1>8. ScoreBacked'
    BY <1>1, <1>6 DEF ScoreBacked
<1>9. LlmIsLast' /\ Decided'
    BY <1>1, <1>6 DEF LlmIsLast, Decided
<1> QED BY <1>2, <1>7, <1>8, <1>9

\* The scores and points of the other steps are those of the state before.
LEMMA RestInv ==
    ASSUME IndInv, CrossRefFails \/ Score \/ LlmFails
    PROVE  IndInv'
<1> USE DEF IndInv
<1>1. CASE CrossRefFails
    BY SMTT(30), <1>1 DEF CrossRefFails, TypeOK, Stages, PointsBacked, ScoreBacked, LlmIsLast,
                Decided
<1>2. CASE LlmFails
    BY SMTT(30), <1>2 DEF LlmFails, TypeOK, Stages, PointsBacked, ScoreBacked, LlmIsLast,
                Decided
<1>3. CASE Score
    <2>1. /\ Overall(points) \in 0 .. 10000
          /\ points["authors"] = 0 => Overall(points) <= 6000
          /\ points["title"] = 0 \/ points["venueYear"] = 0 => Overall(points) <= 7000
        BY SMTT(30), OverallType DEF TypeOK
    <2>2. /\ UNCHANGED <<status, issues, found, points, verified, tier, action>>
          /\ score' = Overall(points)
          /\ pc = "score" /\ pc' \in {"llm", "route"}
        BY <1>3 DEF Score
    <2>3. TypeOK'
        BY SMTT(30), <2>1, <2>2 DEF TypeOK, Stages
    <2>4. PointsBacked' /\ LlmIsLast' /\ Decided'
        BY <2>2 DEF PointsBacked, LlmIsLast, Decided
    <2>5. ScoreBacked'
        BY SMTT(30), <2>1, <2>2 DEF ScoreBacked
    <2> QED BY <2>3, <2>4, <2>5
<1> QED BY <1>1, <1>2, <1>3

\* The routing: a faculty that is not active is one of the two rule 1 blocks.
LEMMA RouteInv ==
    ASSUME IndInv, Route
    PROVE  IndInv'
<1> USE DEF IndInv
<1>1. /\ UNCHANGED <<status, issues, found, points, verified, tier, score>>
      /\ pc = "route" /\ pc' = "done" /\ action = "AUTO_SAVE"
    BY DEF Route, Decided
<1>2. status # "active" <=> status \in {"not_found", "inactive"}
    BY DEF TypeOK, Statuses
<1>3. issues \subseteq {"REVIEW_REQUIRED", "BLOCK"}
    BY SMTT(30) DEF TypeOK, Issues
<1>4. score \in Int /\ RoutingThreshold \in Int
    BY ThresholdsAssumption DEF TypeOK
<1>5. action' \in Actions
    BY <1>1 DEF Route, Actions
<1>6. action' = "BLOCK" <=> status # "active" \/ "BLOCK" \in issues
    BY <1>1, <1>2 DEF Route, AllIssues
<1>7. action' = "AUTO_SAVE" => issues = {} /\ score >= RoutingThreshold
    BY <1>1, <1>3, <1>4 DEF Route, AllIssues
<1>8. Decided'
    BY <1>1, <1>6, <1>7 DEF Decided
<1> QED BY <1>1, <1>5, <1>8 DEF TypeOK, Stages, PointsBacked, ScoreBacked, LlmIsLast

\* The conjunction of the invariants is inductive.
THEOREM Invariance == Spec => []IndInv
<1>1. Init => IndInv
    BY InitInv
<1>2. IndInv /\ [Next]_vars => IndInv'
    <2> SUFFICES ASSUME IndInv, [Next]_vars PROVE IndInv'
        BY SMTT(30)
    <2>1. CASE UNCHANGED vars
        BY <2>1 DEF vars, IndInv, TypeOK, PointsBacked, ScoreBacked, LlmIsLast, Decided
    <2>2. CASE Next
        BY <2>2, TiersInv, LlmInv, RestInv, RouteInv DEF Next
    <2> QED BY <2>1, <2>2
<1> QED BY <1>1, <1>2, PTL DEF Spec

\* Scores stay within 0 and 1 and decisions are taken once.
THEOREM TypeCorrectness == Spec => []TypeOK
<1>1. IndInv => TypeOK
    BY DEF IndInv
<1> QED BY <1>1, Invariance, PTL

\* "Cap = 0.90", for every cap of tier 4's own confidence.
THEOREM CapSoundness == Spec => []LlmScoreCapped
<1>1. IndInv => LlmScoreCapped
    BY DEF IndInv, LlmIsLast, LlmScoreCapped
<1> QED BY <1>1, Invariance, PTL

\* BLOCK wins, and nothing is saved in spite of an issue.
THEOREM BlockSoundness == Spec => []BlockDominates
<1>1. IndInv => BlockDominates
    BY DEF IndInv, Decided, BlockDominates
<1> QED BY <1>1, Invariance, PTL

\* A routing threshold above 0.70 keeps incomplete metadata out of
\* papers.validated, wherever tier 4 is called from: with a dimension missing the
\* others are worth at most 0.70.  At 0.70 itself, which the setting allows, a
\* paper without a title could be saved.
THEOREM AutoSaveSoundness ==
    ASSUME RoutingThreshold > 7000
    PROVE  Spec => []AutoSaveComplete
<1>1. IndInv => AutoSaveComplete
    <2> SUFFICES ASSUME IndInv, pc = "done", action = "AUTO_SAVE"
                 PROVE  /\ {"title", "authors"} \subseteq found
                        /\ {"venue", "year"} \cap found # {}
        BY DEF AutoSaveComplete
    <2>1. score \in 0 .. 10000 /\ score >= RoutingThreshold
        BY SMTT(30) DEF IndInv, Decided, TypeOK
    <2>2. /\ points["authors"] = 0 => score <= 6000
          /\ points["title"] = 0 \/ points["venueYear"] = 0 => score <= 7000
        BY DEF IndInv, ScoreBacked
    <2>3. /\ points["authors"] \in 0 .. 100
          /\ points["title"] \in 0 .. 100
          /\ points["venueYear"] \in 0 .. 100
        BY SMTT(30), OverallType DEF IndInv, TypeOK
    <2>4. points["authors"] # 0 /\ points["title"] # 0 /\ points["venueYear"] # 0
        BY SMTT(30), <2>1, <2>2, ThresholdsAssumption
    <2>5. points["authors"] > 0 /\ points["title"] > 0 /\ points["venueYear"] > 0
        BY <2>3, <2>4
    <2> QED BY <2>5 DEF IndInv, PointsBacked
<1> QED BY <1>1, Invariance, PTL

-----------------------------------------------------------------------------
(***************************************************************************)
(* What becomes of an e-mail (PaperJourney).                               *)
(*                                                                         *)
(* A journey takes the steps of the cascade and then one of module 4's, so *)
(* that whatever holds of the cascade's result holds of the row; module 4  *)
(* adds what it accepts.  Together the two leave little to be lost, and    *)
(* nothing incomplete to be published.                                     *)
(***************************************************************************)
Accepted == ContextAccepted /\ MetadataAccepted

\* The outcome is that of the result module 3 has come to.
OutcomeInv ==
    \/ outcome = Pending
    \/ pc = "done" /\ outcome = Abandoned /\ ~ Accepted
    \/ pc = "done" /\ Accepted /\ \E embedded \in BOOLEAN : outcome = Row(embedded)

-----------------------------------------------------------------------------

LEMMA CascadeStep ==
    ASSUME JourneyNext
    PROVE  \/ Next /\ UNCHANGED outcome /\ pc # "done"
           \/ UNCHANGED <<vars, unfit, department>> /\ (Store \/ Abandon)
<1>1. CASE \E hits \in SUBSET Fields : Extract(hits)
    <2>1. PICK hits \in SUBSET Fields : Extract(hits)
        BY <1>1
    <2>2. Regex(hits) \/ CrossRef(hits) \/ Nlp(hits) \/ Llm(hits)
        BY <2>1 DEF Extract
    <2>3. UNCHANGED outcome
        BY <2>1 DEF Extract
    <2>4. pc # "done"
        BY <2>2 DEF Regex, CrossRef, Nlp, Llm
    <2> QED BY <2>2, <2>3, <2>4 DEF Next
<1>2. CASE Proceed
    <2>1. CrossRefFails \/ Score \/ LlmFails \/ Route
        BY <1>2 DEF Proceed
    <2>2. UNCHANGED outcome
        BY <1>2 DEF Proceed
    <2>3. pc # "done"
        BY <2>1 DEF CrossRefFails, Score, LlmFails, Route
    <2> QED BY <2>1, <2>2, <2>3 DEF Next
<1>3. CASE Store \/ Abandon
    BY <1>3 DEF Store, Abandon
<1> QED BY <1>1, <1>2, <1>3 DEF JourneyNext

\* A journey is one of the cascade, with steps of module 4 that leave it alone.
THEOREM JourneyRefinement == JourneySpec => Spec
<1>1. JourneyInit => Init
    BY DEF JourneyInit
<1>2. [JourneyNext]_journeyVars => [Next]_vars
    <2> SUFFICES ASSUME [JourneyNext]_journeyVars PROVE [Next]_vars
        OBVIOUS
    <2>1. CASE UNCHANGED journeyVars
        BY <2>1 DEF journeyVars
    <2>2. CASE JourneyNext
        BY <2>2, CascadeStep
    <2> QED BY <2>1, <2>2
<1> QED BY <1>1, <1>2, PTL DEF JourneySpec, Spec

LEMMA OutcomeInvariance == JourneySpec => []OutcomeInv
<1>1. JourneyInit => OutcomeInv
    BY DEF JourneyInit, OutcomeInv
<1>2. OutcomeInv /\ [JourneyNext]_journeyVars => OutcomeInv'
    <2> SUFFICES ASSUME OutcomeInv, [JourneyNext]_journeyVars PROVE OutcomeInv'
        OBVIOUS
    <2>1. CASE UNCHANGED journeyVars
        BY <2>1 DEF journeyVars, vars, OutcomeInv, Accepted, ContextAccepted, MetadataAccepted, Row
    <2>2. CASE Next /\ UNCHANGED outcome /\ pc # "done"
        BY <2>2 DEF OutcomeInv
    <2>3. CASE UNCHANGED <<vars, unfit, department>> /\ (Store \/ Abandon)
        <3>1. Accepted' = Accepted /\ pc' = pc /\ \A e \in BOOLEAN : Row(e)' = Row(e)
            BY <2>3 DEF vars, Accepted, ContextAccepted, MetadataAccepted, Row
        <3>2. CASE Store
            BY <3>1, <3>2 DEF Store, OutcomeInv, Accepted
        <3>3. CASE Abandon
            BY <3>1, <3>3 DEF Abandon, OutcomeInv, Accepted
        <3> QED BY <2>3, <3>2, <3>3
    <2> QED BY <2>1, <2>2, <2>3, CascadeStep
<1> QED BY <1>1, <1>2, PTL DEF JourneySpec

LEMMA NoPlaceholder ==
    ASSUME "authors" \in found, NEW embedded \in BOOLEAN, outcome = Row(embedded)
    PROVE  ~ outcome.placeholder
BY DEF Row

\* With a routing threshold above 0.70 a paper module 4 publishes without review
\* has real authors, a title and a year, is of an active faculty member and had
\* no issue: no placeholder of either module gets that far.
THEOREM PublishedSoundness ==
    ASSUME RoutingThreshold > 7000
    PROVE  JourneySpec => []PublishedIsReal
<1>1. OutcomeInv /\ TypeOK /\ AutoSaveComplete /\ BlockDominates => PublishedIsReal
    <2> SUFFICES ASSUME OutcomeInv, TypeOK, AutoSaveComplete, BlockDominates,
                        Kept, outcome.status = "PUBLISHED"
                 PROVE  /\ ~ outcome.placeholder
                        /\ {"title", "year"} \subseteq found
                        /\ status = "active" /\ issues = {}
        BY DEF PublishedIsReal
    <2>1. PICK embedded \in BOOLEAN : pc = "done" /\ Accepted /\ outcome = Row(embedded)
        BY DEF OutcomeInv, Kept
    <2>2. outcome.status = StatusOf(action)
        BY <2>1 DEF Row
    <2>3. action = "AUTO_SAVE"
        <3>1. action \in Actions
            BY DEF TypeOK
        <3>2. StatusOf("REVIEW_REQUIRED") = "PENDING_REVIEW" /\ StatusOf("BLOCK") = "REJECTED"
            BY DEF StatusOf
        <3> QED BY <2>2, <3>1, <3>2 DEF Actions
    <2>4. {"title", "authors"} \subseteq found
        BY <2>1, <2>3 DEF AutoSaveComplete
    <2>5. {"title", "year"} \subseteq found
        BY <2>1 DEF Accepted, MetadataAccepted
    <2>6. status = "active" /\ issues = {}
        BY <2>1, <2>3 DEF BlockDominates
    <2>7. ~ outcome.placeholder
        <3>1. "authors" \in found
            BY <2>4
        <3> QED BY <2>1, <3>1, NoPlaceholder
    <2> QED BY <2>5, <2>6, <2>7
<1> QED BY <1>1, JourneyRefinement, OutcomeInvariance, TypeCorrectness, AutoSaveSoundness,
           BlockSoundness, PTL

\* With such a threshold a validated paper of a department is given up only for
\* want of a year, and then it has a venue, or for a value out of PaperCreate's
\* bounds.
THEOREM LossSoundness ==
    ASSUME RoutingThreshold > 7000
    PROVE  JourneySpec => []ValidatedLostForYear
<1>1. OutcomeInv /\ TypeOK /\ AutoSaveComplete /\ BlockDominates => ValidatedLostForYear
    <2> SUFFICES ASSUME OutcomeInv, TypeOK, AutoSaveComplete, BlockDominates,
                        outcome = Abandoned, action = "AUTO_SAVE", department
                 PROVE  unfit # {} \/ ("year" \notin found /\ "venue" \in found)
        BY DEF ValidatedLostForYear
    <2>1. \A embedded \in BOOLEAN : Row(embedded) # Abandoned
        <3>1. StatusOf(action) = "PUBLISHED"
            BY DEF StatusOf
        <3>2. \A embedded \in BOOLEAN : Row(embedded).status # Abandoned.status
            BY <3>1 DEF Row, Abandoned
        <3> QED BY <3>2
    <2>2. Abandoned # Pending
        <3>1. Abandoned.status # Pending.status
            BY DEF Abandoned, Pending
        <3> QED BY <3>1
    <2>3. pc = "done" /\ ~ Accepted
        BY <2>1, <2>2 DEF OutcomeInv
    <2>4. status = "active"
        BY <2>3 DEF BlockDominates
    <2>5. {"title", "authors"} \subseteq found /\ {"venue", "year"} \cap found # {}
        BY <2>3 DEF AutoSaveComplete
    <2> QED BY <2>3, <2>4, <2>5 DEF Accepted, ContextAccepted, MetadataAccepted
<1> QED BY <1>1, JourneyRefinement, OutcomeInvariance, TypeCorrectness, AutoSaveSoundness,
           BlockSoundness, PTL
=============================================================================
