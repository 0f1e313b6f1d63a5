------------------------------- MODULE Portal --------------------------------
(***************************************************************************)
(* Modules 4 and 5 over one database: the transactions of PaperStore       *)
(* change the papers that SearchCache reads, a statement at a time, while  *)
(* its cache goes on answering from what they were.  Nothing else connects *)
(* the two; a commit of module 4 sends no message to module 5's listener.  *)
(*                                                                         *)
(* Budgets names the bounds: each of its members says how much of          *)
(* everything a behaviour may hold, and Init chooses one.                  *)
(***************************************************************************)
EXTENDS PaperStore

CONSTANTS
    Readers, Queries, Limit, PoolMax, RrfK, SearchTTL, FacetsTTL,
    Askers,    \* users of the search page: every one but the consumer
    Budgets    \* [asks : [Queries -> Nat], writes, seconds, messages, faults : Nat]

ASSUME AskersAssumption == Askers \subseteq Users
ASSUME SearchAssumption ==
    /\ Limit \in Nat \ {0}
    /\ PoolMax \in Nat \ {0}
    /\ RrfK \in Nat
    /\ SearchTTL \in Nat \ {0}
    /\ FacetsTTL \in Nat \ {0}
ASSUME BudgetsAssumption ==
    Budgets \subseteq
        [writes : Nat, asks : [Queries -> Nat], seconds : Nat, messages : Nat, faults : Nat]

VARIABLES
    now, cache, req, listener, todo, pending, asksLeft, secondsLeft,
    messagesLeft, faultsLeft, sweepFrom, sweptTo, committedBy

Search == INSTANCE SearchCache WITH Users <- Askers

ASSUME QueriesAssumption == Queries \subseteq Search!SearchQueries
ASSUME NothingAssumption == Nothing \notin Search!Answers

searchVars ==
    <<now, cache, req, listener, todo, pending, asksLeft, secondsLeft,
      messagesLeft, faultsLeft, sweepFrom, sweptTo, committedBy>>
vars == <<storeVars, searchVars>>

Init ==
    \E b \in Budgets :
        /\ StoreInit(b.writes)
        /\ Search!SearchInit(b.asks, b.seconds, b.messages, b.faults)

Next ==
    \/ StoreNext /\ UNCHANGED searchVars
    \/ Search!SearchNext /\ UNCHANGED storeVars

Spec == Init /\ [][Next]_vars

\* Types of both modules' state.
TypeOK == StoreTypeOK /\ Search!SearchTypeOK

\* Once a sweep of the cache is over, what it holds was computed from what was
\* committed when the sweep began, or by a request under way at that time
\* (invalidate_all_search_caches against set_cached).
SweptIsFresh == Search!SweptIsFresh

\* With or without invalidations, an answer reflects what was committed one TTL
\* and the time of its computation before it was given (redis_service.py:9-10).
AnswersRecent == Search!AnswersRecent

\* Answers shared through the cache hold papers of the asker's department,
\* unless it was an admin's request that filled the cache
\* (make_search_cache_key).
AnswersOfDepartment == Search!AnswersOfDepartment

\* The three counts of a facets answer are about the same papers, unless
\* module 4 committed between two of their statements (get_facet_counts).
FacetsAgree == Search!FacetsAgree

\* A hybrid page ranks no paper behind one that both lists rank behind it, and
\* is filled as long as either list has papers (RRFScorer).
FusionKeepsOrder == Search!FusionKeepsOrder
=============================================================================
