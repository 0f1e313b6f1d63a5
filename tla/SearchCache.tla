----------------------------- MODULE SearchCache -----------------------------
(***************************************************************************)
(* Module 5 (src/module5-search/app): POST /search in its three modes and  *)
(* GET /search/facets over module 4's papers, the results cached in Redis, *)
(* and the listener that empties the cache on a message of the channel     *)
(* search_invalidate.                                                      *)
(*                                                                         *)
(*    Ask       looks the answer up in the cache; on a miss, queries       *)
(*    Keyword, Semantic, Count   one statement each, with a snapshot of    *)
(*              its own (READ COMMITTED) and the user's row level security *)
(*    Store     fuses, cuts the page, caches it with its TTL, answers      *)
(*    Fail      an error of Redis or PostgreSQL ends the request in a 500  *)
(*                                                                         *)
(* A paper matches a query in keyword mode when its title is the query's,  *)
(* in semantic mode when its embedding was computed from such a title;     *)
(* the order of the matches is PostgreSQL's.  Every page is the first: the *)
(* offset is 0 whatever the cursor (search_service.py:121-134).  Total     *)
(* counts and highlights are left out.                                     *)
(*                                                                         *)
(* rows and commits are module 4's, of which this module only reads rows.  *)
(* Messages of the channel come from outside: no code of module 4          *)
(* publishes any.                                                          *)
(***************************************************************************)
EXTENDS Integers, Sequences, FiniteSets

CONSTANTS
    Papers, Users, DepartmentOf, RoleOf, Nothing,    \* as in PaperStore
    Readers,      \* requests that may be under way at a time
    Queries,      \* what may be asked: members of SearchQueries
    Titles,
    Limit,        \* SearchRequest.limit
    PoolMax,      \* SEARCH_RESULTS_MAX
    RrfK,         \* RRF_K
    SearchTTL,    \* REDIS_SEARCH_CACHE_TTL, in units of the clock
    FacetsTTL     \* REDIS_FACETS_CACHE_TTL

SearchModes   == {"keyword", "semantic", "hybrid"}
SearchQueries == [mode : SearchModes, text : Titles] \cup [mode : {"facets"}]
FacetKinds    == <<"years", "paper_types", "confidence_ranges">>

VARIABLES
    rows, commits,  \* module 4's papers, and how many transactions it committed
    now,            \* the clock
    cache,          \* Redis: the entry of every key, Nothing when absent
    req,            \* the request of every reader
    listener,       \* "down", "listening", or what it deletes: "search", "facets"
    todo,           \* keys its SCAN still has to return
    pending,        \* messages its subscription holds
    asksLeft, secondsLeft, messagesLeft, faultsLeft,   \* bounds; asksLeft of every query
    \* history
    sweepFrom,      \* commits when the sweep at hand began
    sweptTo,        \* commits when the last completed one began
    committedBy     \* commits at the end of every second that has passed

cacheVars    == <<cache, req>>
listenerVars == <<listener, todo, pending>>
boundVars    == <<asksLeft, secondsLeft, messagesLeft, faultsLeft>>
historyVars  == <<sweepFrom, sweptTo, committedBy>>
searchVars   == <<now, cacheVars, listenerVars, boundVars, historyVars>>

\* make_search_cache_key, make_facets_cache_key: the department and the
\* request, and neither the user nor the role.
\* Mutant: without the department.
CacheKeyShared(u, q) == <<Nothing, q>>
CacheKey(u, q) == <<DepartmentOf[u], q>>

CacheKeys ==
    ({DepartmentOf[u] : u \in Users} \cup {Nothing}) \X Queries

IsFacets(k) == k[2].mode = "facets"
TTL(q) == IF q.mode = "facets" THEN FacetsTTL ELSE SearchTTL

Present(facets) == {k \in CacheKeys : cache[k] # Nothing /\ (IsFacets(k) <=> facets)}

(***************************************************************************)
(* Queries                                                                 *)
(***************************************************************************)

\* status = 'PUBLISHED' under the policy on papers.
Published(u) ==
    {p \in Papers :
        /\ rows[p] # Nothing
        /\ rows[p].status = "PUBLISHED"
        /\ RoleOf[u] = "admin" \/ rows[p].department = DepartmentOf[u]}

Orders(S) ==
    {f \in [1 .. Cardinality(S) -> S] : \A i, j \in DOMAIN f : f[i] = f[j] => i = j}

Least(a, b) == IF a <= b THEN a ELSE b

FirstOf(n, s) == SubSeq(s, 1, Least(n, Len(s)))

\* A keyword or semantic request fetches its page, a hybrid one a wider pool.
PoolSize(q) == IF q.mode = "hybrid" THEN Least(3 * Limit, PoolMax) ELSE Limit

\* What search_keyword and search_semantic may return.
KeywordRows(u, q) ==
    {FirstOf(PoolSize(q), s) :
        s \in Orders({p \in Published(u) : rows[p].title = q.text})}
SemanticRows(u, q) ==
    {FirstOf(PoolSize(q), s) :
        s \in Orders({p \in Published(u) : rows[p].embedded = q.text})}

\* get_facet_counts: the counts of one kind sum up to the papers counted.
\* Mutant: the types of papers in every status.
FacetCountUnfiltered(u, kind) ==
    IF kind = "paper_types"
      THEN Cardinality({p \in Papers :
               /\ rows[p] # Nothing
               /\ RoleOf[u] = "admin" \/ rows[p].department = DepartmentOf[u]})
      ELSE Cardinality(Published(u))
FacetCount(u, kind) == Cardinality(Published(u))

(***************************************************************************)
(* Reciprocal rank fusion                                                  *)
(***************************************************************************)

RangeOf(s) == {s[i] : i \in DOMAIN s}

Rank(s, p) == CHOOSE i \in DOMAIN s : s[i] = p

\* RRFScorer.combine: the sum of 1 / (k + rank) over the lists the paper is
\* in, a fraction.
Score(kw, sem, p) ==
    LET a == RrfK + Rank(kw, p)
        b == RrfK + Rank(sem, p)
    IN  IF p \notin RangeOf(sem) THEN [num |-> 1, den |-> a]
        ELSE IF p \notin RangeOf(kw) THEN [num |-> 1, den |-> b]
        ELSE [num |-> a + b, den |-> a * b]

AtLeast(x, y) == x.num * y.den >= y.num * x.den

\* RRFScorer.rank: any order by descending score.
\* Mutant: without reverse=True.
FusedAscending(kw, sem) ==
    {s \in Orders(RangeOf(kw) \cup RangeOf(sem)) :
        \A i, j \in DOMAIN s :
            i < j => AtLeast(Score(kw, sem, s[j]), Score(kw, sem, s[i]))}
Fused(kw, sem) ==
    {s \in Orders(RangeOf(kw) \cup RangeOf(sem)) :
        \A i, j \in DOMAIN s :
            i < j => AtLeast(Score(kw, sem, s[i]), Score(kw, sem, s[j]))}

\* The pages a request may end up with.
Pages(r) ==
    CASE req[r].q.mode = "keyword"  -> {req[r].kw}
      [] req[r].q.mode = "semantic" -> {req[r].sem}
      [] req[r].q.mode = "hybrid"   -> {FirstOf(Limit, s) : s \in Fused(req[r].kw, req[r].sem)}
      [] req[r].q.mode = "facets"   -> {<<>>}

(***************************************************************************)
(* Requests                                                                *)
(***************************************************************************)

NoRequest == [stage |-> "none"]

Computing(r) == req[r].stage \in {"keyword", "semantic", "count", "store"}

FirstStage(q) ==
    CASE q.mode \in {"keyword", "hybrid"} -> "keyword"
      [] q.mode = "semantic" -> "semantic"
      [] q.mode = "facets" -> "count"

SearchUnchanged ==
    UNCHANGED <<now, listenerVars, secondsLeft, messagesLeft, faultsLeft, historyVars>>

\* get_current_user and get_cached: a hit is the answer.
Hit(r, u, q) ==
    /\ cache[CacheKey(u, q)] # Nothing
    /\ req' = [req EXCEPT ![r] =
                [stage |-> "answered", user |-> u, q |-> q, at |-> now,
                 answer |-> cache[CacheKey(u, q)]]]

\* snaps: commits when each of its statements was run; late: a sweep of the
\* cache began meanwhile.
Miss(r, u, q) ==
    /\ cache[CacheKey(u, q)] = Nothing
    /\ req' = [req EXCEPT ![r] =
                [stage |-> FirstStage(q), user |-> u, q |-> q, kw |-> <<>>,
                 sem |-> <<>>, counts |-> <<>>, began |-> now, snaps |-> {},
                 late |-> FALSE]]

Ask(r, u, q) ==
    /\ ~ Computing(r)
    /\ asksLeft[q] > 0
    /\ asksLeft' = [asksLeft EXCEPT ![q] = @ - 1]
    /\ Hit(r, u, q) \/ Miss(r, u, q)
    /\ UNCHANGED cache
    /\ SearchUnchanged

\* A statement of reader r, after which it is the request q.
Statement(r, q) ==
    /\ req' = [req EXCEPT ![r] = [q EXCEPT !.snaps = @ \cup {commits}]]
    /\ UNCHANGED <<cache, asksLeft>>
    /\ SearchUnchanged

Keyword(r) ==
    /\ req[r].stage = "keyword"
    /\ \E s \in KeywordRows(req[r].user, req[r].q) :
          Statement(r, [req[r] EXCEPT
              !.kw = s,
              !.stage = IF req[r].q.mode = "hybrid" THEN "semantic" ELSE "store"])

Semantic(r) ==
    /\ req[r].stage = "semantic"
    /\ \E s \in SemanticRows(req[r].user, req[r].q) :
          Statement(r, [req[r] EXCEPT !.sem = s, !.stage = "store"])

\* get_facet_counts: three statements.
Count(r) ==
    /\ req[r].stage = "count"
    /\ LET kind == FacetKinds[Len(req[r].counts) + 1] IN
       Statement(r, [req[r] EXCEPT
           !.counts = Append(@, FacetCount(req[r].user, kind)),
           !.stage = IF Len(req[r].counts) = 2 THEN "store" ELSE "count"])

\* set_cached with its TTL, and the answer.
Store(r) ==
    /\ req[r].stage = "store"
    /\ \E page \in Pages(r) :
          LET q == req[r]
              entry == [page |-> page, counts |-> q.counts, snaps |-> q.snaps,
                        began |-> q.began, stored |-> now, late |-> q.late,
                        admin |-> RoleOf[q.user] = "admin",
                        expires |-> now + TTL(q.q)]
          IN  /\ cache' = [cache EXCEPT ![CacheKey(q.user, q.q)] = entry]
              /\ req' = [req EXCEPT ![r] =
                          [stage |-> "answered", user |-> q.user, q |-> q.q,
                           at |-> now, answer |-> entry]]
    /\ UNCHANGED asksLeft
    /\ SearchUnchanged

Fault ==
    /\ faultsLeft > 0
    /\ faultsLeft' = faultsLeft - 1

\* get_cached, a query or set_cached raises: nothing handles it.
Fail(r) ==
    /\ Computing(r)
    /\ Fault
    /\ req' = [req EXCEPT ![r] = NoRequest]
    /\ UNCHANGED <<now, cache, listenerVars, asksLeft, secondsLeft, messagesLeft,
                   historyVars>>

(***************************************************************************)
(* The clock and the listener                                              *)
(***************************************************************************)

\* Redis drops what has reached its TTL.
\* Mutant: a second later.
ExpiredLate(k) == cache[k].expires < now + 1
Expired(k) == cache[k].expires <= now + 1

Tick ==
    /\ secondsLeft > 0
    /\ secondsLeft' = secondsLeft - 1
    /\ now' = now + 1
    /\ cache' = [k \in CacheKeys |->
                    IF cache[k] = Nothing THEN Nothing
                    ELSE IF Expired(k) THEN Nothing
                    ELSE cache[k]]
    /\ todo' = {k \in todo : cache'[k] # Nothing}
    /\ committedBy' = Append(committedBy, commits)
    /\ UNCHANGED <<req, listener, pending, asksLeft, messagesLeft, faultsLeft, sweepFrom,
                   sweptTo>>

\* PUBLISH search_invalidate: Redis hands the message to those subscribed.
Publish ==
    /\ messagesLeft > 0
    /\ messagesLeft' = messagesLeft - 1
    /\ pending' = IF listener = "down" THEN pending ELSE pending + 1
    /\ UNCHANGED <<now, cacheVars, listener, todo, asksLeft, secondsLeft, faultsLeft,
                   historyVars>>

Subscribe ==
    /\ listener = "down"
    /\ listener' = "listening"
    /\ UNCHANGED <<now, cacheVars, todo, pending, boundVars, historyVars>>

\* An error of Redis ends the loop; the subscription goes, and its messages.
Disconnect ==
    /\ listener # "down"
    /\ Fault
    /\ listener' = "down"
    /\ todo' = {}
    /\ pending' = 0
    /\ UNCHANGED <<now, cacheVars, asksLeft, secondsLeft, messagesLeft, historyVars>>

\* invalidate_all_search_caches begins with a SCAN of search:*.  A SCAN
\* returns the keys that are there from its beginning to its end.
BeginSweep ==
    /\ listener = "listening"
    /\ pending > 0
    /\ pending' = pending - 1
    /\ listener' = "search"
    /\ todo' = Present(FALSE)
    /\ sweepFrom' = commits
    /\ req' = [r \in Readers |->
                  IF Computing(r) THEN [req[r] EXCEPT !.late = TRUE] ELSE req[r]]
    /\ UNCHANGED <<now, cache, boundVars, sweptTo, committedBy>>

\* A key the SCAN has returned, and the DEL of it.
Delete(k) ==
    /\ listener \in {"search", "facets"}
    /\ k \in Present(listener = "facets")
    /\ cache' = [cache EXCEPT ![k] = Nothing]
    /\ todo' = todo \ {k}
    /\ UNCHANGED <<now, req, listener, pending, boundVars, historyVars>>

\* The SCAN of one prefix is over: the other one's, or the next message.
\* Mutant: invalidate_facets_only.
NextPrefixFacetsOnly ==
    /\ listener' = IF listener = "search" THEN "facets" ELSE "listening"
    /\ todo' = IF listener = "search" THEN Present(TRUE) ELSE {}
    /\ sweptTo' = IF listener = "facets" THEN sweepFrom ELSE sweptTo
    /\ listener \in {"search", "facets"}
    /\ listener = "facets" => todo = {}
    /\ UNCHANGED <<now, cacheVars, pending, boundVars, sweepFrom, committedBy>>
NextPrefix ==
    /\ listener \in {"search", "facets"}
    /\ todo = {}
    /\ listener' = IF listener = "search" THEN "facets" ELSE "listening"
    /\ todo' = IF listener = "search" THEN Present(TRUE) ELSE {}
    /\ sweptTo' = IF listener = "facets" THEN sweepFrom ELSE sweptTo
    /\ UNCHANGED <<now, cacheVars, pending, boundVars, sweepFrom, committedBy>>

SearchInit(asks, seconds, messages, faults) ==
    /\ now = 0
    /\ cache = [k \in CacheKeys |-> Nothing]
    /\ req = [r \in Readers |-> NoRequest]
    /\ listener = "down"
    /\ todo = {}
    /\ pending = 0
    /\ asksLeft = asks
    /\ secondsLeft = seconds
    /\ messagesLeft = messages
    /\ faultsLeft = faults
    /\ sweepFrom = 0
    /\ sweptTo = 0
    /\ committedBy = <<>>

ReaderStep(r) ==
    Keyword(r) \/ Semantic(r) \/ Count(r) \/ Store(r)

ListenerStep ==
    \/ Subscribe
    \/ BeginSweep
    \/ \E k \in CacheKeys : Delete(k)
    \/ NextPrefix

SearchNext ==
    \/ \E r \in Readers :
          \/ \E u \in Users, q \in Queries : Ask(r, u, q)
          \/ ReaderStep(r)
          \/ Fail(r)
    \/ ListenerStep
    \/ Tick
    \/ Publish
    \/ Disconnect

(***************************************************************************)
(* Properties                                                              *)
(***************************************************************************)

Answers == [page : Seq(Papers), counts : Seq(Nat), snaps : SUBSET Nat,
            began : Nat, stored : Nat, late : BOOLEAN,
            admin : BOOLEAN, expires : Nat]

\* Types; what the SCAN still has to return is there.
SearchTypeOK ==
    /\ now \in Nat
    /\ DOMAIN cache = CacheKeys
    /\ \A k \in CacheKeys : cache[k] = Nothing \/ cache[k] \in Answers
    /\ DOMAIN req = Readers
    /\ \A r \in Readers :
          /\ req[r].stage = "answered" => req[r].answer \in Answers
          /\ Computing(r) => req[r].kw \in Seq(Papers) /\ req[r].sem \in Seq(Papers)
    /\ listener \in {"down", "listening", "search", "facets"}
    /\ todo \subseteq {k \in CacheKeys : cache[k] # Nothing}
    /\ pending \in Nat

\* All the cache holds once a sweep is over was computed from what was
\* committed when the sweep began, or by a request that was under way then
\* and cached its result behind the sweep's back.
SweptIsFresh ==
    listener = "listening" =>
        \A k \in CacheKeys :
            cache[k] # Nothing /\ ~ cache[k].late =>
                \A c \in cache[k].snaps : c >= sweptTo

\* With or without invalidations, an answer reflects all that was committed a
\* TTL and the time of its computation before it was given (the TTL as
\* "safety net in case a pub/sub message is ever dropped").
AnswersRecent ==
    \A r \in Readers :
        req[r].stage = "answered" =>
            LET a == req[r].answer IN
            \A t \in DOMAIN committedBy :
                t - 1 <= req[r].at - TTL(req[r].q) - (a.stored - a.began) =>
                    \A c \in a.snaps : c >= committedBy[t]

\* Users of a department share its entries: what one of them is answered are
\* papers of the department, unless an admin asked first.
AnswersOfDepartment ==
    \A r \in Readers :
        req[r].stage = "answered" /\ ~ req[r].answer.admin =>
            \A p \in RangeOf(req[r].answer.page) :
                rows[p].department = DepartmentOf[req[r].user]

\* The three counts of an answer are about the same papers, unless module 4
\* committed between two of their statements.
FacetsAgree ==
    \A r \in Readers :
        req[r].stage = "answered" /\ Cardinality(req[r].answer.snaps) = 1 =>
            \A i, j \in DOMAIN req[r].answer.counts :
                req[r].answer.counts[i] = req[r].answer.counts[j]

\* A hybrid page holds the best of both lists: a paper that neither list ranks
\* below another one, and one list ranks above it, comes before it
\* (RRFScorer, the pool, and the cut of the page).
NoWorse(s, p, p2) ==
    p2 \in RangeOf(s) => p \in RangeOf(s) /\ Rank(s, p) <= Rank(s, p2)
Dominates(kw, sem, p, p2) ==
    /\ p # p2
    /\ NoWorse(kw, p, p2)
    /\ NoWorse(sem, p, p2)
FusionKeepsOrder ==
    \A r \in Readers :
        req[r].stage = "store" /\ req[r].q.mode = "hybrid" =>
            LET kw  == req[r].kw
                sem == req[r].sem
                all == RangeOf(kw) \cup RangeOf(sem)
            IN  \A page \in Pages(r) :
                  /\ Len(page) = Least(Limit, Cardinality(all))
                  /\ \A p, p2 \in all :
                        Dominates(kw, sem, p, p2) /\ p2 \in RangeOf(page) =>
                            p \in RangeOf(page) /\ Rank(page, p) < Rank(page, p2)
=============================================================================
