---------------------------- MODULE PortalProofs -----------------------------
(***************************************************************************)
(* Theorems about Portal, for any TTLs, limits, readers, queries and users *)
(* and any bounds: what PaperStore promises still holds beside module 5,   *)
(* and what module 5's cache answers.                                      *)
(***************************************************************************)
EXTENDS Portal, PaperStoreProofs, SequenceTheorems

-----------------------------------------------------------------------------
(***************************************************************************)
(* The inductive invariant of the cache.                                   *)
(***************************************************************************)

CacheKeys == Search!CacheKeys

ComputingRequests ==
    [stage : {"keyword", "semantic", "count", "store"}, user : Askers, q : Queries,
     kw : Seq(Papers), sem : Seq(Papers), counts : Seq(Nat), began : Nat,
     snaps : SUBSET Nat, late : BOOLEAN]
AnsweredRequests ==
    [stage : {"answered"}, user : Askers, q : Queries, at : Nat, answer : Search!Answers]

SearchTypes ==
    /\ now \in Nat
    /\ cache \in [CacheKeys -> Search!Answers \cup {Nothing}]
    /\ req \in [Readers -> ComputingRequests \cup AnsweredRequests \cup {Search!NoRequest}]
    /\ listener \in {"down", "listening", "search", "facets"}
    /\ todo \subseteq {k \in CacheKeys : cache[k] # Nothing}
    /\ pending \in Nat
    /\ commits \in Nat
    /\ sweepFrom \in Nat /\ sweptTo \in Nat
    /\ committedBy \in Seq(Nat)

\* The history of commits is as long as the clock is old, and of the past.
ClockInv ==
    /\ Len(committedBy) = now
    /\ \A t \in DOMAIN committedBy : committedBy[t] <= commits
    /\ sweptTo <= sweepFrom /\ sweepFrom <= commits

\* Papers of a department.
Own(d) == {p \in Papers : rows[p] # Nothing /\ rows[p].department = d}

\* What a computation has read is no older than its beginning.
Recent(x) ==
    /\ x.began <= now
    /\ \A c \in x.snaps : \A t \in DOMAIN committedBy :
          t <= x.began => committedBy[t] <= c

SnapsFrom(x, c0) == ~ x.late => \A c \in x.snaps : c0 <= c

RequestOK(r) ==
    Search!Computing(r) =>
        /\ Recent(req[r])
        /\ SnapsFrom(req[r], sweepFrom)
        /\ RoleOf[req[r].user] # "admin" =>
              /\ Search!RangeOf(req[r].kw) \subseteq Own(DepartmentOf[req[r].user])
              /\ Search!RangeOf(req[r].sem) \subseteq Own(DepartmentOf[req[r].user])

\* A key the sweep at hand is done with.
Swept(k) ==
    IF Search!IsFacets(k) THEN listener = "facets" /\ k \notin todo
    ELSE listener = "facets" \/ (listener = "search" /\ k \notin todo)

EntryOK(k) ==
    cache[k] # Nothing =>
        /\ Recent(cache[k])
        /\ cache[k].began <= cache[k].stored /\ cache[k].stored <= now
        /\ cache[k].expires = cache[k].stored + Search!TTL(k[2])
        /\ now < cache[k].expires
        /\ SnapsFrom(cache[k], sweptTo)
        /\ Swept(k) => SnapsFrom(cache[k], sweepFrom)
        /\ ~ cache[k].admin => Search!RangeOf(cache[k].page) \subseteq Own(k[1])

AnswerOK(r) ==
    req[r].stage = "answered" =>
        LET a == req[r].answer IN
        /\ Recent(a)
        /\ a.began <= a.stored
        /\ req[r].at < a.stored + Search!TTL(req[r].q)
        /\ ~ a.admin => Search!RangeOf(a.page) \subseteq Own(DepartmentOf[req[r].user])

SearchInv ==
    /\ SearchTypes
    /\ ClockInv
    /\ \A r \in Readers : RequestOK(r) /\ AnswerOK(r)
    /\ \A k \in CacheKeys : EntryOK(k)

-----------------------------------------------------------------------------
(***************************************************************************)
(* Facts about the operators.                                              *)
(***************************************************************************)

LEMMA TTLType ==
    ASSUME NEW q \in Queries PROVE Search!TTL(q) \in Nat \ {0}
BY SearchAssumption DEF Search!TTL

LEMMA KeyType ==
    ASSUME NEW u \in Askers, NEW q \in Queries
    PROVE  /\ Search!CacheKey(u, q) \in CacheKeys
           /\ Search!CacheKey(u, q)[1] = DepartmentOf[u]
           /\ Search!CacheKey(u, q)[2] = q
BY DEF CacheKeys, Search!CacheKeys, Search!CacheKey

\* The stages tell what a request is.
LEMMA StageType ==
    ASSUME SearchTypes, NEW r \in Readers
    PROVE  /\ Search!Computing(r) <=> req[r] \in ComputingRequests
           /\ req[r].stage = "answered" <=> req[r] \in AnsweredRequests
<1>1. req[r] \in ComputingRequests \cup AnsweredRequests \cup {Search!NoRequest}
  BY DEF SearchTypes
<1> QED
  BY <1>1 DEF ComputingRequests, AnsweredRequests, Search!NoRequest, Search!Computing

\* A page cut from a list holds papers of the list.
LEMMA CutType ==
    ASSUME NEW S, NEW s \in Seq(S), NEW n \in Nat
    PROVE  /\ Search!FirstOf(n, s) \in Seq(S)
           /\ Search!RangeOf(Search!FirstOf(n, s)) \subseteq S
<1> DEFINE m == Search!Least(n, Len(s))
<1>1. m \in Nat /\ m <= Len(s)
  BY DEF Search!Least
<1>2. \A i \in 1 .. m : s[i] \in S
  BY <1>1
<1>3. SubSeq(s, 1, m) \in Seq(S)
  BY <1>1, <1>2, SubSeqProperties
<1>4. Search!FirstOf(n, s) = SubSeq(s, 1, m)
  BY DEF Search!FirstOf
<1> HIDE DEF m
<1>5. \A x \in Seq(S) : Search!RangeOf(x) \subseteq S
  BY DEF Search!RangeOf
<1> QED BY <1>3, <1>4, <1>5

LEMMA OrdersType ==
    ASSUME NEW S \in SUBSET Papers, NEW s \in Search!Orders(S)
    PROVE  s \in Seq(S)
<1>1. IsFiniteSet(Papers)
  BY IdentityAssumption, FS_Interval DEF Papers
<1>2. Cardinality(S) \in Nat
  BY <1>1, FS_Subset, FS_CardinalityType
<1>3. Search!Cardinality(S) = Cardinality(S)
  BY Zenon DEF Search!Cardinality, Cardinality
<1>4. s \in [1 .. Cardinality(S) -> S]
  BY <1>3 DEF Search!Orders
<1> QED BY <1>2, <1>4

LEMMA SeqMonotone ==
    ASSUME NEW S, NEW T, S \subseteq T, NEW s \in Seq(S) PROVE s \in Seq(T)
OBVIOUS

\* What the two searches return to a user.
LEMMA ListType ==
    ASSUME NEW u \in Askers, NEW q \in Queries,
           NEW s \in Search!KeywordRows(u, q) \cup Search!SemanticRows(u, q)
    PROVE  /\ s \in Seq(Papers)
           /\ RoleOf[u] # "admin" => Search!RangeOf(s) \subseteq Own(DepartmentOf[u])
<1>1. Search!PoolSize(q) \in Nat
  BY SearchAssumption DEF Search!PoolSize, Search!Least
<1>2. PICK S \in SUBSET Search!Published(u) :
         \E f \in Search!Orders(S) : s = Search!FirstOf(Search!PoolSize(q), f)
  BY DEF Search!KeywordRows, Search!SemanticRows
<1>3. PICK f \in Search!Orders(S) : s = Search!FirstOf(Search!PoolSize(q), f)
  BY <1>2
<1>4. S \in SUBSET Papers
  BY <1>2 DEF Search!Published
<1>5. f \in Seq(S)
  BY <1>3, <1>4, OrdersType
<1>6. s \in Seq(S) /\ Search!RangeOf(s) \subseteq S
  BY <1>1, <1>3, <1>5, CutType
<1>7. s \in Seq(Papers)
  BY <1>4, <1>6, SeqMonotone
<1>8. RoleOf[u] # "admin" => S \subseteq Own(DepartmentOf[u])
  BY <1>2 DEF Search!Published, Own
<1> QED BY <1>6, <1>7, <1>8

\* A page holds papers of the two lists.
LEMMA PageType ==
    ASSUME SearchTypes, NEW r \in Readers, Search!Computing(r),
           NEW page \in Search!Pages(r)
    PROVE  /\ page \in Seq(Papers)
           /\ Search!RangeOf(page) \subseteq
                 Search!RangeOf(req[r].kw) \cup Search!RangeOf(req[r].sem)
<1> DEFINE kw == req[r].kw
           sem == req[r].sem
           all == Search!RangeOf(kw) \cup Search!RangeOf(sem)
<1>1. req[r] \in ComputingRequests
  BY StageType
<1>2. kw \in Seq(Papers) /\ sem \in Seq(Papers) /\ req[r].q \in Queries
  BY <1>1 DEF ComputingRequests
<1>3. req[r].q.mode \in {"keyword", "semantic", "hybrid", "facets"}
  BY <1>2, QueriesAssumption DEF Search!SearchQueries, Search!SearchModes
<1>4. all \in SUBSET Papers
  BY <1>2 DEF Search!RangeOf
<1> HIDE DEF all
<1>5. CASE req[r].q.mode = "keyword"
  BY <1>2, <1>5 DEF Search!Pages, all
<1>6. CASE req[r].q.mode = "semantic"
  BY <1>2, <1>6 DEF Search!Pages, all
<1>7. CASE req[r].q.mode = "hybrid"
  <2>1. PICK s \in Search!Fused(kw, sem) : page = Search!FirstOf(Limit, s)
    BY <1>7 DEF Search!Pages
  <2>2. s \in Search!Orders(all)
    BY <2>1 DEF Search!Fused, all
  <2>3. s \in Seq(all)
    BY <1>4, <2>2, OrdersType
  <2>4. page \in Seq(all) /\ Search!RangeOf(page) \subseteq all
    BY <2>1, <2>3, CutType, SearchAssumption
  <2> QED BY <1>4, <2>4, SeqMonotone DEF all
<1>8. CASE req[r].q.mode = "facets"
  <2>1. page = <<>>
    BY <1>8 DEF Search!Pages
  <2> QED BY <2>1 DEF Search!RangeOf
<1> QED BY <1>3, <1>5, <1>6, <1>7, <1>8

-----------------------------------------------------------------------------
(***************************************************************************)
(* What the steps do.                                                      *)
(***************************************************************************)

\* Module 4 neither deletes a paper nor moves it to another department, and
\* its commits are counted.
LEMMA RowsStay ==
    ASSUME StoreInv, [StoreNext]_storeVars
    PROVE  /\ \A d : Own(d) \subseteq Own(d)'
           /\ commits' \in Nat /\ commits <= commits'
<1>1. commits \in Nat /\ rows \in [Papers -> Rows \cup {Nothing}]
  BY DEF StoreInv, StoreTypeOK
<1>2. ASSUME NEW s \in Sessions, CommitPaper(s)
      PROVE  /\ \A d : Own(d) \subseteq Own(d)'
             /\ commits' \in Nat /\ commits <= commits'
  <2> DEFINE p == tx[s].paper
             v == tx[s].version
  <2>1. /\ Writing(s) /\ p \in Papers /\ v \in Versions
        /\ rows' = [rows EXCEPT ![p] = v.after] /\ commits' = commits + 1
    BY <1>2, CommitPaperEffect DEF StoreInv
  <2>2. v.before = rows[p]
    BY <2>1 DEF StoreInv, VersionNext
  <2>3. rows[p] # Nothing => v.after.department = rows[p].department
    BY <2>1, <2>2 DEF StoreInv, VersionLawful
  <2>4. v.after # Nothing
    BY <2>1, VersionType, RowIsSomething
  <2> HIDE DEF p, v
  <2> QED BY <1>1, <2>1, <2>3, <2>4 DEF Own
<1>3. ASSUME rows' = rows, commits' = commits \/ commits' = commits + 1
      PROVE  /\ \A d : Own(d) \subseteq Own(d)'
             /\ commits' \in Nat /\ commits <= commits'
  BY <1>1, <1>3 DEF Own
<1>4. CASE UNCHANGED storeVars
  BY <1>3, <1>4 DEF storeVars
<1>5. ASSUME NEW s \in Sessions, CommitIssue(s) PROVE rows' = rows /\ commits' = commits + 1
  BY <1>5 DEF CommitIssue
<1>6. ASSUME NEW s \in Sessions, LockRow(s) \/ Rollback(s)
      PROVE  rows' = rows /\ commits' = commits
  BY <1>6 DEF LockRow, Rollback, Goto
<1>7. ASSUME NEW s \in Sessions, NEW u \in Users, NEW p \in Papers,
             \/ \E row \in NewRows, flagged \in BOOLEAN : Create(s, u, p, row, flagged)
             \/ \E patch \in Patches : Update(s, u, p, patch)
             \/ Resolve(s, u, p)
      PROVE  rows' = rows /\ commits' = commits
  BY <1>7 DEF Create, Update, Resolve, Begin
<1> QED BY <1>2, <1>3, <1>4, <1>5, <1>6, <1>7 DEF StoreNext

\* A statement of a request reads what is committed now.
LEMMA StatementEffect ==
    ASSUME SearchTypes, NEW r \in Readers,
           Search!Keyword(r) \/ Search!Semantic(r) \/ Search!Count(r)
    PROVE  /\ Search!Computing(r)
           /\ \E x \in ComputingRequests :
                 /\ req' = [req EXCEPT ![r] = x]
                 /\ x.user = req[r].user /\ x.q = req[r].q /\ x.began = req[r].began
                 /\ x.late = req[r].late /\ x.snaps = req[r].snaps \cup {commits}
                 /\ \A d : /\ Search!RangeOf(req[r].kw) \subseteq Own(d)
                           /\ Search!RangeOf(req[r].sem) \subseteq Own(d)
                           /\ RoleOf[x.user] # "admin" /\ d = DepartmentOf[x.user]
                           => /\ Search!RangeOf(x.kw) \subseteq Own(d)
                              /\ Search!RangeOf(x.sem) \subseteq Own(d)
           /\ UNCHANGED <<cache, now, listener, todo, pending, sweepFrom, sweptTo,
                          committedBy>>
<1>1. Search!Computing(r)
  BY DEF Search!Keyword, Search!Semantic, Search!Count, Search!Computing
<1>2. req[r] \in ComputingRequests
  BY <1>1, StageType
<1>3. /\ req[r].user \in Askers /\ req[r].q \in Queries
      /\ req[r].kw \in Seq(Papers) /\ req[r].sem \in Seq(Papers)
      /\ req[r].counts \in Seq(Nat) /\ req[r].snaps \cup {commits} \in SUBSET Nat
      /\ req[r].began \in Nat /\ req[r].late \in BOOLEAN
  BY SMTT(30), <1>2 DEF ComputingRequests, SearchTypes
<1>4. UNCHANGED <<cache, now, listener, todo, pending, sweepFrom, sweptTo, committedBy>>
  BY DEF Search!Keyword, Search!Semantic, Search!Count, Search!Statement,
         Search!SearchUnchanged, Search!listenerVars, Search!historyVars
<1>5. CASE Search!Keyword(r)
  <2>1. PICK s \in Search!KeywordRows(req[r].user, req[r].q) :
           req' = [req EXCEPT ![r] = [[req[r] EXCEPT
                      !.kw = s,
                      !.stage = IF req[r].q.mode = "hybrid" THEN "semantic" ELSE "store"]
                    EXCEPT !.snaps = @ \cup {commits}]]
    BY <1>5 DEF Search!Keyword, Search!Statement
  <2> DEFINE x == [[req[r] EXCEPT
                      !.kw = s,
                      !.stage = IF req[r].q.mode = "hybrid" THEN "semantic" ELSE "store"]
                    EXCEPT !.snaps = @ \cup {commits}]
  <2>2. /\ s \in Seq(Papers)
        /\ RoleOf[req[r].user] # "admin" =>
              Search!RangeOf(s) \subseteq Own(DepartmentOf[req[r].user])
    BY <1>3, ListType
  <2>3. /\ x.kw = s /\ x.sem = req[r].sem /\ x.user = req[r].user /\ x.q = req[r].q
        /\ x.began = req[r].began /\ x.late = req[r].late
        /\ x.snaps = req[r].snaps \cup {commits}
    BY <1>2 DEF ComputingRequests
  <2>4. x \in ComputingRequests
    BY <1>2, <1>3, <2>2 DEF ComputingRequests
  <2> HIDE DEF x
  <2>5. req' = [req EXCEPT ![r] = x]
    BY <2>1 DEF x
  <2> QED BY <1>1, <1>4, <2>2, <2>3, <2>4, <2>5
<1>6. CASE Search!Semantic(r)
  <2>1. PICK s \in Search!SemanticRows(req[r].user, req[r].q) :
           req' = [req EXCEPT ![r] = [[req[r] EXCEPT !.sem = s, !.stage = "store"]
                    EXCEPT !.snaps = @ \cup {commits}]]
    BY <1>6 DEF Search!Semantic, Search!Statement
  <2> DEFINE x == [[req[r] EXCEPT !.sem = s, !.stage = "store"]
                    EXCEPT !.snaps = @ \cup {commits}]
  <2>2. /\ s \in Seq(Papers)
        /\ RoleOf[req[r].user] # "admin" =>
              Search!RangeOf(s) \subseteq Own(DepartmentOf[req[r].user])
    BY <1>3, ListType
  <2>3. /\ x.sem = s /\ x.kw = req[r].kw /\ x.user = req[r].user /\ x.q = req[r].q
        /\ x.began = req[r].began /\ x.late = req[r].late
        /\ x.snaps = req[r].snaps \cup {commits}
    BY <1>2 DEF ComputingRequests
  <2>4. x \in ComputingRequests
    BY <1>2, <1>3, <2>2 DEF ComputingRequests
  <2> HIDE DEF x
  <2>5. req' = [req EXCEPT ![r] = x]
    BY <2>1 DEF x
  <2> QED BY <1>1, <1>4, <2>2, <2>3, <2>4, <2>5
<1>7. CASE Search!Count(r)
  <2> DEFINE n == Search!FacetCount(req[r].user, Search!FacetKinds[Len(req[r].counts) + 1])
             x == [[req[r] EXCEPT
                      !.counts = Append(@, n),
                      !.stage = IF Len(req[r].counts) = 2 THEN "store" ELSE "count"]
                    EXCEPT !.snaps = @ \cup {commits}]
  <2>1. n \in Nat
    <3>1. IsFiniteSet(Papers)
      BY IdentityAssumption, FS_Interval DEF Papers
    <3>2. Search!Published(req[r].user) \in SUBSET Papers
      BY DEF Search!Published
    <3>3. Cardinality(Search!Published(req[r].user)) \in Nat
      BY <3>1, <3>2, FS_Subset, FS_CardinalityType
    <3>4. n = Search!Cardinality(Search!Published(req[r].user))
      BY DEF Search!FacetCount
    <3>5. Search!Cardinality(Search!Published(req[r].user))
             = Cardinality(Search!Published(req[r].user))
      BY Zenon DEF Search!Cardinality, Cardinality
    <3> QED BY <3>3, <3>4, <3>5
  <2>2. req' = [req EXCEPT ![r] = x]
    BY <1>7 DEF Search!Count, Search!Statement
  <2> HIDE DEF n
  <2>3. Append(req[r].counts, n) \in Seq(Nat)
    BY <1>3, <2>1
  <2>4. /\ x.sem = req[r].sem /\ x.kw = req[r].kw /\ x.user = req[r].user
        /\ x.q = req[r].q /\ x.began = req[r].began /\ x.late = req[r].late
        /\ x.snaps = req[r].snaps \cup {commits}
    BY <1>2 DEF ComputingRequests
  <2>5. x \in ComputingRequests
    BY <1>2, <1>3, <2>3 DEF ComputingRequests
  <2> HIDE DEF x
  <2> QED BY <1>1, <1>4, <2>2, <2>4, <2>5
<1> QED BY SMTT(30), <1>5, <1>6, <1>7

\* An entry is cached with what its request read, and answered.
LEMMA StoreEffect ==
    ASSUME SearchTypes, NEW r \in Readers, Search!Store(r)
    PROVE  /\ Search!Computing(r)
           /\ \E e \in Search!Answers :
                 /\ cache' = [cache EXCEPT ![Search!CacheKey(req[r].user, req[r].q)] = e]
                 /\ req' = [req EXCEPT ![r] =
                              [stage |-> "answered", user |-> req[r].user, q |-> req[r].q,
                               at |-> now, answer |-> e]]
                 /\ e.began = req[r].began /\ e.late = req[r].late
                 /\ e.snaps = req[r].snaps /\ e.stored = now
                 /\ e.expires = now + Search!TTL(req[r].q)
                 /\ e.admin = (RoleOf[req[r].user] = "admin")
                 /\ Search!RangeOf(e.page) \subseteq
                       Search!RangeOf(req[r].kw) \cup Search!RangeOf(req[r].sem)
           /\ UNCHANGED <<now, listener, todo, pending, sweepFrom, sweptTo, committedBy>>
<1>1. Search!Computing(r)
  BY DEF Search!Store, Search!Computing
<1>2. req[r] \in ComputingRequests
  BY <1>1, StageType
<1>3. PICK page \in Search!Pages(r) :
         LET q == req[r]
             entry == [page |-> page, counts |-> q.counts, snaps |-> q.snaps,
                       began |-> q.began, stored |-> now, late |-> q.late,
                       admin |-> RoleOf[q.user] = "admin",
                       expires |-> now + Search!TTL(q.q)]
         IN  /\ cache' = [cache EXCEPT ![Search!CacheKey(q.user, q.q)] = entry]
             /\ req' = [req EXCEPT ![r] =
                         [stage |-> "answered", user |-> q.user, q |-> q.q,
                          at |-> now, answer |-> entry]]
  BY DEF Search!Store
<1> DEFINE e == [page |-> page, counts |-> req[r].counts, snaps |-> req[r].snaps,
                 began |-> req[r].began, stored |-> now, late |-> req[r].late,
                 admin |-> RoleOf[req[r].user] = "admin",
                 expires |-> now + Search!TTL(req[r].q)]
<1>4. /\ page \in Seq(Papers)
      /\ Search!RangeOf(page) \subseteq
            Search!RangeOf(req[r].kw) \cup Search!RangeOf(req[r].sem)
  BY <1>1, PageType
<1>5. e \in Search!Answers
  <2>1. req[r].q \in Queries /\ now \in Nat
    BY <1>2 DEF ComputingRequests, SearchTypes
  <2>2. now + Search!TTL(req[r].q) \in Nat
    BY <2>1, TTLType
  <2>3. (RoleOf[req[r].user] = "admin") \in BOOLEAN
    OBVIOUS
  <2> QED BY <1>2, <1>4, <2>1, <2>2, <2>3 DEF Search!Answers, ComputingRequests
<1>6. UNCHANGED <<now, listener, todo, pending, sweepFrom, sweptTo, committedBy>>
  BY DEF Search!Store, Search!SearchUnchanged, Search!listenerVars, Search!historyVars
<1> QED BY <1>1, <1>3, <1>4, <1>5, <1>6

-----------------------------------------------------------------------------
(***************************************************************************)
(* The steps keep the invariant.                                           *)
(***************************************************************************)

\* What a step of module 5 does not touch keeps its part of the invariant.
LEMMA OthersStay ==
    ASSUME SearchInv,
           UNCHANGED <<rows, commits, now, committedBy, sweepFrom, sweptTo>>
    PROVE  /\ ClockInv'
           /\ \A r \in Readers : req'[r] = req[r] => RequestOK(r)' /\ AnswerOK(r)'
           /\ \A k \in CacheKeys :
                 cache'[k] = cache[k] /\ (Swept(k)' => Swept(k)) => EntryOK(k)'
<1>1. ClockInv'
  BY DEF SearchInv, ClockInv
<1>2. \A d : Own(d)' = Own(d)
  BY DEF Own
<1>3. ASSUME NEW r \in Readers, req'[r] = req[r] PROVE RequestOK(r)'
  BY <1>2, <1>3 DEF SearchInv, RequestOK, Recent, SnapsFrom, Search!Computing
<1>4. ASSUME NEW r \in Readers, req'[r] = req[r] PROVE AnswerOK(r)'
  BY <1>2, <1>4 DEF SearchInv, AnswerOK, Recent
<1>5. ASSUME NEW k \in CacheKeys, cache'[k] = cache[k], Swept(k)' => Swept(k)
      PROVE  EntryOK(k)'
  BY <1>2, <1>5 DEF SearchInv, EntryOK, Recent, SnapsFrom
<1> QED BY <1>1, <1>3, <1>4, <1>5

LEMMA StoreStepKeeps ==
    ASSUME SearchInv, StoreInv, [StoreNext]_storeVars, UNCHANGED searchVars
    PROVE  SearchInv'
<1>1. /\ \A d : Own(d) \subseteq Own(d)'
      /\ commits' \in Nat /\ commits <= commits'
  BY RowsStay
<1>2. UNCHANGED <<now, cache, req, listener, todo, pending, sweepFrom, sweptTo, committedBy>>
  BY DEF searchVars
<1>3. SearchTypes'
  BY <1>1, <1>2 DEF SearchInv, SearchTypes
<1>4. ClockInv'
  <2>1. commits \in Nat /\ sweepFrom \in Nat /\ committedBy \in Seq(Nat)
    BY DEF SearchInv, SearchTypes
  <2> QED BY <1>1, <1>2, <2>1 DEF SearchInv, ClockInv
<1>5. ASSUME NEW r \in Readers PROVE RequestOK(r)'
  BY <1>1, <1>2 DEF SearchInv, RequestOK, Recent, SnapsFrom, Search!Computing
<1>6. ASSUME NEW r \in Readers PROVE AnswerOK(r)'
  BY <1>1, <1>2 DEF SearchInv, AnswerOK, Recent
<1>7. ASSUME NEW k \in CacheKeys PROVE EntryOK(k)'
  BY <1>1, <1>2 DEF SearchInv, EntryOK, Recent, SnapsFrom, Swept
<1> QED BY <1>3, <1>4, <1>5, <1>6, <1>7 DEF SearchInv

\* A request's new state, when nothing but requests moves.
LEMMA RequestMoves ==
    ASSUME SearchInv, NEW r \in Readers,
           NEW x \in ComputingRequests \cup AnsweredRequests \cup {Search!NoRequest},
           req' = [req EXCEPT ![r] = x], RequestOK(r)', AnswerOK(r)',
           UNCHANGED <<rows, commits, cache, now, listener, todo, pending, sweepFrom,
                       sweptTo, committedBy>>
    PROVE  SearchInv'
<1>1. SearchTypes'
  BY DEF SearchInv, SearchTypes
<1>2. \A r2 \in Readers \ {r} : req'[r2] = req[r2]
  BY DEF SearchInv, SearchTypes
<1>3. \A k \in CacheKeys : cache'[k] = cache[k] /\ Swept(k)' = Swept(k)
  BY DEF Swept
<1>4. /\ ClockInv'
      /\ \A r2 \in Readers \ {r} : RequestOK(r2)' /\ AnswerOK(r2)'
      /\ \A k \in CacheKeys : EntryOK(k)'
  BY <1>2, <1>3, OthersStay
<1> QED BY <1>1, <1>4 DEF SearchInv

LEMMA AskKeeps ==
    ASSUME SearchInv, NEW r \in Readers, NEW u \in Askers, NEW q \in Queries,
           Search!Ask(r, u, q), UNCHANGED storeVars
    PROVE  SearchInv'
<1> DEFINE k == Search!CacheKey(u, q)
<1>1. /\ UNCHANGED <<rows, commits, cache, now, listener, todo, pending, sweepFrom,
                     sweptTo, committedBy>>
      /\ Search!Hit(r, u, q) \/ Search!Miss(r, u, q)
  BY DEF Search!Ask, Search!SearchUnchanged, Search!listenerVars, Search!historyVars,
         storeVars
<1>2. now \in Nat /\ req \in [Readers -> ComputingRequests \cup AnsweredRequests
                                          \cup {Search!NoRequest}]
  BY DEF SearchInv, SearchTypes
<1>3. k \in CacheKeys /\ k[1] = DepartmentOf[u] /\ k[2] = q
  BY KeyType
<1>4. cache[k] \in Search!Answers \cup {Nothing} /\ EntryOK(k)
  BY <1>3 DEF SearchInv, SearchTypes
<1> HIDE DEF k
<1>5. CASE Search!Hit(r, u, q)
  <2> DEFINE x == [stage |-> "answered", user |-> u, q |-> q, at |-> now,
                   answer |-> cache[k]]
  <2>1. cache[k] # Nothing /\ req' = [req EXCEPT ![r] = x]
    BY <1>5 DEF Search!Hit, k
  <2>2. x \in AnsweredRequests
    BY <1>2, <1>4, <2>1 DEF AnsweredRequests
  <2>3. /\ x.stage = "answered" /\ x.answer = cache[k] /\ x.at = now /\ x.q = q
        /\ x.user = u
    OBVIOUS
  <2> HIDE DEF x
  <2>4. req'[r] = x
    BY <1>2, <2>1
  <2>5. RequestOK(r)'
    BY <2>3, <2>4 DEF RequestOK, Search!Computing
  <2>6. AnswerOK(r)'
    <3>1. Own(DepartmentOf[u])' = Own(DepartmentOf[u])
      BY <1>1 DEF Own
    <3>2. Recent(cache[k])'
      BY <1>1, <1>4, <2>1 DEF EntryOK, Recent
    <3> QED BY <1>1, <1>3, <1>4, <2>1, <2>3, <2>4, <3>1 DEF AnswerOK, EntryOK, Recent
  <2> QED BY <1>1, <2>1, <2>2, <2>5, <2>6, RequestMoves
<1>6. CASE Search!Miss(r, u, q)
  <2> DEFINE x == [stage |-> Search!FirstStage(q), user |-> u, q |-> q, kw |-> <<>>,
                   sem |-> <<>>, counts |-> <<>>, began |-> now, snaps |-> {},
                   late |-> FALSE]
  <2>1. req' = [req EXCEPT ![r] = x]
    BY <1>6 DEF Search!Miss
  <2>2. Search!FirstStage(q) \in {"keyword", "semantic", "count"}
    BY QueriesAssumption DEF Search!SearchQueries, Search!SearchModes, Search!FirstStage
  <2>3. x \in ComputingRequests
    BY <1>2, <2>2 DEF ComputingRequests
  <2>4. /\ x.stage # "answered" /\ x.snaps = {} /\ x.began = now
        /\ x.kw = <<>> /\ x.sem = <<>>
    BY <2>2
  <2> HIDE DEF x
  <2>5. req'[r] = x
    BY <1>2, <2>1
  <2>6. AnswerOK(r)'
    BY <2>4, <2>5 DEF AnswerOK
  <2>7. Search!RangeOf(x.kw) = {} /\ Search!RangeOf(x.sem) = {}
    BY <2>4 DEF Search!RangeOf
  <2>8. RequestOK(r)'
    BY <1>1, <1>2, <2>4, <2>5, <2>7 DEF RequestOK, Recent, SnapsFrom
  <2> QED BY <1>1, <2>1, <2>3, <2>6, <2>8, RequestMoves
<1> QED BY <1>1, <1>5, <1>6

LEMMA StatementKeeps ==
    ASSUME SearchInv, NEW r \in Readers, UNCHANGED storeVars,
           Search!Keyword(r) \/ Search!Semantic(r) \/ Search!Count(r)
    PROVE  SearchInv'
<1>1. SearchTypes /\ ClockInv
  BY DEF SearchInv
<1>2. /\ Search!Computing(r)
      /\ UNCHANGED <<cache, now, listener, todo, pending, sweepFrom, sweptTo, committedBy>>
  BY <1>1, StatementEffect
<1>3. PICK x \in ComputingRequests :
         /\ req' = [req EXCEPT ![r] = x]
         /\ x.user = req[r].user /\ x.q = req[r].q /\ x.began = req[r].began
         /\ x.late = req[r].late /\ x.snaps = req[r].snaps \cup {commits}
         /\ \A d : /\ Search!RangeOf(req[r].kw) \subseteq Own(d)
                   /\ Search!RangeOf(req[r].sem) \subseteq Own(d)
                   /\ RoleOf[x.user] # "admin" /\ d = DepartmentOf[x.user]
                   => /\ Search!RangeOf(x.kw) \subseteq Own(d)
                      /\ Search!RangeOf(x.sem) \subseteq Own(d)
  BY <1>1, StatementEffect
<1>4. UNCHANGED <<rows, commits>>
  BY DEF storeVars
<1>5. req'[r] = x
  BY <1>1, <1>3 DEF SearchTypes
<1>6. RequestOK(r)
  BY DEF SearchInv
<1>7. \A d : Own(d)' = Own(d)
  BY <1>4 DEF Own
<1>8. Recent(x)'
  <2>1. commits \in Nat /\ committedBy \in Seq(Nat)
    BY <1>1 DEF SearchTypes
  <2> QED BY <1>1, <1>2, <1>3, <1>4, <1>6, <2>1 DEF Recent, RequestOK, ClockInv
<1>9. SnapsFrom(x, sweepFrom)'
  BY <1>1, <1>2, <1>3, <1>6 DEF SnapsFrom, RequestOK, ClockInv
<1>10. RequestOK(r)'
  BY <1>2, <1>3, <1>5, <1>6, <1>7, <1>8, <1>9 DEF RequestOK, Recent, SnapsFrom
<1>11. AnswerOK(r)'
  <2>1. x.stage # "answered"
    BY DEF ComputingRequests
  <2> QED BY <1>5, <2>1 DEF AnswerOK
<1> QED BY <1>2, <1>3, <1>4, <1>10, <1>11, RequestMoves

LEMMA StoreKeeps ==
    ASSUME SearchInv, NEW r \in Readers, UNCHANGED storeVars, Search!Store(r)
    PROVE  SearchInv'
<1>1. SearchTypes /\ ClockInv
  BY DEF SearchInv
<1>2. /\ Search!Computing(r)
      /\ UNCHANGED <<now, listener, todo, pending, sweepFrom, sweptTo, committedBy>>
  BY <1>1, StoreEffect
<1>3. PICK u \in Askers, q \in Queries : u = req[r].user /\ q = req[r].q
  BY <1>1, <1>2, StageType DEF ComputingRequests
<1> DEFINE k == Search!CacheKey(u, q)
<1>4. PICK e \in Search!Answers :
         /\ cache' = [cache EXCEPT ![k] = e]
         /\ req' = [req EXCEPT ![r] =
                      [stage |-> "answered", user |-> u, q |-> q, at |-> now, answer |-> e]]
         /\ e.began = req[r].began /\ e.late = req[r].late
         /\ e.snaps = req[r].snaps /\ e.stored = now
         /\ e.expires = now + Search!TTL(q)
         /\ e.admin = (RoleOf[u] = "admin")
         /\ Search!RangeOf(e.page) \subseteq
               Search!RangeOf(req[r].kw) \cup Search!RangeOf(req[r].sem)
  BY <1>3, <1>1, StoreEffect
<1>5. UNCHANGED <<rows, commits>>
  BY DEF storeVars
<1>6. now \in Nat
  BY <1>1 DEF SearchTypes
<1>7. k \in CacheKeys /\ k[1] = DepartmentOf[u] /\ k[2] = q
  BY KeyType
<1>8. RequestOK(r)
  BY DEF SearchInv
<1>9. Search!TTL(q) \in Nat \ {0}
  BY TTLType
<1>10. PICK x \in AnsweredRequests :
          x = [stage |-> "answered", user |-> u, q |-> q, at |-> now, answer |-> e]
  BY <1>6 DEF AnsweredRequests
<1>11. x \in AnsweredRequests
  OBVIOUS
<1>12. /\ x.stage = "answered" /\ x.user = u /\ x.q = q /\ x.at = now /\ x.answer = e
  BY <1>10
<1> HIDE DEF k
<1>13. /\ cache'[k] = e /\ \A k2 \in CacheKeys \ {k} : cache'[k2] = cache[k2]
       /\ req'[r] = x /\ \A r2 \in Readers \ {r} : req'[r2] = req[r2]
  BY <1>1, <1>4, <1>7, <1>10 DEF SearchTypes
<1>14. SearchTypes'
  <2>1. cache' \in [CacheKeys -> Search!Answers \cup {Nothing}]
    BY <1>1, <1>4 DEF SearchTypes
  <2>2. req' \in [Readers -> ComputingRequests \cup AnsweredRequests \cup {Search!NoRequest}]
    BY <1>1, <1>4, <1>11, <1>10 DEF SearchTypes
  <2>3. todo' \subseteq {k2 \in CacheKeys : cache'[k2] # Nothing}
    <3>1. todo \subseteq {k2 \in CacheKeys : cache[k2] # Nothing}
      BY <1>1 DEF SearchTypes
    <3>2. e # Nothing
      BY NothingAssumption
    <3> QED BY <1>2, <1>13, <3>1, <3>2
  <2> QED BY <1>1, <1>2, <1>5, <2>1, <2>2, <2>3 DEF SearchTypes
<1>15. Recent(e)'
  BY <1>2, <1>4, <1>8 DEF Recent, RequestOK
<1>16. \A d : Own(d)' = Own(d)
  BY <1>5 DEF Own
<1>17. ~ e.admin => Search!RangeOf(e.page) \subseteq Own(DepartmentOf[u])
  BY <1>3, <1>2, <1>4, <1>8 DEF RequestOK
<1>18. e.began <= now
  BY <1>2, <1>4, <1>8 DEF RequestOK, Recent
<1>19. EntryOK(k)'
  <2>1. SnapsFrom(e, sweepFrom)'
    BY <1>2, <1>4, <1>8 DEF RequestOK, SnapsFrom
  <2>2. SnapsFrom(e, sweptTo)'
    <3>1. /\ sweptTo' \in Nat /\ sweepFrom' \in Nat /\ sweptTo' <= sweepFrom'
          /\ e.snaps \in SUBSET Nat
      BY <1>1, <1>2 DEF SearchTypes, ClockInv, Search!Answers
    <3> QED BY <2>1, <3>1 DEF SnapsFrom
  <2>3. /\ e.began <= e.stored /\ e.stored <= now'
        /\ now' < e.expires /\ e.expires = e.stored + Search!TTL(k[2])
    BY <1>2, <1>4, <1>6, <1>7, <1>9, <1>18
  <2>4. ~ e.admin => Search!RangeOf(e.page) \subseteq Own(k[1])'
    BY <1>7, <1>16, <1>17
  <2>5. cache'[k] = e
    BY <1>13
  <2>6. /\ Recent(cache[k])' /\ SnapsFrom(cache[k], sweptTo)'
        /\ SnapsFrom(cache[k], sweepFrom)'
    BY <1>15, <2>1, <2>2, <2>5 DEF Recent, SnapsFrom
  <2> QED BY <2>3, <2>4, <2>5, <2>6 DEF EntryOK, Recent, SnapsFrom
<1>20. RequestOK(r)'
  BY <1>12, <1>13 DEF RequestOK, Search!Computing
<1>21. AnswerOK(r)'
  <2>1. now < now + Search!TTL(q)
    BY <1>6, <1>9
  <2> QED BY <1>2, <1>4, <1>12, <1>13, <1>15, <1>16, <1>17, <1>18, <2>1 DEF AnswerOK, Recent
<1>22. \A k2 \in CacheKeys : Swept(k2)' = Swept(k2)
  BY <1>2 DEF Swept
<1>23. /\ ClockInv'
       /\ \A r2 \in Readers \ {r} : RequestOK(r2)' /\ AnswerOK(r2)'
       /\ \A k2 \in CacheKeys \ {k} : EntryOK(k2)'
  BY <1>2, <1>5, <1>13, <1>22, OthersStay
<1>24. /\ \A r2 \in Readers : RequestOK(r2)' /\ AnswerOK(r2)'
       /\ \A k2 \in CacheKeys : EntryOK(k2)'
  <2>1. ASSUME NEW r2 \in Readers PROVE RequestOK(r2)' /\ AnswerOK(r2)'
    BY <1>20, <1>21, <1>23
  <2>2. ASSUME NEW k2 \in CacheKeys PROVE EntryOK(k2)'
    BY <1>19, <1>23
  <2> QED BY <2>1, <2>2
<1> QED BY <1>14, <1>23, <1>24 DEF SearchInv

LEMMA FailKeeps ==
    ASSUME SearchInv, NEW r \in Readers, UNCHANGED storeVars, Search!Fail(r)
    PROVE  SearchInv'
<1>1. /\ req' = [req EXCEPT ![r] = Search!NoRequest]
      /\ UNCHANGED <<rows, commits, cache, now, listener, todo, pending, sweepFrom,
                     sweptTo, committedBy>>
  BY DEF Search!Fail, Search!listenerVars, Search!historyVars, storeVars
<1>2. req'[r] = Search!NoRequest
  BY <1>1 DEF SearchInv, SearchTypes
<1>3. RequestOK(r)' /\ AnswerOK(r)'
  BY <1>2 DEF RequestOK, AnswerOK, Search!Computing, Search!NoRequest
<1> QED BY <1>1, <1>3, RequestMoves

LEMMA TickKeeps ==
    ASSUME SearchInv, UNCHANGED storeVars, Search!Tick
    PROVE  SearchInv'
<1>1. SearchTypes /\ ClockInv
  BY DEF SearchInv
<1>2. /\ now' = now + 1 /\ committedBy' = Append(committedBy, commits)
      /\ todo' = {k \in todo : cache'[k] # Nothing}
      /\ cache' = [k \in CacheKeys |->
                     IF cache[k] = Nothing THEN Nothing
                     ELSE IF Search!Expired(k) THEN Nothing
                     ELSE cache[k]]
      /\ UNCHANGED <<rows, commits, req, listener, pending, sweepFrom, sweptTo>>
  BY DEF Search!Tick, storeVars, CacheKeys
<1>3. /\ now \in Nat /\ commits \in Nat /\ committedBy \in Seq(Nat)
      /\ Len(committedBy) = now
  BY <1>1 DEF SearchTypes, ClockInv
<1>4. /\ Len(committedBy') = now + 1 /\ committedBy' \in Seq(Nat)
      /\ \A t \in DOMAIN committedBy' :
            \/ t \in DOMAIN committedBy /\ committedBy'[t] = committedBy[t]
            \/ t = now + 1 /\ committedBy'[t] = commits
  BY <1>2, <1>3
<1>5. SearchTypes'
  <2>1. cache' \in [CacheKeys -> Search!Answers \cup {Nothing}]
    BY <1>1, <1>2 DEF SearchTypes
  <2>2. now' \in Nat
    BY <1>2, <1>3
  <2>3. todo' \subseteq {k \in CacheKeys : cache'[k] # Nothing}
    BY <1>1, <1>2 DEF SearchTypes
  <2> QED BY <1>1, <1>2, <1>4, <2>1, <2>2, <2>3 DEF SearchTypes
<1>6. ClockInv'
  BY <1>1, <1>2, <1>3, <1>4 DEF ClockInv
<1>7. \A d : Own(d)' = Own(d)
  BY <1>2 DEF Own
<1>8. ASSUME NEW x, x.began \in Nat, x.began <= now,
             NEW c \in x.snaps, \A t \in DOMAIN committedBy : t <= x.began => committedBy[t] <= c
      PROVE  /\ x.began <= now'
             /\ \A t \in DOMAIN committedBy' : t <= x.began => committedBy'[t] <= c
  BY <1>2, <1>3, <1>4, <1>8
<1>9. ASSUME NEW r \in Readers PROVE RequestOK(r)'
  <2> SUFFICES ASSUME Search!Computing(r)' PROVE RequestOK(r)'
    BY DEF RequestOK
  <2>1. RequestOK(r) /\ Search!Computing(r) /\ req'[r] = req[r]
    BY <1>2 DEF SearchInv, Search!Computing
  <2>2. req[r].began \in Nat /\ req[r].began <= now
    BY <1>1, <2>1, StageType DEF ComputingRequests, RequestOK, Recent
  <2>3. req[r].began <= now'
    BY <1>2, <1>3, <2>2
  <2>4. Recent(req[r])'
    BY <1>8, <2>1, <2>2, <2>3 DEF RequestOK, Recent
  <2> QED BY <1>2, <1>7, <2>1, <2>4 DEF RequestOK, SnapsFrom
<1>10. ASSUME NEW r \in Readers PROVE AnswerOK(r)'
  <2> SUFFICES ASSUME req'[r].stage = "answered" PROVE AnswerOK(r)'
    BY DEF AnswerOK
  <2>1. AnswerOK(r) /\ req'[r] = req[r] /\ req[r].stage = "answered"
    BY <1>2 DEF SearchInv
  <2>2. req[r].answer.began \in Nat /\ req[r].answer.began <= now
    BY <1>1, <2>1, StageType DEF AnsweredRequests, Search!Answers, AnswerOK, Recent
  <2>3. req[r].answer.began <= now'
    BY <1>2, <1>3, <2>2
  <2>4. Recent(req[r].answer)'
    BY <1>8, <2>1, <2>2, <2>3 DEF AnswerOK, Recent
  <2> QED BY <1>2, <1>7, <2>1, <2>4 DEF AnswerOK
<1>11. ASSUME NEW k \in CacheKeys PROVE EntryOK(k)'
  <2> SUFFICES ASSUME cache'[k] # Nothing PROVE EntryOK(k)'
    BY DEF EntryOK
  <2>1. /\ cache[k] # Nothing /\ ~ Search!Expired(k) /\ cache'[k] = cache[k] /\ EntryOK(k)
    BY <1>2 DEF SearchInv
  <2>2. cache[k] \in Search!Answers
    BY <1>1, <2>1 DEF SearchTypes
  <2>3. /\ cache[k].began \in Nat /\ cache[k].expires \in Nat /\ cache[k].stored \in Nat
        /\ cache[k].began <= now /\ cache[k].stored <= now
    BY <2>1, <2>2 DEF Search!Answers, EntryOK, Recent
  <2>4. cache[k].began <= now' /\ now' < cache[k].expires /\ cache[k].stored <= now'
    BY <1>2, <1>3, <2>1, <2>3 DEF Search!Expired
  <2>5. Recent(cache[k])'
    BY <1>8, <2>1, <2>3, <2>4 DEF EntryOK, Recent
  <2>6. Swept(k)' => Swept(k)
    BY <1>2, <2>1 DEF Swept
  <2> QED BY <1>2, <1>7, <2>1, <2>4, <2>5, <2>6 DEF EntryOK, SnapsFrom
<1> QED BY <1>5, <1>6, <1>9, <1>10, <1>11 DEF SearchInv

\* Messages and the subscription.
LEMMA ChannelKeeps ==
    ASSUME SearchInv, UNCHANGED storeVars,
           Search!Publish \/ Search!Subscribe \/ Search!Disconnect
    PROVE  SearchInv'
<1>1. /\ UNCHANGED <<rows, commits, cache, req, now, sweepFrom, sweptTo, committedBy>>
      /\ pending' \in Nat
      /\ \/ UNCHANGED <<listener, todo>>
         \/ listener' = "listening" /\ todo' = todo
         \/ listener' = "down" /\ todo' = {}
  BY DEF SearchInv, SearchTypes, Search!Publish, Search!Subscribe, Search!Disconnect,
         Search!cacheVars, Search!boundVars, Search!historyVars, storeVars
<1>2. SearchTypes'
  BY <1>1 DEF SearchInv, SearchTypes
<1>3. \A k \in CacheKeys : Swept(k)' => Swept(k)
  BY <1>1 DEF Swept
<1>4. /\ ClockInv' /\ \A r \in Readers : RequestOK(r)' /\ AnswerOK(r)'
      /\ \A k \in CacheKeys : EntryOK(k)'
  BY <1>1, <1>3, OthersStay
<1> QED BY <1>2, <1>4 DEF SearchInv

LEMMA BeginSweepKeeps ==
    ASSUME SearchInv, UNCHANGED storeVars, Search!BeginSweep
    PROVE  SearchInv'
<1>1. /\ UNCHANGED <<rows, commits, cache, now, sweptTo, committedBy>>
      /\ pending > 0 /\ pending' = pending - 1
      /\ listener' = "search" /\ todo' = Search!Present(FALSE) /\ sweepFrom' = commits
      /\ req' = [r \in Readers |->
                    IF Search!Computing(r) THEN [req[r] EXCEPT !.late = TRUE] ELSE req[r]]
  BY DEF Search!BeginSweep, storeVars
<1>2. SearchTypes /\ ClockInv
  BY DEF SearchInv
<1>3. todo' = {k \in CacheKeys : cache[k] # Nothing /\ ~ Search!IsFacets(k)}
  BY <1>1 DEF Search!Present, CacheKeys
<1>4. ASSUME NEW r \in Readers, Search!Computing(r)
      PROVE  /\ req'[r] \in ComputingRequests /\ req'[r].late
             /\ req'[r].began = req[r].began /\ req'[r].snaps = req[r].snaps
             /\ req'[r].user = req[r].user /\ req'[r].kw = req[r].kw
             /\ req'[r].sem = req[r].sem
  <2>1. req[r] \in ComputingRequests /\ req'[r] = [req[r] EXCEPT !.late = TRUE]
    BY <1>1, <1>2, <1>4, StageType
  <2> QED BY <2>1 DEF ComputingRequests
<1>5. ASSUME NEW r \in Readers, ~ Search!Computing(r) PROVE req'[r] = req[r]
  BY <1>1, <1>5
<1>6. SearchTypes'
  <2>1. req' \in [Readers -> ComputingRequests \cup AnsweredRequests \cup {Search!NoRequest}]
    <3>1. \A r \in Readers : req'[r] \in ComputingRequests \cup AnsweredRequests
                                            \cup {Search!NoRequest}
      BY <1>2, <1>4, <1>5 DEF SearchTypes
    <3> QED BY <1>1, <3>1
  <2>2. pending' \in Nat /\ sweepFrom' \in Nat
    BY <1>1, <1>2 DEF SearchTypes
  <2>3. todo' \subseteq {k \in CacheKeys : cache'[k] # Nothing}
    BY <1>1, <1>3
  <2>4. cache' \in [CacheKeys -> Search!Answers \cup {Nothing}] /\ now' \in Nat
        /\ commits' \in Nat /\ sweptTo' \in Nat /\ committedBy' \in Seq(Nat)
        /\ listener' \in {"down", "listening", "search", "facets"}
    BY <1>1, <1>2 DEF SearchTypes
  <2> QED BY <2>1, <2>2, <2>3, <2>4 DEF SearchTypes
<1>7. ClockInv'
  BY <1>1, <1>2 DEF ClockInv, SearchTypes
<1>8. \A d : Own(d)' = Own(d)
  BY <1>1 DEF Own
<1>9. ASSUME NEW r \in Readers PROVE RequestOK(r)'
  <2>1. CASE Search!Computing(r)
    <3>1. RequestOK(r)
      BY DEF SearchInv
    <3> QED BY <1>1, <1>4, <1>8, <2>1, <3>1 DEF RequestOK, Recent, SnapsFrom
  <2>2. CASE ~ Search!Computing(r)
    BY <1>5, <2>2 DEF RequestOK, Search!Computing
  <2> QED BY <2>1, <2>2
<1>10. ASSUME NEW r \in Readers PROVE AnswerOK(r)'
  <2>1. CASE Search!Computing(r)
    <3>1. req'[r].stage # "answered"
      BY <1>4, <2>1 DEF ComputingRequests
    <3> QED BY <3>1 DEF AnswerOK
  <2>2. CASE ~ Search!Computing(r)
    BY <1>1, <1>5, <1>8, <2>2 DEF SearchInv, AnswerOK, Recent
  <2> QED BY <2>1, <2>2
<1>11. ASSUME NEW k \in CacheKeys PROVE EntryOK(k)'
  <2>1. cache[k] # Nothing => ~ Swept(k)'
    BY <1>1, <1>3 DEF Swept
  <2> QED BY <1>1, <1>8, <2>1 DEF SearchInv, EntryOK, Recent, SnapsFrom
<1> QED BY <1>6, <1>7, <1>9, <1>10, <1>11 DEF SearchInv

LEMMA DeleteKeeps ==
    ASSUME SearchInv, UNCHANGED storeVars, NEW k \in CacheKeys, Search!Delete(k)
    PROVE  SearchInv'
<1>1. /\ UNCHANGED <<rows, commits, req, listener, pending, now, sweepFrom, sweptTo,
                     committedBy>>
      /\ cache' = [cache EXCEPT ![k] = Nothing] /\ todo' = todo \ {k}
  BY DEF Search!Delete, Search!boundVars, Search!historyVars, storeVars
<1>2. SearchTypes
  BY DEF SearchInv
<1>3. cache'[k] = Nothing /\ \A k2 \in CacheKeys \ {k} : cache'[k2] = cache[k2]
  BY <1>1, <1>2 DEF SearchTypes
<1>4. SearchTypes'
  BY <1>1, <1>2, <1>3 DEF SearchTypes
<1>5. \A k2 \in CacheKeys \ {k} : Swept(k2)' => Swept(k2)
  BY <1>1 DEF Swept
<1>6. /\ ClockInv' /\ \A r \in Readers : RequestOK(r)' /\ AnswerOK(r)'
      /\ \A k2 \in CacheKeys \ {k} : EntryOK(k2)'
  BY <1>1, <1>3, <1>5, OthersStay
<1>7. EntryOK(k)'
  BY <1>3 DEF EntryOK
<1> QED BY <1>4, <1>6, <1>7 DEF SearchInv

LEMMA NextPrefixKeeps ==
    ASSUME SearchInv, UNCHANGED storeVars, Search!NextPrefix
    PROVE  SearchInv'
<1>1. /\ UNCHANGED <<rows, commits, cache, req, pending, now, sweepFrom, committedBy>>
      /\ listener \in {"search", "facets"} /\ todo = {}
      /\ listener' = IF listener = "search" THEN "facets" ELSE "listening"
      /\ todo' = IF listener = "search" THEN Search!Present(TRUE) ELSE {}
      /\ sweptTo' = IF listener = "facets" THEN sweepFrom ELSE sweptTo
  BY DEF Search!NextPrefix, Search!cacheVars, Search!boundVars, storeVars
<1>2. SearchTypes /\ ClockInv
  BY DEF SearchInv
<1>3. Search!Present(TRUE) = {k \in CacheKeys : cache[k] # Nothing /\ Search!IsFacets(k)}
  BY DEF Search!Present, CacheKeys
<1>4. SearchTypes'
  BY <1>1, <1>2, <1>3 DEF SearchTypes
<1>5. ClockInv'
  BY <1>1, <1>2 DEF ClockInv, SearchTypes
<1>6. \A d : Own(d)' = Own(d)
  BY <1>1 DEF Own
<1>7. ASSUME NEW r \in Readers PROVE RequestOK(r)'
  BY <1>1, <1>6 DEF SearchInv, RequestOK, Recent, SnapsFrom, Search!Computing
<1>8. ASSUME NEW r \in Readers PROVE AnswerOK(r)'
  BY <1>1, <1>6 DEF SearchInv, AnswerOK, Recent
<1>9. ASSUME NEW k \in CacheKeys PROVE EntryOK(k)'
  <2> SUFFICES ASSUME cache[k] # Nothing PROVE EntryOK(k)'
    BY <1>1 DEF EntryOK
  <2>1. EntryOK(k) /\ cache'[k] = cache[k]
    BY <1>1 DEF SearchInv
  <2>2. CASE listener = "search"
    <3>1. Swept(k)' => Swept(k)
      BY <1>1, <1>3, <2>2 DEF Swept
    <3> QED BY <1>1, <1>6, <2>1, <2>2, <3>1 DEF EntryOK, Recent, SnapsFrom
  <2>3. CASE listener = "facets"
    <3>1. Swept(k) /\ ~ Swept(k)'
      BY <1>1, <2>3 DEF Swept
    <3> QED BY <1>1, <1>6, <2>1, <2>3, <3>1 DEF EntryOK, Recent, SnapsFrom
  <2> QED BY <1>1, <2>2, <2>3
<1> QED BY <1>4, <1>5, <1>7, <1>8, <1>9 DEF SearchInv

-----------------------------------------------------------------------------
(***************************************************************************)
(* The invariant, and the theorems.                                        *)
(***************************************************************************)

LEMMA InitInv == Init => SearchInv /\ \E writes \in Nat : StoreInit(writes)
<1> SUFFICES ASSUME Init PROVE SearchInv /\ \E writes \in Nat : StoreInit(writes)
  OBVIOUS
<1>1. PICK b \in Budgets :
         StoreInit(b.writes)
         /\ Search!SearchInit(b.asks, b.seconds, b.messages, b.faults)
  BY DEF Init
<1>2. b.writes \in Nat
  BY BudgetsAssumption
<1>3. /\ now = 0 /\ cache = [k \in CacheKeys |-> Nothing]
      /\ req = [r \in Readers |-> Search!NoRequest] /\ listener = "down" /\ todo = {}
      /\ pending = 0 /\ sweepFrom = 0 /\ sweptTo = 0 /\ committedBy = <<>> /\ commits = 0
  BY <1>1 DEF Search!SearchInit, StoreInit, CacheKeys
<1>4. SearchTypes /\ ClockInv
  BY <1>3 DEF SearchTypes, ClockInv
<1>5. \A r \in Readers : RequestOK(r) /\ AnswerOK(r)
  BY <1>3 DEF RequestOK, AnswerOK, Search!Computing, Search!NoRequest
<1>6. \A k \in CacheKeys : EntryOK(k)
  BY <1>3 DEF EntryOK
<1> QED BY <1>1, <1>2, <1>4, <1>5, <1>6 DEF SearchInv

LEMMA SearchInvStep ==
    ASSUME SearchInv, StoreInv, [Next]_vars PROVE SearchInv'
<1>1. CASE StoreNext /\ UNCHANGED searchVars
  BY <1>1, StoreStepKeeps
<1>2. CASE UNCHANGED vars
  BY <1>2, StoreStepKeeps DEF vars
<1>3. CASE Search!SearchNext /\ UNCHANGED storeVars
  <2>1. ASSUME NEW r \in Readers, Search!ReaderStep(r) PROVE SearchInv'
    BY <1>3, <2>1, StatementKeeps, StoreKeeps DEF Search!ReaderStep
  <2>2. ASSUME Search!ListenerStep PROVE SearchInv'
    BY <1>3, <2>2, ChannelKeeps, BeginSweepKeeps, DeleteKeeps, NextPrefixKeeps
       DEF Search!ListenerStep, CacheKeys
  <2>3. ASSUME NEW r \in Readers, NEW u \in Askers, NEW q \in Queries, Search!Ask(r, u, q)
        PROVE  SearchInv'
    BY <1>3, <2>3, AskKeeps
  <2>4. ASSUME NEW r \in Readers, Search!Fail(r) PROVE SearchInv'
    BY <1>3, <2>4, FailKeeps
  <2>5. ASSUME Search!Tick \/ Search!Publish \/ Search!Disconnect PROVE SearchInv'
    BY <1>3, <2>5, TickKeeps, ChannelKeeps
  <2> QED BY <1>3, <2>1, <2>2, <2>3, <2>4, <2>5 DEF Search!SearchNext
<1> QED BY <1>1, <1>2, <1>3 DEF Next

\* Beside module 5, module 4 behaves as it does alone.
THEOREM StoreRefinement == Spec => StoreSpec
<1>1. Init => \E writes \in Nat : StoreInit(writes)
  BY InitInv
<1>2. [Next]_vars => [StoreNext]_storeVars
  BY DEF Next, vars
<1> QED BY <1>1, <1>2, PTL DEF Spec, StoreSpec

LEMMA CacheInvariance == Spec => []SearchInv
<1>1. Init => SearchInv
  BY InitInv
<1>2. SearchInv /\ StoreInv /\ [Next]_vars => SearchInv'
  BY SearchInvStep
<1> QED BY <1>1, <1>2, StoreRefinement, Invariance, PTL DEF Spec

\* The state of modules 4 and 5 keeps its types.
THEOREM TypeCorrectness == Spec => []TypeOK
<1>1. SearchInv /\ StoreInv => TypeOK
  <2> SUFFICES ASSUME SearchInv, StoreInv PROVE TypeOK
    OBVIOUS
  <2>1. StoreTypeOK
    BY DEF StoreInv
  <2>2. SearchTypes
    BY DEF SearchInv
  <2>3. ASSUME NEW r \in Readers
        PROVE  /\ req[r].stage = "answered" => req[r].answer \in Search!Answers
               /\ Search!Computing(r) => req[r].kw \in Seq(Papers) /\ req[r].sem \in Seq(Papers)
    BY <2>2, StageType DEF ComputingRequests, AnsweredRequests
  <2>4. Search!SearchTypeOK
    BY <2>2, <2>3 DEF SearchTypes, Search!SearchTypeOK, CacheKeys
  <2> QED BY <2>1, <2>4 DEF TypeOK
<1> QED BY <1>1, CacheInvariance, StoreRefinement, Invariance, PTL

\* A sweep leaves nothing computed from before it, but for the results of
\* requests that were under way.
THEOREM SweepSoundness == Spec => []SweptIsFresh
<1>1. SearchInv => SweptIsFresh
  BY DEF SearchInv, SweptIsFresh, Search!SweptIsFresh, EntryOK, SnapsFrom, CacheKeys
<1> QED BY <1>1, CacheInvariance, PTL

\* No answer is older than its entry's TTL and the time of its computation.
THEOREM AnswerRecency == Spec => []AnswersRecent
<1>1. SearchInv => AnswersRecent
  <2> SUFFICES ASSUME SearchInv, NEW r \in Readers, req[r].stage = "answered",
                      NEW t \in DOMAIN committedBy,
                      t - 1 <= req[r].at - Search!TTL(req[r].q)
                                - (req[r].answer.stored - req[r].answer.began),
                      NEW c \in req[r].answer.snaps
               PROVE  c >= committedBy[t]
    BY DEF AnswersRecent, Search!AnswersRecent
  <2> DEFINE a == req[r].answer
             ttl == Search!TTL(req[r].q)
             at == req[r].at
  <2>1. req[r] \in AnsweredRequests /\ AnswerOK(r)
    BY StageType DEF SearchInv
  <2>2. /\ a.began \in Int /\ a.stored \in Int /\ at \in Int /\ ttl \in Int /\ t \in Int
        /\ committedBy[t] \in Int /\ c \in Int
    <3>1. at \in Int /\ req[r].q \in Queries /\ a \in Search!Answers
      BY <2>1 DEF AnsweredRequests
    <3>2. ttl \in Int
      BY <3>1, TTLType
    <3> HIDE DEF at, ttl, a
    <3>3. a.began \in Int /\ a.stored \in Int /\ a.snaps \in SUBSET Nat
      BY <3>1 DEF Search!Answers
    <3>4. committedBy \in Seq(Nat)
      BY DEF SearchInv, SearchTypes
    <3>5. c \in Int
      BY <3>3 DEF a
    <3>6. committedBy[t] \in Int /\ t \in Int
      BY <3>4
    <3> QED BY <3>1, <3>2, <3>3, <3>5, <3>6
  <2>3. at < a.stored + ttl
    BY <2>1 DEF AnswerOK
  <2>4. t <= a.began
    <3> HIDE DEF at, ttl
    <3>1. t - 1 <= at - ttl - (a.stored - a.began)
      BY DEF at, ttl
    <3> HIDE DEF a
    <3> QED BY <2>2, <2>3, <3>1
  <2>5. committedBy[t] <= c
    BY <2>1, <2>4 DEF AnswerOK, Recent
  <2> QED BY <2>2, <2>5
<1> QED BY <1>1, CacheInvariance, PTL

\* Sharing entries within a department shows nobody another department's
\* papers, unless an admin filled the cache.
THEOREM DepartmentSeparation == Spec => []AnswersOfDepartment
<1>1. SearchInv => AnswersOfDepartment
  BY DEF SearchInv, AnswersOfDepartment, Search!AnswersOfDepartment, AnswerOK, Own
<1> QED BY <1>1, CacheInvariance, PTL

-----------------------------------------------------------------------------
(***************************************************************************)
(* What the statements of one request have read.                           *)
(***************************************************************************)

Distinct(s) == \A i, j \in DOMAIN s : s[i] = s[j] => i = j

\* With one snapshot, the counts agree.
OneSnapAgrees(x) ==
    /\ \A c \in x.snaps : c <= commits
    /\ \A c \in x.snaps : x.snaps = {c} =>
          \A i, j \in DOMAIN x.counts : x.counts[i] = x.counts[j]

\* As long as the only snapshot is the present state, a next statement will
\* count what the ones before it counted.  The lists hold no paper twice.
ReadsOK(x) ==
    /\ x.snaps = {} => x.counts = <<>>
    /\ x.snaps = {commits} =>
          \A i \in DOMAIN x.counts : x.counts[i] = Cardinality(Search!Published(x.user))
    /\ Distinct(x.kw) /\ Distinct(x.sem)

ReadInv ==
    /\ \A r \in Readers : Search!Computing(r) => OneSnapAgrees(req[r]) /\ ReadsOK(req[r])
    /\ \A r \in Readers : req[r].stage = "answered" => OneSnapAgrees(req[r].answer)
    /\ \A k \in CacheKeys : cache[k] # Nothing => OneSnapAgrees(cache[k])

\* A list cut from an order of a set names no element twice.
LEMMA CutDistinct ==
    ASSUME NEW S, NEW s \in Seq(S), Distinct(s), NEW n \in Nat
    PROVE  Distinct(Search!FirstOf(n, s))
<1> DEFINE m == Search!Least(n, Len(s))
<1>1. m \in Nat /\ m <= Len(s)
  BY DEF Search!Least
<1>2. Search!FirstOf(n, s) = SubSeq(s, 1, m)
  BY DEF Search!FirstOf
<1> HIDE DEF m
<1>3. /\ Len(SubSeq(s, 1, m)) = m
      /\ \A i \in 1 .. m : SubSeq(s, 1, m)[i] = s[i]
      /\ SubSeq(s, 1, m) \in Seq(S)
  BY <1>1, SubSeqProperties
<1>4. DOMAIN SubSeq(s, 1, m) = 1 .. m /\ 1 .. m \subseteq DOMAIN s
  BY <1>1, <1>3
<1> QED BY <1>2, <1>3, <1>4 DEF Distinct

LEMMA ListDistinct ==
    ASSUME NEW u \in Askers, NEW q \in Queries,
           NEW s \in Search!KeywordRows(u, q) \cup Search!SemanticRows(u, q)
    PROVE  Distinct(s)
<1>1. Search!PoolSize(q) \in Nat
  BY SearchAssumption DEF Search!PoolSize, Search!Least
<1>2. PICK S \in SUBSET Search!Published(u) :
         \E f \in Search!Orders(S) : s = Search!FirstOf(Search!PoolSize(q), f)
  BY DEF Search!KeywordRows, Search!SemanticRows
<1>3. PICK f \in Search!Orders(S) : s = Search!FirstOf(Search!PoolSize(q), f)
  BY <1>2
<1>4. S \in SUBSET Papers
  BY <1>2 DEF Search!Published
<1>5. f \in Seq(S)
  BY <1>3, <1>4, OrdersType
<1>6. Distinct(f)
  BY <1>3 DEF Search!Orders, Distinct
<1> QED BY <1>1, <1>3, <1>5, <1>6, CutDistinct

\* A statement adds what is committed to the request's snapshots, and reads it.
LEMMA StatementReads ==
    ASSUME SearchTypes, NEW r \in Readers,
           Search!Keyword(r) \/ Search!Semantic(r) \/ Search!Count(r)
    PROVE  /\ \A r2 \in Readers \ {r} : req'[r2] = req[r2]
           /\ cache' = cache
           /\ req'[r].snaps = req[r].snaps \cup {commits}
           /\ req'[r].user = req[r].user
           /\ \/ req'[r].counts = req[r].counts
              \/ req'[r].counts =
                    Append(req[r].counts, Cardinality(Search!Published(req[r].user)))
           /\ Distinct(req[r].kw) => Distinct(req'[r].kw)
           /\ Distinct(req[r].sem) => Distinct(req'[r].sem)
<1>1. Search!Computing(r)
  BY DEF Search!Keyword, Search!Semantic, Search!Count, Search!Computing
<1>2. req[r] \in ComputingRequests /\ req[r].user \in Askers /\ req[r].q \in Queries
  BY <1>1, StageType DEF ComputingRequests
<1>3. r \in DOMAIN req
  BY DEF SearchTypes
<1>4. CASE Search!Keyword(r)
  <2>1. PICK s \in Search!KeywordRows(req[r].user, req[r].q) :
           Search!Statement(r, [req[r] EXCEPT
              !.kw = s,
              !.stage = IF req[r].q.mode = "hybrid" THEN "semantic" ELSE "store"])
    BY <1>4 DEF Search!Keyword
  <2>2. Distinct(s)
    BY <1>2, ListDistinct
  <2>3. /\ cache' = cache
        /\ \A r2 \in Readers \ {r} : req'[r2] = req[r2]
        /\ req'[r] = [[req[r] EXCEPT
              !.kw = s,
              !.stage = IF req[r].q.mode = "hybrid" THEN "semantic" ELSE "store"]
              EXCEPT !.snaps = @ \cup {commits}]
    BY <1>3, <2>1 DEF Search!Statement
  <2>4. /\ req'[r].snaps = req[r].snaps \cup {commits} /\ req'[r].user = req[r].user
        /\ req'[r].counts = req[r].counts /\ req'[r].kw = s /\ req'[r].sem = req[r].sem
    BY <1>2, <2>3 DEF ComputingRequests
  <2> QED BY <2>2, <2>3, <2>4
<1>5. CASE Search!Semantic(r)
  <2>1. PICK s \in Search!SemanticRows(req[r].user, req[r].q) :
           Search!Statement(r, [req[r] EXCEPT !.sem = s, !.stage = "store"])
    BY <1>5 DEF Search!Semantic
  <2>2. Distinct(s)
    BY <1>2, ListDistinct
  <2>3. /\ cache' = cache
        /\ \A r2 \in Readers \ {r} : req'[r2] = req[r2]
        /\ req'[r] = [[req[r] EXCEPT !.sem = s, !.stage = "store"]
              EXCEPT !.snaps = @ \cup {commits}]
    BY <1>3, <2>1 DEF Search!Statement
  <2>4. /\ req'[r].snaps = req[r].snaps \cup {commits} /\ req'[r].user = req[r].user
        /\ req'[r].counts = req[r].counts /\ req'[r].sem = s /\ req'[r].kw = req[r].kw
    BY <1>2, <2>3 DEF ComputingRequests
  <2> QED BY <2>2, <2>3, <2>4
<1>6. CASE Search!Count(r)
  <2> DEFINE kind == Search!FacetKinds[Len(req[r].counts) + 1]
             n == Search!FacetCount(req[r].user, kind)
  <2>1. n = Cardinality(Search!Published(req[r].user))
    <3>1. n = Search!Cardinality(Search!Published(req[r].user))
      BY DEF Search!FacetCount
    <3>2. Search!Cardinality(Search!Published(req[r].user))
             = Cardinality(Search!Published(req[r].user))
      BY Zenon DEF Search!Cardinality, Cardinality
    <3> QED BY <3>1, <3>2
  <2>2. Search!Statement(r, [req[r] EXCEPT
           !.counts = Append(@, n),
           !.stage = IF Len(req[r].counts) = 2 THEN "store" ELSE "count"])
    BY <1>6 DEF Search!Count
  <2> HIDE DEF n
  <2>3. /\ cache' = cache
        /\ \A r2 \in Readers \ {r} : req'[r2] = req[r2]
        /\ req'[r] = [[req[r] EXCEPT
              !.counts = Append(@, n),
              !.stage = IF Len(req[r].counts) = 2 THEN "store" ELSE "count"]
              EXCEPT !.snaps = @ \cup {commits}]
    BY <1>3, <2>2 DEF Search!Statement
  <2>4. /\ req'[r].snaps = req[r].snaps \cup {commits} /\ req'[r].user = req[r].user
        /\ req'[r].counts = Append(req[r].counts, n) /\ req'[r].sem = req[r].sem
        /\ req'[r].kw = req[r].kw
    BY <1>2, <2>3 DEF ComputingRequests
  <2> QED BY <2>1, <2>3, <2>4
<1> QED BY <1>4, <1>5, <1>6

\* Module 4 changes the papers only by a commit that is counted.
LEMMA RowsCounted ==
    ASSUME StoreInv, [StoreNext]_storeVars, commits' = commits
    PROVE  rows' = rows
<1>1. commits \in Nat
  BY DEF StoreInv, StoreTypeOK
<1>2. ASSUME NEW s \in Sessions, CommitPaper(s) PROVE FALSE
  BY <1>1, <1>2 DEF CommitPaper
<1>3. ASSUME NEW s \in Sessions, LockRow(s) \/ CommitIssue(s) \/ Rollback(s)
      PROVE  rows' = rows
  BY <1>3 DEF LockRow, CommitIssue, Rollback, Goto
<1>4. ASSUME NEW s \in Sessions, NEW u \in Users, NEW p \in Papers,
             \/ \E row \in NewRows, flagged \in BOOLEAN : Create(s, u, p, row, flagged)
             \/ \E patch \in Patches : Update(s, u, p, patch)
             \/ Resolve(s, u, p)
      PROVE  rows' = rows
  BY <1>4 DEF Create, Update, Resolve, Begin
<1> QED BY <1>2, <1>3, <1>4 DEF StoreNext, storeVars

\* What a step leaves alone goes on agreeing.
LEMMA ReadsStay ==
    ASSUME commits \in Nat, commits' \in Nat, commits <= commits',
           commits' = commits => rows' = rows,
           NEW x, x.snaps \in SUBSET Nat
    PROVE  /\ OneSnapAgrees(x) => OneSnapAgrees(x)'
           /\ OneSnapAgrees(x) /\ ReadsOK(x) => ReadsOK(x)'
<1>1. ASSUME OneSnapAgrees(x) PROVE OneSnapAgrees(x)'
  BY <1>1 DEF OneSnapAgrees
<1>2. ASSUME OneSnapAgrees(x), ReadsOK(x) PROVE ReadsOK(x)'
  <2>1. x.snaps = {commits'} => commits' = commits
    BY <1>2 DEF OneSnapAgrees
  <2>2. commits' = commits =>
           Search!Published(x.user)' = Search!Published(x.user)
    BY DEF Search!Published
  <2>3. x.snaps = {commits'} =>
           \A i \in DOMAIN x.counts : x.counts[i] = Cardinality(Search!Published(x.user)')
    BY <1>2, <2>1, <2>2 DEF ReadsOK
  <2> QED BY <1>2, <2>3 DEF ReadsOK
<1> QED BY <1>1, <1>2

\* One more statement.
LEMMA StatementAgrees ==
    ASSUME SearchInv, ReadInv, NEW r \in Readers, UNCHANGED storeVars,
           Search!Keyword(r) \/ Search!Semantic(r) \/ Search!Count(r)
    PROVE  ReadInv'
<1> DEFINE x == req[r]
           y == req'[r]
           n == Cardinality(Search!Published(x.user))
<1>1. SearchTypes /\ SearchTypes'
  BY StatementKeeps DEF SearchInv
<1>2. /\ \A r2 \in Readers \ {r} : req'[r2] = req[r2]
      /\ cache' = cache
      /\ y.snaps = x.snaps \cup {commits} /\ y.user = x.user
      /\ y.counts = x.counts \/ y.counts = Append(x.counts, n)
      /\ Distinct(x.kw) => Distinct(y.kw)
      /\ Distinct(x.sem) => Distinct(y.sem)
  BY <1>1, StatementReads
<1>3. UNCHANGED <<rows, commits>>
  BY DEF storeVars
<1>4. Search!Computing(r)
  BY DEF Search!Keyword, Search!Semantic, Search!Count, Search!Computing
<1>5. x \in ComputingRequests
  BY <1>1, <1>4, StageType
<1>6. /\ commits \in Nat /\ x.snaps \in SUBSET Nat /\ x.counts \in Seq(Nat)
      /\ OneSnapAgrees(x) /\ ReadsOK(x)
  BY <1>1, <1>4, <1>5 DEF ReadInv, SearchTypes, ComputingRequests
<1> HIDE DEF x, y, n
<1>7. /\ y.counts = <<>> \/ DOMAIN y.counts = 1 .. Len(y.counts)
      /\ \A i \in DOMAIN y.counts :
            \/ i \in DOMAIN x.counts /\ y.counts[i] = x.counts[i]
            \/ y.counts[i] = n
  <2>1. DOMAIN x.counts = 1 .. Len(x.counts) /\ Len(x.counts) \in Nat
    BY <1>6
  <2>2. CASE y.counts = x.counts
    BY <2>1, <2>2
  <2>3. CASE y.counts = Append(x.counts, n)
    <3>1. DOMAIN y.counts = 1 .. Len(x.counts) + 1 /\ Len(y.counts) = Len(x.counts) + 1
      BY <1>6, <2>3
    <3>2. y.counts[Len(x.counts) + 1] = n
      BY <1>6, <2>3
    <3>3. \A i \in 1 .. Len(x.counts) : y.counts[i] = x.counts[i]
      BY <1>6, <2>3
    <3>4. \A i \in 1 .. Len(x.counts) + 1 : i \in 1 .. Len(x.counts) \/ i = Len(x.counts) + 1
      BY <2>1
    <3> QED BY <2>1, <3>1, <3>2, <3>3, <3>4
  <2> QED BY <1>2, <2>2, <2>3
<1>8. ASSUME y.snaps = {commits}
      PROVE  \A i \in DOMAIN y.counts : y.counts[i] = n
  <2>1. x.snaps = {} \/ x.snaps = {commits}
    BY <1>2, <1>8
  <2>2. \A i \in DOMAIN x.counts : x.counts[i] = n
    BY <1>6, <2>1 DEF ReadsOK, n
  <2> QED BY <1>7, <2>2
<1>9. y.snaps # {} /\ \A c : y.snaps = {c} => c = commits
  BY <1>2
<1>10. OneSnapAgrees(y) /\ ReadsOK(y)
  <2>1. Search!Published(y.user) = Search!Published(x.user)
    BY <1>2
  <2>2. \A c \in y.snaps : c <= commits
    BY <1>2, <1>6 DEF OneSnapAgrees
  <2> QED BY <1>2, <1>6, <1>8, <1>9, <2>1, <2>2 DEF OneSnapAgrees, ReadsOK, n
<1>11. commits' = commits /\ \A u : Search!Published(u)' = Search!Published(u)
  BY <1>3 DEF Search!Published
<1>12. y.stage # "answered"
  BY <1>1, <1>4, <1>5, StatementEffect DEF ComputingRequests, SearchTypes, y
<1>13. ASSUME NEW r2 \in Readers, Search!Computing(r2)'
       PROVE  (OneSnapAgrees(req[r2]) /\ ReadsOK(req[r2]))'
  <2>1. CASE r2 = r
    BY <1>10, <1>11, <2>1 DEF y, OneSnapAgrees, ReadsOK
  <2>2. CASE r2 # r
    BY <1>2, <1>11, <1>13, <2>2 DEF ReadInv, Search!Computing, OneSnapAgrees, ReadsOK
  <2> QED BY <2>1, <2>2
<1>14. ASSUME NEW r2 \in Readers, req'[r2].stage = "answered"
       PROVE  OneSnapAgrees(req[r2].answer)'
  BY <1>2, <1>11, <1>12, <1>14 DEF ReadInv, OneSnapAgrees, y
<1>15. ASSUME NEW k \in CacheKeys, cache'[k] # Nothing PROVE OneSnapAgrees(cache[k])'
  BY <1>2, <1>11, <1>15 DEF ReadInv, OneSnapAgrees
<1> QED BY <1>13, <1>14, <1>15 DEF ReadInv

\* An answer agrees as its request or its entry did.
LEMMA AnswerAgrees ==
    ASSUME SearchInv, ReadInv, NEW r \in Readers, UNCHANGED storeVars,
           \/ Search!Store(r)
           \/ \E u \in Askers, q \in Queries : Search!Ask(r, u, q)
    PROVE  ReadInv'
<1>1. SearchTypes
  BY DEF SearchInv
<1>2. commits' = commits /\ rows' = rows /\ \A u : Search!Published(u)' = Search!Published(u)
  BY DEF storeVars, Search!Published
<1>3. ASSUME \A r2 \in Readers \ {r} : req'[r2] = req[r2],
             Search!Computing(r)' => (OneSnapAgrees(req[r]) /\ ReadsOK(req[r]))',
             req'[r].stage = "answered" => OneSnapAgrees(req[r].answer)',
             \A k \in CacheKeys : cache'[k] = cache[k] \/ OneSnapAgrees(cache[k])'
      PROVE  ReadInv'
  <2>1. ASSUME NEW r2 \in Readers, Search!Computing(r2)'
        PROVE  (OneSnapAgrees(req[r2]) /\ ReadsOK(req[r2]))'
    BY <1>2, <1>3, <2>1 DEF ReadInv, Search!Computing, OneSnapAgrees, ReadsOK
  <2>2. ASSUME NEW r2 \in Readers, req'[r2].stage = "answered"
        PROVE  OneSnapAgrees(req[r2].answer)'
    BY <1>2, <1>3, <2>2 DEF ReadInv, OneSnapAgrees
  <2>3. ASSUME NEW k \in CacheKeys, cache'[k] # Nothing PROVE OneSnapAgrees(cache[k])'
    BY <1>2, <1>3, <2>3 DEF ReadInv, OneSnapAgrees
  <2> QED BY <2>1, <2>2, <2>3 DEF ReadInv
<1>4. CASE Search!Store(r)
  <2>1. Search!Computing(r)
    BY <1>4 DEF Search!Store, Search!Computing
  <2>2. PICK page \in Search!Pages(r) :
           LET q == req[r]
               entry == [page |-> page, counts |-> q.counts, snaps |-> q.snaps,
                         began |-> q.began, stored |-> now, late |-> q.late,
                         admin |-> RoleOf[q.user] = "admin",
                         expires |-> now + Search!TTL(q.q)]
           IN  /\ cache' = [cache EXCEPT ![Search!CacheKey(q.user, q.q)] = entry]
               /\ req' = [req EXCEPT ![r] =
                           [stage |-> "answered", user |-> q.user, q |-> q.q,
                            at |-> now, answer |-> entry]]
    BY <1>4 DEF Search!Store
  <2> DEFINE e == [page |-> page, counts |-> req[r].counts, snaps |-> req[r].snaps,
                   began |-> req[r].began, stored |-> now, late |-> req[r].late,
                   admin |-> RoleOf[req[r].user] = "admin",
                   expires |-> now + Search!TTL(req[r].q)]
  <2>3. e.counts = req[r].counts /\ e.snaps = req[r].snaps
    OBVIOUS
  <2>4. OneSnapAgrees(req[r])
    BY <2>1 DEF ReadInv
  <2> DEFINE x == [stage |-> "answered", user |-> req[r].user, q |-> req[r].q,
                   at |-> now, answer |-> e]
  <2>5. x.stage = "answered" /\ x.answer = e
    OBVIOUS
  <2>6. /\ req'[r] = x /\ \A r2 \in Readers \ {r} : req'[r2] = req[r2]
        /\ \A k2 \in CacheKeys : cache'[k2] = cache[k2] \/ cache'[k2] = e
    BY <1>1, <2>2 DEF SearchTypes
  <2> HIDE DEF x, e
  <2>7. x.stage \notin {"keyword", "semantic", "count", "store"}
    BY <2>5
  <2>8. (OneSnapAgrees(req[r].answer))'
    BY <1>2, <2>3, <2>4, <2>5, <2>6 DEF OneSnapAgrees
  <2>9. ASSUME NEW k2 \in CacheKeys PROVE cache'[k2] = cache[k2] \/ OneSnapAgrees(cache[k2])'
    BY <1>2, <2>3, <2>4, <2>6 DEF OneSnapAgrees
  <2>10. ~ Search!Computing(r)'
    BY <2>6, <2>7 DEF Search!Computing
  <2> QED BY <1>3, <2>6, <2>8, <2>9, <2>10
<1>5. ASSUME NEW u \in Askers, NEW q \in Queries, Search!Ask(r, u, q) PROVE ReadInv'
  <2>1. cache' = cache /\ (Search!Hit(r, u, q) \/ Search!Miss(r, u, q))
    BY <1>5 DEF Search!Ask
  <2>2. CASE Search!Hit(r, u, q)
    <3> DEFINE k == Search!CacheKey(u, q)
               x == [stage |-> "answered", user |-> u, q |-> q, at |-> now,
                     answer |-> cache[k]]
    <3>1. x.stage = "answered" /\ x.answer = cache[k]
      OBVIOUS
    <3>2. cache[k] # Nothing /\ req' = [req EXCEPT ![r] = x]
      BY <2>2 DEF Search!Hit
    <3>3. k \in CacheKeys
      BY KeyType
    <3>4. req'[r] = x /\ \A r2 \in Readers \ {r} : req'[r2] = req[r2]
      BY <1>1, <3>2 DEF SearchTypes
    <3> HIDE DEF x, k
    <3>5. OneSnapAgrees(cache[k])
      BY <3>2, <3>3 DEF ReadInv
    <3> QED BY <1>2, <1>3, <2>1, <3>1, <3>4, <3>5 DEF OneSnapAgrees, Search!Computing
  <2>3. CASE Search!Miss(r, u, q)
    <3> DEFINE x == [stage |-> Search!FirstStage(q), user |-> u, q |-> q, kw |-> <<>>,
                     sem |-> <<>>, counts |-> <<>>, began |-> now, snaps |-> {},
                     late |-> FALSE]
    <3>1. req'[r] = x /\ \A r2 \in Readers \ {r} : req'[r2] = req[r2]
      BY <1>1, <2>3 DEF SearchTypes, Search!Miss
    <3>2. x.stage # "answered"
      BY QueriesAssumption DEF Search!SearchQueries, Search!SearchModes, Search!FirstStage
    <3>3. x.snaps = {} /\ x.counts = <<>> /\ x.kw = <<>> /\ x.sem = <<>>
      OBVIOUS
    <3> HIDE DEF x
    <3>4. (OneSnapAgrees(req[r]) /\ ReadsOK(req[r]))'
      BY <3>1, <3>3 DEF OneSnapAgrees, ReadsOK, Distinct
    <3> QED BY <1>3, <2>1, <3>1, <3>2, <3>4
  <2> QED BY <2>1, <2>2, <2>3
<1> QED BY <1>4, <1>5

\* Every other step leaves what was read as it is, or forgets it.
LEMMA OthersAgree ==
    ASSUME SearchInv, SearchInv', ReadInv,
           commits' \in Nat, commits <= commits', commits' = commits => rows' = rows,
           \A r \in Readers :
              \/ req'[r] = req[r] \/ req'[r] = Search!NoRequest
              \/ Search!Computing(r) /\ req'[r] = [req[r] EXCEPT !.late = TRUE],
           \A k \in CacheKeys : cache'[k] = cache[k] \/ cache'[k] = Nothing
    PROVE  ReadInv'
<1>1. SearchTypes /\ commits \in Nat
  BY DEF SearchInv, SearchTypes
<1>2. ASSUME NEW r \in Readers, Search!Computing(r)'
      PROVE  (OneSnapAgrees(req[r]) /\ ReadsOK(req[r]))'
  <2>1. req'[r] # Search!NoRequest
    BY <1>2 DEF Search!Computing, Search!NoRequest
  <2>2. Search!Computing(r)
    BY <1>2, <2>1 DEF Search!Computing
  <2>3. req[r] \in ComputingRequests
    BY <1>1, <2>2, StageType
  <2>4. /\ req[r].snaps \in SUBSET Nat
        /\ req'[r].snaps = req[r].snaps /\ req'[r].counts = req[r].counts
        /\ req'[r].user = req[r].user /\ req'[r].kw = req[r].kw /\ req'[r].sem = req[r].sem
    BY <2>1, <2>3 DEF ComputingRequests
  <2>5. PICK x : x = req[r]
    OBVIOUS
  <2>6. OneSnapAgrees(x) /\ ReadsOK(x)
    BY <2>2, <2>5 DEF ReadInv
  <2>7. (OneSnapAgrees(x) /\ ReadsOK(x))'
    BY <1>1, <2>4, <2>5, <2>6, ReadsStay
  <2> QED BY <2>4, <2>5, <2>7 DEF OneSnapAgrees, ReadsOK
<1>3. ASSUME NEW r \in Readers, req'[r].stage = "answered"
      PROVE  OneSnapAgrees(req[r].answer)'
  <2>1. req'[r] # Search!NoRequest
    BY <1>3 DEF Search!NoRequest
  <2>2. req'[r] = req[r]
    <3>1. CASE Search!Computing(r) /\ req'[r] = [req[r] EXCEPT !.late = TRUE]
      <4>1. req[r] \in ComputingRequests
        BY <1>1, <3>1, StageType
      <4>2. req'[r].stage = req[r].stage
        BY <3>1, <4>1 DEF ComputingRequests
      <4> QED BY <1>3, <3>1, <4>2 DEF Search!Computing
    <3> QED BY <2>1, <3>1
  <2>3. req[r] \in AnsweredRequests
    BY <1>1, <1>3, <2>2, StageType
  <2>4. req[r].answer.snaps \in SUBSET Nat
    BY <2>3 DEF AnsweredRequests, Search!Answers
  <2>5. PICK x : x = req[r].answer
    OBVIOUS
  <2>6. OneSnapAgrees(x)
    BY <1>3, <2>2, <2>5 DEF ReadInv
  <2>7. OneSnapAgrees(x)'
    BY <1>1, <2>4, <2>5, <2>6, ReadsStay
  <2> QED BY <2>2, <2>5, <2>7 DEF OneSnapAgrees
<1>4. ASSUME NEW k \in CacheKeys, cache'[k] # Nothing PROVE OneSnapAgrees(cache[k])'
  <2>1. cache'[k] = cache[k]
    BY <1>4
  <2>2. cache[k].snaps \in SUBSET Nat
    BY <1>1, <1>4, <2>1 DEF SearchTypes, Search!Answers
  <2>3. PICK x : x = cache[k]
    OBVIOUS
  <2>4. OneSnapAgrees(x)
    BY <1>4, <2>1, <2>3 DEF ReadInv
  <2>5. OneSnapAgrees(x)'
    BY <1>1, <2>2, <2>3, <2>4, ReadsStay
  <2> QED BY <2>1, <2>3, <2>5 DEF OneSnapAgrees
<1> QED BY <1>2, <1>3, <1>4 DEF ReadInv

LEMMA ReadInvStep ==
    ASSUME SearchInv, StoreInv, ReadInv, [Next]_vars PROVE ReadInv'
<1>1. SearchInv' /\ commits \in Nat /\ SearchTypes
  BY SearchInvStep DEF SearchInv, SearchTypes
<1>2. ASSUME [StoreNext]_storeVars, UNCHANGED searchVars PROVE ReadInv'
  BY <1>1, <1>2, RowsStay, RowsCounted, OthersAgree DEF searchVars
<1>3. CASE StoreNext /\ UNCHANGED searchVars
  BY <1>2, <1>3
<1>4. CASE UNCHANGED vars
  BY <1>2, <1>4 DEF vars
<1>5. CASE Search!SearchNext /\ UNCHANGED storeVars
  <2>1. commits' = commits /\ rows' = rows
    BY <1>5 DEF storeVars
  <2>2. ASSUME NEW r \in Readers, Search!ReaderStep(r) PROVE ReadInv'
    BY <1>5, <2>2, StatementAgrees, AnswerAgrees DEF Search!ReaderStep
  <2>3. ASSUME NEW r \in Readers, NEW u \in Askers, NEW q \in Queries, Search!Ask(r, u, q)
        PROVE  ReadInv'
    BY <1>5, <2>3, AnswerAgrees
  <2>4. ASSUME NEW r \in Readers, Search!Fail(r) PROVE ReadInv'
    <3>1. /\ \A r2 \in Readers : req'[r2] = req[r2] \/ req'[r2] = Search!NoRequest
          /\ cache' = cache
      BY <1>1, <2>4 DEF Search!Fail, SearchTypes
    <3> QED BY <1>1, <2>1, <3>1, OthersAgree
  <2>5. ASSUME Search!Tick \/ Search!Publish \/ Search!Disconnect \/ Search!Subscribe
               \/ Search!NextPrefix \/ \E k \in CacheKeys : Search!Delete(k)
        PROVE  ReadInv'
    <3>1. req' = req
      BY <2>5 DEF Search!Tick, Search!Publish, Search!Disconnect, Search!Subscribe,
                  Search!NextPrefix, Search!Delete, Search!cacheVars
    <3>2. CASE Search!Tick
      <4>1. \A k \in CacheKeys : cache'[k] = cache[k] \/ cache'[k] = Nothing
        BY <3>2 DEF Search!Tick, CacheKeys
      <4> QED BY <1>1, <2>1, <3>1, <4>1, OthersAgree
    <3>3. CASE \E k \in CacheKeys : Search!Delete(k)
      <4>1. \A k \in CacheKeys : cache'[k] = cache[k] \/ cache'[k] = Nothing
        BY <1>1, <3>3 DEF Search!Delete, SearchTypes
      <4> QED BY <1>1, <2>1, <3>1, <4>1, OthersAgree
    <3>4. CASE \/ Search!Publish \/ Search!Disconnect \/ Search!Subscribe
               \/ Search!NextPrefix
      <4>1. cache' = cache
        BY <3>4 DEF Search!Publish, Search!Disconnect, Search!Subscribe,
                    Search!NextPrefix, Search!cacheVars
      <4> QED BY <1>1, <2>1, <3>1, <4>1, OthersAgree
    <3> QED BY <2>5, <3>2, <3>3, <3>4
  <2>6. ASSUME Search!BeginSweep PROVE ReadInv'
    <3>1. /\ cache' = cache
          /\ \A r \in Readers : \/ req'[r] = req[r]
                                \/ /\ Search!Computing(r)
                                   /\ req'[r] = [req[r] EXCEPT !.late = TRUE]
      BY <2>6 DEF Search!BeginSweep
    <3> QED BY <1>1, <2>1, <3>1, OthersAgree
  <2> QED BY <1>5, <2>2, <2>3, <2>4, <2>5, <2>6
        DEF Search!SearchNext, Search!ListenerStep, CacheKeys
<1> QED BY <1>3, <1>4, <1>5 DEF Next

LEMMA ReadInvariance == Spec => []ReadInv
<1>1. Init => ReadInv
  BY DEF Init, Search!SearchInit, ReadInv, Search!Computing, Search!NoRequest, CacheKeys
<1>2. SearchInv /\ StoreInv /\ ReadInv /\ [Next]_vars => ReadInv'
  BY ReadInvStep
<1> QED BY <1>1, <1>2, CacheInvariance, StoreRefinement, Invariance, PTL DEF Spec

\* The three counts of a facets answer agree unless module 4 committed between
\* two of their statements, for any papers and users (get_facet_counts).
THEOREM FacetSoundness == Spec => []FacetsAgree
<1>1. SearchInv /\ ReadInv => FacetsAgree
  <2> SUFFICES ASSUME SearchInv, ReadInv, NEW r \in Readers, req[r].stage = "answered",
                      Search!Cardinality(req[r].answer.snaps) = 1,
                      NEW i \in DOMAIN req[r].answer.counts,
                      NEW j \in DOMAIN req[r].answer.counts
               PROVE  req[r].answer.counts[i] = req[r].answer.counts[j]
    BY DEF FacetsAgree, Search!FacetsAgree
  <2> DEFINE snaps == req[r].answer.snaps
  <2>1. req[r] \in AnsweredRequests /\ commits \in Nat
    BY StageType DEF SearchInv, SearchTypes
  <2>2. snaps \in SUBSET Nat
    BY <2>1 DEF AnsweredRequests, Search!Answers
  <2>3. \A c \in snaps : c <= commits
    BY DEF ReadInv, OneSnapAgrees
  <2>4. IsFiniteSet(snaps)
    BY <2>1, <2>2, <2>3, FS_BoundedSetOfNaturals
  <2>5. Search!Cardinality(snaps) = Cardinality(snaps)
    BY Zenon DEF Search!Cardinality, Cardinality
  <2>6. Cardinality(snaps) = 1
    BY <2>5
  <2>7. PICK c : snaps = {c}
    BY <2>4, <2>6, FS_Singleton
  <2> QED BY <2>7 DEF ReadInv, OneSnapAgrees
<1> QED BY <1>1, CacheInvariance, ReadInvariance, PTL

-----------------------------------------------------------------------------
(***************************************************************************)
(* Reciprocal rank fusion.                                                 *)
(***************************************************************************)

\* An order of a set of papers is a permutation of it.
LEMMA OrderOnto ==
    ASSUME NEW S \in SUBSET Papers, NEW s \in Search!Orders(S)
    PROVE  /\ s \in Seq(S) /\ Len(s) = Cardinality(S)
           /\ Search!RangeOf(s) = S
           /\ Distinct(s)
<1>1. IsFiniteSet(Papers)
  BY IdentityAssumption, FS_Interval DEF Papers
<1>2. IsFiniteSet(S) /\ Cardinality(S) \in Nat
  BY <1>1, FS_Subset, FS_CardinalityType
<1> DEFINE n == Cardinality(S)
<1>3. Search!Cardinality(S) = n
  BY Zenon DEF Search!Cardinality, Cardinality
<1>4. s \in [1 .. n -> S] /\ \A i, j \in 1 .. n : s[i] = s[j] => i = j
  BY <1>3 DEF Search!Orders
<1>5. Cardinality(1 .. n) = n
  BY <1>2, FS_Interval
<1> HIDE DEF n
<1>6. s \in Injection(1 .. n, S)
  BY <1>4 DEF Injection, IsInjective
<1>7. Cardinality(1 .. n) = Cardinality(S)
  BY <1>5 DEF n
<1>8. s \in Surjection(1 .. n, S)
  BY <1>2, <1>6, <1>7, FS_Injection
<1>9. Search!RangeOf(s) = S
  BY <1>4, <1>8 DEF Surjection, Search!RangeOf
<1>10. n \in Nat
  BY <1>2 DEF n
<1>11. s \in Seq(S) /\ Len(s) = n
  BY <1>4, <1>10
<1>12. Distinct(s)
  BY <1>4 DEF Distinct
<1> QED BY <1>9, <1>11, <1>12 DEF n

\* The rank of a paper is its place.
LEMMA RankIs ==
    ASSUME NEW S, NEW s \in Seq(S), Distinct(s), NEW i \in DOMAIN s
    PROVE  Search!Rank(s, s[i]) = i
<1>1. \A j \in DOMAIN s : s[j] = s[i] <=> j = i
  BY DEF Distinct
<1> QED BY <1>1 DEF Search!Rank

LEMMA RankType ==
    ASSUME NEW S, NEW s \in Seq(S), Distinct(s), NEW p \in Search!RangeOf(s)
    PROVE  Search!Rank(s, p) \in Nat \ {0} /\ s[Search!Rank(s, p)] = p
<1>1. PICK i \in DOMAIN s : s[i] = p
  BY DEF Search!RangeOf
<1>2. Search!Rank(s, p) = i
  BY <1>1, RankIs
<1> QED BY <1>1, <1>2

\* Two smaller denominators make a greater sum.
LEMMA SumGreater ==
    ASSUME NEW a \in Nat \ {0}, NEW a2 \in Nat \ {0}, NEW b \in Nat \ {0},
           NEW b2 \in Nat \ {0}, a < a2, b < b2
    PROVE  (a2 + b2) * (a * b) < (a + b) * (a2 * b2)
<1>1. (a2 * a) * b < (a2 * a) * b2
  OBVIOUS
<1>2. (b2 * b) * a < (b2 * b) * a2
  OBVIOUS
<1>3. (a2 + b2) * (a * b) = (a2 * a) * b + (b2 * b) * a
  OBVIOUS
<1>4. (a + b) * (a2 * b2) = (a2 * a) * b2 + (b2 * b) * a2
  OBVIOUS
<1>5. /\ (a2 * a) * b \in Nat /\ (a2 * a) * b2 \in Nat
      /\ (b2 * b) * a \in Nat /\ (b2 * b) * a2 \in Nat
  OBVIOUS
<1> QED BY <1>1, <1>2, <1>3, <1>4, <1>5

\* One smaller denominator and a further term make a greater sum.
LEMMA TermGreater ==
    ASSUME NEW a \in Nat \ {0}, NEW a2 \in Nat \ {0}, NEW b \in Nat \ {0}, a < a2
    PROVE  a * b < (a + b) * a2
<1>1. (a + b) * a2 = a * a2 + b * a2
  OBVIOUS
<1>2. b * a < b * a2 /\ b * a = a * b
  OBVIOUS
<1>3. a * a2 \in Nat /\ b * a2 \in Nat /\ a * b \in Nat
  OBVIOUS
<1> QED BY <1>1, <1>2, <1>3

\* A paper that both lists rank before another one has the greater score.
LEMMA DominantScore ==
    ASSUME NEW kw \in Seq(Papers), NEW sem \in Seq(Papers), Distinct(kw), Distinct(sem),
           NEW p, NEW p2 \in Search!RangeOf(kw) \cup Search!RangeOf(sem),
           Search!Dominates(kw, sem, p, p2)
    PROVE  ~ Search!AtLeast(Search!Score(kw, sem, p2), Search!Score(kw, sem, p))
<1> DEFINE a == RrfK + Search!Rank(kw, p)
           a2 == RrfK + Search!Rank(kw, p2)
           b == RrfK + Search!Rank(sem, p)
           b2 == RrfK + Search!Rank(sem, p2)
           inKw(x) == x \in Search!RangeOf(kw)
           inSem(x) == x \in Search!RangeOf(sem)
<1>1. /\ inKw(p2) => inKw(p) /\ a \in Nat \ {0} /\ a2 \in Nat \ {0} /\ a < a2
      /\ inSem(p2) => inSem(p) /\ b \in Nat \ {0} /\ b2 \in Nat \ {0} /\ b < b2
      /\ inKw(p) => a \in Nat \ {0}
      /\ inSem(p) => b \in Nat \ {0}
  <2>1. ASSUME NEW s \in {kw, sem}
        PROVE  /\ p2 \in Search!RangeOf(s) =>
                     /\ p \in Search!RangeOf(s)
                     /\ Search!Rank(s, p) \in Nat \ {0} /\ Search!Rank(s, p2) \in Nat \ {0}
                     /\ Search!Rank(s, p) < Search!Rank(s, p2)
               /\ p \in Search!RangeOf(s) => Search!Rank(s, p) \in Nat \ {0}
    <3>1. s \in Seq(Papers) /\ Distinct(s)
      OBVIOUS
    <3>2. p # p2 /\ Search!NoWorse(s, p, p2)
      BY DEF Search!Dominates
    <3>3. p \in Search!RangeOf(s) =>
             Search!Rank(s, p) \in Nat \ {0} /\ s[Search!Rank(s, p)] = p
      BY <3>1, RankType
    <3>4. p2 \in Search!RangeOf(s) =>
             Search!Rank(s, p2) \in Nat \ {0} /\ s[Search!Rank(s, p2)] = p2
      BY <3>1, RankType
    <3> QED BY <3>2, <3>3, <3>4 DEF Search!NoWorse
  <2> QED BY <2>1, SearchAssumption
<1>2. Search!Score(kw, sem, p) =
         IF ~ inSem(p) THEN [num |-> 1, den |-> a]
         ELSE IF ~ inKw(p) THEN [num |-> 1, den |-> b]
         ELSE [num |-> a + b, den |-> a * b]
  BY DEF Search!Score
<1>3. Search!Score(kw, sem, p2) =
         IF ~ inSem(p2) THEN [num |-> 1, den |-> a2]
         ELSE IF ~ inKw(p2) THEN [num |-> 1, den |-> b2]
         ELSE [num |-> a2 + b2, den |-> a2 * b2]
  BY DEF Search!Score
<1>4. inKw(p2) \/ inSem(p2)
  OBVIOUS
<1> DEFINE x == Search!Score(kw, sem, p)
           y == Search!Score(kw, sem, p2)
<1> SUFFICES y.num * x.den < x.num * y.den /\ y.num * x.den \in Nat /\ x.num * y.den \in Nat
  BY DEF Search!AtLeast
<1> HIDE DEF a, a2, b, b2, inKw, inSem, x, y
<1>5. CASE inKw(p2) /\ inSem(p2)
  <2>1. (a2 + b2) * (a * b) < (a + b) * (a2 * b2)
    BY <1>1, <1>5, SumGreater
  <2>2. x.num = a + b /\ x.den = a * b /\ y.num = a2 + b2 /\ y.den = a2 * b2
    BY <1>1, <1>2, <1>3, <1>5 DEF x, y
  <2>3. (a2 + b2) * (a * b) \in Nat /\ (a + b) * (a2 * b2) \in Nat
    BY <1>1, <1>5
  <2> QED BY <2>1, <2>2, <2>3
<1>6. CASE inKw(p2) /\ ~ inSem(p2)
  <2>1. y.num = 1 /\ y.den = a2
    BY <1>3, <1>6 DEF y
  <2>2. CASE inSem(p)
    <3>1. a * b < (a + b) * a2
      BY <1>1, <1>6, <2>2, TermGreater
    <3>2. x.num = a + b /\ x.den = a * b
      BY <1>1, <1>2, <1>6, <2>2 DEF x
    <3>3. 1 * (a * b) = a * b /\ a * b \in Nat /\ (a + b) * a2 \in Nat
      BY <1>1, <1>6, <2>2
    <3> QED BY <2>1, <3>1, <3>2, <3>3
  <2>3. CASE ~ inSem(p)
    <3>1. x.num = 1 /\ x.den = a
      BY <1>2, <2>3 DEF x
    <3> QED BY <1>1, <1>6, <2>1, <3>1
  <2> QED BY <2>2, <2>3
<1>7. CASE ~ inKw(p2) /\ inSem(p2)
  <2>1. y.num = 1 /\ y.den = b2
    BY <1>3, <1>7 DEF y
  <2>2. CASE inKw(p)
    <3>1. b * a < (b + a) * b2
      BY <1>1, <1>7, <2>2, TermGreater
    <3>2. x.num = a + b /\ x.den = a * b
      BY <1>1, <1>2, <1>7, <2>2 DEF x
    <3>3. /\ 1 * (a * b) = b * a /\ b * a \in Nat
          /\ (a + b) * b2 = (b + a) * b2 /\ (b + a) * b2 \in Nat
      BY <1>1, <1>7, <2>2
    <3> QED BY <2>1, <3>1, <3>2, <3>3
  <2>3. CASE ~ inKw(p)
    <3>1. x.num = 1 /\ x.den = b
      BY <1>1, <1>2, <1>7, <2>3 DEF x
    <3> QED BY <1>1, <1>7, <2>1, <3>1
  <2> QED BY <2>2, <2>3
<1> QED BY <1>4, <1>5, <1>6, <1>7

\* What a page cut from an order holds, and where.
LEMMA CutRank ==
    ASSUME NEW S, NEW s \in Seq(S), Distinct(s), NEW n \in Nat
    PROVE  /\ Len(Search!FirstOf(n, s)) = Search!Least(n, Len(s))
           /\ \A i \in DOMAIN s : i <= n =>
                 /\ s[i] \in Search!RangeOf(Search!FirstOf(n, s))
                 /\ Search!Rank(Search!FirstOf(n, s), s[i]) = i
           /\ \A p \in Search!RangeOf(Search!FirstOf(n, s)) :
                 \E i \in DOMAIN s : i <= n /\ s[i] = p
<1> DEFINE m == Search!Least(n, Len(s))
           t == Search!FirstOf(n, s)
<1>1. /\ m \in Nat /\ m <= Len(s) /\ m <= n
      /\ \A i \in DOMAIN s : i <= n <=> i \in 1 .. m
  BY DEF Search!Least
<1>2. t = SubSeq(s, 1, m)
  BY DEF Search!FirstOf
<1> HIDE DEF m
<1>3. t \in Seq(S) /\ Len(t) = m /\ \A i \in 1 .. m : t[i] = s[i]
  BY <1>1, <1>2, SubSeqProperties
<1>4. Distinct(t)
  BY CutDistinct
<1> HIDE DEF t
<1>5. DOMAIN t = 1 .. m
  BY <1>1, <1>3
<1>6. ASSUME NEW i \in DOMAIN s, i <= n
      PROVE  s[i] \in Search!RangeOf(t) /\ Search!Rank(t, s[i]) = i
  <2>1. i \in DOMAIN t /\ t[i] = s[i]
    BY <1>1, <1>3, <1>5, <1>6
  <2> QED BY <1>3, <1>4, <2>1, RankIs DEF Search!RangeOf
<1>7. ASSUME NEW p \in Search!RangeOf(t)
      PROVE  \E i \in DOMAIN s : i <= n /\ s[i] = p
  <2>1. PICK i \in DOMAIN t : t[i] = p
    BY DEF Search!RangeOf
  <2>2. i \in DOMAIN s /\ i <= n /\ s[i] = p
    BY <1>1, <1>3, <1>5, <2>1
  <2> QED BY <2>2
<1> QED BY <1>3, <1>6, <1>7 DEF m, t

\* A hybrid page is as long as it can be, and ranks no paper behind one that
\* both lists rank behind it, for any k, limit and pool (RRFScorer).
THEOREM FusionSoundness == Spec => []FusionKeepsOrder
<1>1. SearchInv /\ ReadInv => FusionKeepsOrder
  <2> SUFFICES ASSUME SearchInv, ReadInv, NEW r \in Readers, req[r].stage = "store",
                      req[r].q.mode = "hybrid", NEW page \in Search!Pages(r)
               PROVE  LET kw  == req[r].kw
                          sem == req[r].sem
                          all == Search!RangeOf(kw) \cup Search!RangeOf(sem)
                      IN  /\ Len(page) = Search!Least(Limit, Search!Cardinality(all))
                          /\ \A p, p2 \in all :
                                Search!Dominates(kw, sem, p, p2) /\ p2 \in Search!RangeOf(page)
                                => /\ p \in Search!RangeOf(page)
                                   /\ Search!Rank(page, p) < Search!Rank(page, p2)
    BY DEF FusionKeepsOrder, Search!FusionKeepsOrder
  <2> DEFINE kw == req[r].kw
             sem == req[r].sem
             all == Search!RangeOf(kw) \cup Search!RangeOf(sem)
  <2>1. Search!Computing(r)
    BY DEF Search!Computing
  <2>2. kw \in Seq(Papers) /\ sem \in Seq(Papers)
    BY <2>1, StageType DEF SearchInv, ComputingRequests
  <2>3. Distinct(kw) /\ Distinct(sem)
    BY <2>1 DEF ReadInv, ReadsOK
  <2>4. PICK s \in Search!Fused(kw, sem) : page = Search!FirstOf(Limit, s)
    BY DEF Search!Pages
  <2>5. all \in SUBSET Papers
    BY <2>2 DEF Search!RangeOf
  <2>6. /\ s \in Search!Orders(all)
        /\ \A i, j \in DOMAIN s : i < j =>
              Search!AtLeast(Search!Score(kw, sem, s[i]), Search!Score(kw, sem, s[j]))
    BY <2>4 DEF Search!Fused
  <2> HIDE DEF kw, sem
  <2>7. s \in Seq(all) /\ Len(s) = Cardinality(all) /\ Search!RangeOf(s) = all /\ Distinct(s)
    BY <2>5, <2>6, OrderOnto
  <2>8. Search!Cardinality(all) = Cardinality(all)
    BY Zenon DEF Search!Cardinality, Cardinality
  <2>9. ASSUME NEW p \in all, NEW p2 \in all, Search!Dominates(kw, sem, p, p2),
               p2 \in Search!RangeOf(page)
        PROVE  /\ p \in Search!RangeOf(page)
               /\ Search!Rank(page, p) < Search!Rank(page, p2)
    <3>1. ~ Search!AtLeast(Search!Score(kw, sem, p2), Search!Score(kw, sem, p))
      BY <2>2, <2>3, <2>9, DominantScore
    <3>2. p # p2
      BY <2>9 DEF Search!Dominates
    <3>3. PICK j \in DOMAIN s : j <= Limit /\ s[j] = p2
      BY <2>4, <2>7, <2>9, CutRank, SearchAssumption, SMTT(30)
    <3>4. PICK i \in DOMAIN s : s[i] = p
      BY <2>7 DEF Search!RangeOf
    <3>5. i \in Nat /\ j \in Nat /\ Limit \in Nat
      BY <2>7, SearchAssumption
    <3>6. i < j
      <4>1. ~ (j < i)
        BY <2>6, <3>1, <3>3, <3>4
      <4>2. i # j
        BY <3>2, <3>3, <3>4
      <4> QED BY <3>5, <4>1, <4>2
    <3>7. i <= Limit
      BY <3>3, <3>5, <3>6
    <3>8. /\ s[i] \in Search!RangeOf(page) /\ Search!Rank(page, s[i]) = i
          /\ Search!Rank(page, s[j]) = j
      <4>1. \A k \in DOMAIN s : k <= Limit =>
               s[k] \in Search!RangeOf(page) /\ Search!Rank(page, s[k]) = k
        <5>1. Limit \in Nat
          BY SearchAssumption
        <5> HIDE DEF all
        <5> QED BY <2>4, <2>7, <5>1, CutRank
      <4> QED BY <3>3, <3>7, <4>1
    <3> QED BY <3>3, <3>4, <3>6, <3>8
  <2>10. Len(page) = Search!Least(Limit, Cardinality(all))
    BY <2>4, <2>7, CutRank, SearchAssumption
  <2> QED BY <2>8, <2>9, <2>10 DEF kw, sem
<1> QED BY <1>1, CacheInvariance, ReadInvariance, PTL
=============================================================================
