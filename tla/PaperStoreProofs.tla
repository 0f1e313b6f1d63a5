-------------------------- MODULE PaperStoreProofs ---------------------------
(***************************************************************************)
(* Theorems about PaperStore, for any papers, keys, users, departments,    *)
(* patches and any finite pool of connections.                             *)
(***************************************************************************)
EXTENDS PaperStore, FiniteSetTheorems, TLAPS

-----------------------------------------------------------------------------
(***************************************************************************)
(* The inductive invariant.                                                *)
(***************************************************************************)

Writing(s) == tx[s].stage = "written"

\* A transaction that has written a paper holds the version that comes next.
VersionNext ==
    \A s \in Sessions : Writing(s) =>
        /\ tx[s].version.number = Len(versions[tx[s].paper]) + 1
        /\ tx[s].version.before = rows[tx[s].paper]

\* What a transaction changes, it may change, and it leaves the key and the
\* department alone.
VersionLawful ==
    \A s \in Sessions :
        Writing(s) /\ tx[s].version.before # Nothing =>
            LET v == tx[s].version IN
            /\ v.before.status = "DRAFT" => v.by \in {v.before.faculty, "system"}
            /\ v.after.key = v.before.key
            /\ v.after.department = v.before.department

\* A paper has one writer at a time.
OneWriter ==
    \A s, s2 \in Sessions :
        Writing(s) /\ Writing(s2) /\ s # s2 => tx[s].paper # tx[s2].paper

StoreInv ==
    /\ StoreTypeOK
    /\ HistoryComplete
    /\ AuditMatches
    /\ DraftsKept
    /\ VersionNext
    /\ VersionLawful
    /\ OneWriter

-----------------------------------------------------------------------------
(***************************************************************************)
(* Facts about the operators.                                              *)
(***************************************************************************)

LEMMA ActorType ==
    ASSUME NEW u \in Users PROVE ActorOf(u) \in Actors
BY DEF ActorOf, Actors

\* A patch turns a row into a row and keeps its key and department.
LEMMA PatchedType ==
    ASSUME NEW row \in Rows, NEW patch \in Patches
    PROVE  /\ Patched(row, patch) \in Rows
           /\ Patched(row, patch).key = row.key
           /\ Patched(row, patch).department = row.department
<1>1. patch \in PaperUpdates
  BY InputsAssumption
<1> QED BY <1>1 DEF Patched, PaperUpdates, Rows

LEMMA RowIsSomething == ASSUME NEW row \in Rows PROVE row # Nothing
BY StoreAssumption

\* A transaction that has written has a user, a paper and a version.
LEMMA WrittenType ==
    ASSUME StoreTypeOK, NEW s \in Sessions, Writing(s)
    PROVE  /\ tx[s].user \in Users
           /\ tx[s].paper \in Papers
           /\ tx[s].version \in Versions
           /\ tx[s].flagged \in BOOLEAN
<1>1. tx[s] \in Transactions
  BY DEF StoreTypeOK
<1>2. tx[s] \in [stage : {"written"}, user : Users, paper : Papers,
                 version : Versions, flagged : BOOLEAN]
  BY <1>1 DEF Transactions, Writing, Idle
<1> QED BY <1>2

LEMMA VersionType ==
    ASSUME NEW v \in Versions
    PROVE  /\ v.number \in Nat \ {0} /\ v.by \in Actors
           /\ v.before \in Rows \cup {Nothing} /\ v.after \in Rows
           /\ Entry(v) \in Entries
<1>1. /\ v.number \in Nat \ {0} /\ v.by \in Actors
      /\ v.before \in Rows \cup {Nothing} /\ v.after \in Rows
  BY DEF Versions
<1>2. v.after.status \in Statuses
  BY <1>1 DEF Rows
<1> QED BY <1>1, <1>2 DEF Entry, Entries

\* The number create_paper_version computes is the next one.
LEMMA NextNumberIsNext ==
    ASSUME StoreTypeOK, HistoryComplete, NEW p \in Papers, rows[p] # Nothing
    PROVE  NextNumber(p) = Len(versions[p]) + 1
<1> DEFINE h == versions[p]
           numbers == {h[i].number : i \in DOMAIN h}
<1>1. h \in Seq(Versions) /\ h # <<>>
  BY DEF StoreTypeOK, HistoryComplete
<1>2. Len(h) \in Nat \ {0} /\ DOMAIN h = 1 .. Len(h)
  BY <1>1
<1>3. \A i \in DOMAIN h : h[i].number = i
  BY DEF HistoryComplete
<1>4. numbers = 1 .. Len(h) /\ numbers \cup {1} = 1 .. Len(h)
  BY <1>2, <1>3
<1>5. NextNumber(p) = 1 + (CHOOSE n \in numbers \cup {1} : \A m \in numbers : m <= n)
  BY DEF NextNumber
<1> HIDE DEF numbers, h
<1>6. PICK n : n = CHOOSE k \in 1 .. Len(h) : \A m \in 1 .. Len(h) : m <= k
  OBVIOUS
<1>7. Len(h) \in 1 .. Len(h) /\ \A m \in 1 .. Len(h) : m <= Len(h)
  BY <1>2
<1>8. n \in 1 .. Len(h) /\ \A m \in 1 .. Len(h) : m <= n
  BY <1>6, <1>7
<1>9. n = Len(h)
  <2>1. n \in Int /\ n <= Len(h)
    BY <1>2, <1>8
  <2>2. Len(h) <= n
    BY <1>7, <1>8
  <2>3. Len(h) \in Int
    BY <1>2
  <2> DEFINE k == Len(h)
  <2> HIDE DEF k
  <2>4. n \in Int /\ k \in Int /\ n <= k /\ k <= n
    BY <2>1, <2>2, <2>3 DEF k
  <2>5. n = k
    BY <2>4
  <2> QED BY <2>5 DEF k
<1>10. NextNumber(p) = 1 + n
  BY <1>4, <1>5, <1>6
<1> QED BY <1>2, <1>9, <1>10 DEF h

-----------------------------------------------------------------------------
(***************************************************************************)
(* Type correctness.                                                       *)
(***************************************************************************)

\* What the tables are is unchanged when only a transaction moves.
LEMMA MoveTypeOK ==
    ASSUME StoreTypeOK, NEW s \in Sessions, NEW t \in Transactions,
           tx' = [tx EXCEPT ![s] = t],
           UNCHANGED <<rows, versions, audit, issue, commits>>, writesLeft' \in Nat
    PROVE  StoreTypeOK'
BY DEF StoreTypeOK

LEMMA BeginTypeOK ==
    ASSUME StoreTypeOK, NEW s \in Sessions, Ready(s), NEW t \in Transactions, Begin(s, t)
    PROVE  StoreTypeOK'
<1>1. writesLeft' \in Nat
  BY DEF StoreTypeOK, Ready, Begin
<1> QED BY <1>1, MoveTypeOK DEF Begin

LEMMA GotoTypeOK ==
    ASSUME StoreTypeOK, NEW s \in Sessions, NEW t \in Transactions, Goto(s, t)
    PROVE  StoreTypeOK'
<1>1. writesLeft' \in Nat
  BY DEF StoreTypeOK, Goto
<1> QED BY <1>1, MoveTypeOK DEF Goto

\* The transaction Create, Update and LockRow leave behind.
LEMMA CreateMove ==
    ASSUME StoreTypeOK, NEW s \in Sessions, NEW u \in Users, NEW p \in Papers,
           NEW row \in NewRows, NEW flagged \in BOOLEAN, Create(s, u, p, row, flagged)
    PROVE  \E t \in Transactions :
              /\ Begin(s, t)
              /\ t = [stage |-> "written", user |-> u, paper |-> p,
                      version |-> FirstVersion(u, row), flagged |-> flagged]
<1>1. FirstVersion(u, row) \in Versions
  BY ActorType, InputsAssumption DEF FirstVersion, Versions
<1> QED BY <1>1 DEF Create, Transactions

LEMMA LockRowMove ==
    ASSUME StoreTypeOK, HistoryComplete, NEW s \in Sessions, LockRow(s)
    PROVE  \E t \in Transactions :
              /\ Goto(s, t)
              /\ t.stage = "written"
              /\ t.paper = tx[s].paper
              /\ t.user = tx[s].user
              /\ t.paper \in Papers
              /\ rows[t.paper] \in Rows
              /\ t.version.number = Len(versions[t.paper]) + 1
              /\ t.version.by = ActorOf(t.user)
              /\ t.version.before = rows[t.paper]
              /\ t.version.after.key = rows[t.paper].key
              /\ t.version.after.department = rows[t.paper].department
<1> DEFINE p == tx[s].paper
           u == tx[s].user
           old == rows[p]
           new == Patched(old, tx[s].patch)
           v == [number |-> NextNumber(p), by |-> ActorOf(u), before |-> old,
                 after |-> new]
           t == [stage |-> "written", user |-> u, paper |-> p, version |-> v,
                 flagged |-> FALSE]
<1>1. tx[s] \in Transactions /\ tx[s].stage = "update"
  BY DEF StoreTypeOK, LockRow
<1>2. u \in Users /\ p \in Papers /\ tx[s].patch \in Patches
  BY <1>1 DEF Transactions, Idle
<1>3. rows[p] # Nothing
  BY DEF LockRow, StillSees, Sees
<1>4. old \in Rows
  BY <1>2, <1>3 DEF StoreTypeOK
<1>5. new \in Rows /\ new.key = old.key /\ new.department = old.department
  BY <1>2, <1>4, PatchedType
<1>6. NextNumber(p) = Len(versions[p]) + 1
  BY <1>2, <1>3, NextNumberIsNext
<1>7. Len(versions[p]) \in Nat
  BY <1>2 DEF StoreTypeOK
<1>8. v \in Versions
  BY <1>2, <1>4, <1>5, <1>6, <1>7, ActorType DEF Versions
<1>9. t \in Transactions
  BY <1>2, <1>8 DEF Transactions
<1>10. Goto(s, t)
  BY DEF LockRow
<1> HIDE DEF new, old
<1> QED BY <1>2, <1>4, <1>5, <1>6, <1>9, <1>10 DEF old

LEMMA StoreInitInv ==
    ASSUME NEW writes \in Nat, StoreInit(writes) PROVE StoreInv
<1>1. StoreTypeOK
  BY DEF StoreInit, StoreTypeOK, Transactions
<1>2. HistoryComplete /\ AuditMatches /\ DraftsKept
  BY DEF StoreInit, HistoryComplete, AuditMatches, DraftsKept
<1>3. \A s \in Sessions : ~ Writing(s)
  BY DEF StoreInit, Writing, Idle
<1> QED BY <1>1, <1>2, <1>3 DEF StoreInv, VersionNext, VersionLawful, OneWriter

\* What CommitPaper adds.
LEMMA CommitPaperEffect ==
    ASSUME StoreTypeOK, NEW s \in Sessions, CommitPaper(s)
    PROVE  /\ Writing(s)
           /\ tx[s].paper \in Papers /\ tx[s].version \in Versions
           /\ rows' = [rows EXCEPT ![tx[s].paper] = tx[s].version.after]
           /\ versions' = [versions EXCEPT ![tx[s].paper] = Append(@, tx[s].version)]
           /\ audit' = [audit EXCEPT ![tx[s].paper] = Append(@, Entry(tx[s].version))]
           /\ tx' = [tx EXCEPT ![s] = Idle]
           /\ commits' = commits + 1 /\ writesLeft' = writesLeft
           /\ issue' \in {issue, [issue EXCEPT ![tx[s].paper] = "open"]}
BY WrittenType DEF CommitPaper, Writing

LEMMA StoreNextTypeOK ==
    StoreTypeOK /\ HistoryComplete /\ [StoreNext]_storeVars => StoreTypeOK'
<1> SUFFICES ASSUME StoreTypeOK, HistoryComplete, [StoreNext]_storeVars
             PROVE  StoreTypeOK'
  OBVIOUS
<1>1. ASSUME NEW s \in Sessions, Ready(s), NEW u \in Users, NEW p \in Papers,
             NEW row \in NewRows, NEW flagged \in BOOLEAN, Create(s, u, p, row, flagged)
      PROVE  StoreTypeOK'
  BY <1>1, CreateMove, BeginTypeOK
<1>2. ASSUME NEW s \in Sessions, Ready(s), NEW u \in Users, NEW p \in Papers,
             NEW patch \in Patches, Update(s, u, p, patch)
      PROVE  StoreTypeOK'
  <2>1. [stage |-> "update", user |-> u, paper |-> p, patch |-> patch] \in Transactions
    BY DEF Transactions
  <2> QED BY <1>2, <2>1, BeginTypeOK DEF Update
<1>3. ASSUME NEW s \in Sessions, Ready(s), NEW u \in Users, NEW p \in Papers,
             Resolve(s, u, p)
      PROVE  StoreTypeOK'
  <2>1. [stage |-> "resolved", user |-> u, paper |-> p] \in Transactions
    BY DEF Transactions
  <2> QED BY <1>3, <2>1, BeginTypeOK DEF Resolve
<1>4. ASSUME NEW s \in Sessions, LockRow(s) PROVE StoreTypeOK'
  BY <1>4, LockRowMove, GotoTypeOK
<1>5. ASSUME NEW s \in Sessions, CommitPaper(s) PROVE StoreTypeOK'
  <2> DEFINE p == tx[s].paper
             v == tx[s].version
  <2>1. p \in Papers /\ v \in Versions
    BY <1>5, CommitPaperEffect
  <2>2. v.after \in Rows /\ Entry(v) \in Entries
    BY <2>1, VersionType
  <2>3. rows' \in [Papers -> Rows \cup {Nothing}]
    <3>1. rows' = [rows EXCEPT ![p] = v.after]
      BY <1>5, CommitPaperEffect
    <3> HIDE DEF p, v
    <3> QED BY <2>2, <3>1 DEF StoreTypeOK
  <2>4. versions' \in [Papers -> Seq(Versions)] /\ audit' \in [Papers -> Seq(Entries)]
    <3>1. versions[p] \in Seq(Versions) /\ audit[p] \in Seq(Entries)
      BY <2>1 DEF StoreTypeOK
    <3>2. /\ Append(versions[p], v) \in Seq(Versions)
          /\ Append(audit[p], Entry(v)) \in Seq(Entries)
      BY <2>1, <2>2, <3>1
    <3>3. /\ versions' = [versions EXCEPT ![p] = Append(versions[p], v)]
          /\ audit' = [audit EXCEPT ![p] = Append(audit[p], Entry(v))]
      BY <1>5, CommitPaperEffect
    <3> HIDE DEF p, v
    <3> QED BY <3>2, <3>3 DEF StoreTypeOK
  <2>5. issue' \in [Papers -> {"open", "resolved", Nothing}]
    BY <1>5, CommitPaperEffect DEF StoreTypeOK
  <2>6. tx' \in [Sessions -> Transactions]
    BY <1>5, CommitPaperEffect DEF StoreTypeOK, Transactions
  <2>7. commits' \in Nat /\ writesLeft' \in Nat
    BY <1>5, CommitPaperEffect DEF StoreTypeOK
  <2> QED BY <2>3, <2>4, <2>5, <2>6, <2>7 DEF StoreTypeOK
<1>6. ASSUME NEW s \in Sessions, CommitIssue(s) PROVE StoreTypeOK'
  <2>1. tx[s] \in Transactions /\ tx[s].stage = "resolved"
    BY <1>6 DEF StoreTypeOK, CommitIssue
  <2>2. tx[s].paper \in Papers
    BY <2>1 DEF Transactions, Idle
  <2> QED BY <1>6, <2>2 DEF CommitIssue, StoreTypeOK, Transactions
<1>7. ASSUME NEW s \in Sessions, Rollback(s) PROVE StoreTypeOK'
  BY <1>7, GotoTypeOK DEF Rollback, Transactions
<1>8. CASE UNCHANGED storeVars
  BY <1>8 DEF StoreTypeOK, storeVars
<1> QED BY <1>1, <1>2, <1>3, <1>4, <1>5, <1>6, <1>7, <1>8 DEF StoreNext

-----------------------------------------------------------------------------
(***************************************************************************)
(* The history.                                                            *)
(***************************************************************************)

\* One step seen by the history: nothing committed and at most one transaction
\* moved (to t), a version committed, or an issue.
Quiet(s, t) ==
    /\ UNCHANGED <<rows, versions, audit>>
    /\ tx' = [tx EXCEPT ![s] = t]

LEMMA QuietKeeps ==
    ASSUME StoreInv, NEW s \in Sessions, NEW t \in Transactions, Quiet(s, t),
           t.stage = "written" =>
               /\ t.version.number = Len(versions[t.paper]) + 1
               /\ t.version.before = rows[t.paper]
               /\ t.version.before # Nothing =>
                     /\ t.version.before.status = "DRAFT" =>
                           t.version.by \in {t.version.before.faculty, "system"}
                     /\ t.version.after.key = t.version.before.key
                     /\ t.version.after.department = t.version.before.department
               /\ ~ Locked(t.paper)
    PROVE  /\ HistoryComplete' /\ AuditMatches' /\ DraftsKept'
           /\ VersionNext' /\ VersionLawful' /\ OneWriter'
<1>1. tx \in [Sessions -> Transactions]
  BY DEF StoreInv, StoreTypeOK
<1>2. \A s2 \in Sessions : tx'[s2] = IF s2 = s THEN t ELSE tx[s2]
  BY <1>1 DEF Quiet
<1>3. HistoryComplete' /\ AuditMatches' /\ DraftsKept'
  BY DEF StoreInv, Quiet, HistoryComplete, AuditMatches, DraftsKept
<1>4. VersionNext'
  BY <1>2 DEF StoreInv, Quiet, VersionNext, Writing
<1>5. VersionLawful'
  BY <1>2 DEF StoreInv, VersionLawful, Writing
<1>6. OneWriter'
  BY <1>2 DEF StoreInv, OneWriter, Writing, Locked
<1> QED BY <1>3, <1>4, <1>5, <1>6

LEMMA CommitKeeps ==
    ASSUME StoreInv, NEW s \in Sessions, CommitPaper(s)
    PROVE  /\ HistoryComplete' /\ AuditMatches' /\ DraftsKept'
           /\ VersionNext' /\ VersionLawful' /\ OneWriter'
<1> DEFINE p == tx[s].paper
           v == tx[s].version
           h == versions[p]
<1>1. /\ Writing(s) /\ p \in Papers /\ v \in Versions
      /\ rows' = [rows EXCEPT ![p] = v.after]
      /\ versions' = [versions EXCEPT ![p] = Append(h, v)]
      /\ audit' = [audit EXCEPT ![p] = Append(audit[p], Entry(v))]
      /\ tx' = [tx EXCEPT ![s] = Idle]
  BY CommitPaperEffect DEF StoreInv
<1>2. /\ rows \in [Papers -> Rows \cup {Nothing}]
      /\ versions \in [Papers -> Seq(Versions)]
      /\ audit \in [Papers -> Seq(Entries)]
      /\ tx \in [Sessions -> Transactions]
  BY DEF StoreInv, StoreTypeOK
<1>3. v.number = Len(h) + 1 /\ v.before = rows[p]
  BY <1>1 DEF StoreInv, VersionNext
<1>4. v.after \in Rows /\ v.after # Nothing
  BY <1>1, VersionType, RowIsSomething
<1>5. \A s2 \in Sessions : tx'[s2] = IF s2 = s THEN Idle ELSE tx[s2]
  BY <1>1, <1>2
<1>6. \A s2 \in Sessions : Writing(s2)' => s2 # s /\ Writing(s2) /\ tx'[s2] = tx[s2]
                                          /\ tx[s2].paper # p
  BY <1>1, <1>5 DEF StoreInv, OneWriter, Writing, Idle
<1>7. h \in Seq(Versions) /\ audit[p] \in Seq(Entries) /\ Len(h) \in Nat
      /\ Len(audit[p]) \in Nat
  BY <1>1, <1>2
<1>8. \A p2 \in Papers \ {p} :
         rows'[p2] = rows[p2] /\ versions'[p2] = versions[p2] /\ audit'[p2] = audit[p2]
  BY <1>1, <1>2
<1>9. /\ rows'[p] = v.after /\ versions'[p] = Append(h, v)
      /\ audit'[p] = Append(audit[p], Entry(v))
  BY <1>1, <1>2
<1>10. /\ (rows[p] = Nothing) <=> (h = <<>>)
       /\ \A i \in DOMAIN h :
             h[i].number = i /\ h[i].before = IF i = 1 THEN Nothing ELSE h[i - 1].after
       /\ h # <<>> => rows[p] = h[Len(h)].after
  BY <1>1 DEF StoreInv, HistoryComplete
<1>11. Len(audit[p]) = Len(h) /\ \A i \in DOMAIN audit[p] : audit[p][i] = Entry(h[i])
  BY <1>1 DEF StoreInv, AuditMatches
<1>12. v.before # Nothing /\ v.before.status = "DRAFT" => v.by \in {v.before.faculty, "system"}
  BY <1>1 DEF StoreInv, VersionLawful
<1> HIDE DEF v, p, h
<1>13. /\ Len(Append(h, v)) = Len(h) + 1 /\ DOMAIN Append(h, v) = 1 .. (Len(h) + 1)
       /\ DOMAIN h = 1 .. Len(h)
       /\ \A i \in 1 .. Len(h) : Append(h, v)[i] = h[i]
       /\ Append(h, v)[Len(h) + 1] = v
  BY <1>1, <1>7
<1>14. /\ Len(Append(audit[p], Entry(v))) = Len(h) + 1
       /\ DOMAIN Append(audit[p], Entry(v)) = 1 .. (Len(h) + 1)
       /\ DOMAIN audit[p] = 1 .. Len(h)
       /\ \A i \in 1 .. Len(h) : Append(audit[p], Entry(v))[i] = audit[p][i]
       /\ Append(audit[p], Entry(v))[Len(h) + 1] = Entry(v)
  BY <1>1, <1>7, <1>11, VersionType
<1>15. ASSUME NEW i \in 1 .. (Len(h) + 1) PROVE i \in 1 .. Len(h) \/ i = Len(h) + 1
  BY <1>7
<1>16. HistoryComplete'
  <2>1. Append(h, v) # <<>>
    BY <1>7, <1>13
  <2>2. ASSUME NEW i \in DOMAIN Append(h, v)
        PROVE  /\ Append(h, v)[i].number = i
               /\ Append(h, v)[i].before =
                     IF i = 1 THEN Nothing ELSE Append(h, v)[i - 1].after
    <3>1. CASE i \in 1 .. Len(h)
      <4>1. i # 1 => i - 1 \in 1 .. Len(h)
        BY <1>7, <3>1
      <4> QED BY <1>10, <1>13, <3>1, <4>1
    <3>2. CASE i = Len(h) + 1
      <4>1. CASE Len(h) = 0
        <5>1. h = <<>>
          BY <1>7, <4>1
        <5> QED BY <1>3, <1>10, <1>13, <3>2, <4>1, <5>1
      <4>2. CASE Len(h) # 0
        <5>1. h # <<>> /\ i # 1 /\ i - 1 = Len(h) /\ Len(h) \in 1 .. Len(h)
          BY <1>7, <3>2, <4>2
        <5> QED BY <1>3, <1>10, <1>13, <3>2, <5>1
      <4> QED BY <4>1, <4>2
    <3> QED BY <1>13, <1>15, <3>1, <3>2
  <2>3. ASSUME NEW p2 \in Papers, p2 # p
        PROVE  /\ (rows'[p2] = Nothing) <=> (versions'[p2] = <<>>)
               /\ \A i \in DOMAIN versions'[p2] :
                     /\ versions'[p2][i].number = i
                     /\ versions'[p2][i].before =
                           IF i = 1 THEN Nothing ELSE versions'[p2][i - 1].after
               /\ versions'[p2] # <<>> => rows'[p2] = versions'[p2][Len(versions'[p2])].after
    BY <1>8, <2>3 DEF StoreInv, HistoryComplete
  <2>4. /\ (rows'[p] = Nothing) <=> (versions'[p] = <<>>)
        /\ \A i \in DOMAIN versions'[p] :
              /\ versions'[p][i].number = i
              /\ versions'[p][i].before =
                    IF i = 1 THEN Nothing ELSE versions'[p][i - 1].after
    BY <1>4, <1>9, <2>1, <2>2
  <2>5. rows'[p] = versions'[p][Len(versions'[p])].after
    BY <1>9, <1>13
  <2>6. ASSUME NEW p2 \in Papers
        PROVE  /\ (rows'[p2] = Nothing) <=> (versions'[p2] = <<>>)
               /\ \A i \in DOMAIN versions'[p2] :
                     /\ versions'[p2][i].number = i
                     /\ versions'[p2][i].before =
                           IF i = 1 THEN Nothing ELSE versions'[p2][i - 1].after
               /\ versions'[p2] # <<>> => rows'[p2] = versions'[p2][Len(versions'[p2])].after
    <3>1. CASE p2 = p
      BY <2>4, <2>5, <3>1
    <3>2. CASE p2 # p
      BY <2>3, <3>2
    <3> QED BY <3>1, <3>2
  <2> QED BY <2>6, Zenon DEF HistoryComplete
<1>17. AuditMatches'
  <2>1. ASSUME NEW i \in DOMAIN Append(audit[p], Entry(v))
        PROVE  Append(audit[p], Entry(v))[i] = Entry(Append(h, v)[i])
    BY <1>11, <1>13, <1>14, <1>15
  <2> QED BY SMTT(30), <1>8, <1>9, <1>13, <1>14, <2>1 DEF StoreInv, AuditMatches
<1>18. DraftsKept'
  <2>1. ASSUME NEW i \in DOMAIN Append(h, v), Append(h, v)[i].before # Nothing,
               Append(h, v)[i].before.status = "DRAFT"
        PROVE  Append(h, v)[i].by \in {Append(h, v)[i].before.faculty, "system"}
    <3>1. CASE i \in 1 .. Len(h)
      <4>1. \A j \in DOMAIN h :
               h[j].before # Nothing /\ h[j].before.status = "DRAFT" =>
                   h[j].by \in {h[j].before.faculty, "system"}
        BY <1>1 DEF StoreInv, DraftsKept, h
      <4> QED BY <1>13, <2>1, <3>1, <4>1
    <3>2. CASE i = Len(h) + 1
      BY <1>12, <1>13, <2>1, <3>2
    <3> QED BY <1>13, <1>15, <3>1, <3>2
  <2>2. ASSUME NEW p2 \in Papers, p2 # p, NEW i \in DOMAIN versions'[p2],
               versions'[p2][i].before # Nothing,
               versions'[p2][i].before.status = "DRAFT"
        PROVE  versions'[p2][i].by \in {versions'[p2][i].before.faculty, "system"}
    BY <1>8, <2>2 DEF StoreInv, DraftsKept
  <2> QED BY <1>9, <2>1, <2>2 DEF DraftsKept
<1>19. VersionNext'
  <2> SUFFICES ASSUME NEW s2 \in Sessions, Writing(s2)'
               PROVE  /\ tx'[s2].version.number = Len(versions'[tx'[s2].paper]) + 1
                      /\ tx'[s2].version.before = rows'[tx'[s2].paper]
    BY DEF VersionNext
  <2>1. tx[s2].paper \in Papers /\ tx[s2].paper # p
    BY <1>6, WrittenType DEF StoreInv
  <2> QED BY SMTT(30), <1>6, <1>8, <2>1 DEF StoreInv, VersionNext
<1>20. VersionLawful'
  BY <1>6 DEF StoreInv, VersionLawful
<1>21. OneWriter'
  BY <1>6 DEF StoreInv, OneWriter
<1> QED BY <1>16, <1>17, <1>18, <1>19, <1>20, <1>21

\* A step with the facts of the invariant it needs: a transaction moves, a
\* version or an issue is committed, or nothing happens.
LEMMA StepInv ==
    ASSUME StoreInv, [StoreNext]_storeVars PROVE StoreInv'
<1>1. StoreTypeOK'
  BY StoreNextTypeOK DEF StoreInv
<1> DEFINE Kept ==
             /\ HistoryComplete' /\ AuditMatches' /\ DraftsKept'
             /\ VersionNext' /\ VersionLawful' /\ OneWriter'
<1>2. ASSUME NEW s \in Sessions, NEW u \in Users, NEW p \in Papers,
             NEW row \in NewRows, NEW flagged \in BOOLEAN, Create(s, u, p, row, flagged)
      PROVE  Kept
  <2>1. PICK t \in Transactions :
           /\ Begin(s, t)
           /\ t = [stage |-> "written", user |-> u, paper |-> p,
                   version |-> FirstVersion(u, row), flagged |-> flagged]
    BY <1>2, CreateMove DEF StoreInv
  <2>2. ~ Taken(p)
    BY <1>2 DEF Create, Fresh
  <2>3. rows[p] = Nothing /\ ~ Locked(p)
    BY <2>2 DEF Taken, Locked, Idle
  <2>4. Len(versions[p]) = 0
    BY <2>3 DEF StoreInv, HistoryComplete
  <2>5. Quiet(s, t)
    BY <2>1 DEF Begin, Quiet
  <2> QED BY <2>1, <2>3, <2>4, <2>5, QuietKeeps DEF FirstVersion
<1>3. ASSUME NEW s \in Sessions, NEW u \in Users, NEW p \in Papers,
             NEW patch \in Patches, Update(s, u, p, patch)
      PROVE  Kept
  <2>1. [stage |-> "update", user |-> u, paper |-> p, patch |-> patch] \in Transactions
    BY DEF Transactions
  <2> QED BY <1>3, <2>1, QuietKeeps DEF Update, Begin, Quiet
<1>4. ASSUME NEW s \in Sessions, NEW u \in Users, NEW p \in Papers, Resolve(s, u, p)
      PROVE  Kept
  <2>1. [stage |-> "resolved", user |-> u, paper |-> p] \in Transactions
    BY DEF Transactions
  <2> QED BY <1>4, <2>1, QuietKeeps DEF Resolve, Begin, Quiet
<1>5. ASSUME NEW s \in Sessions, LockRow(s) PROVE Kept
  <2>1. PICK t \in Transactions :
              /\ Goto(s, t)
              /\ t.stage = "written"
              /\ t.paper = tx[s].paper
              /\ t.user = tx[s].user
              /\ t.paper \in Papers
              /\ rows[t.paper] \in Rows
              /\ t.version.number = Len(versions[t.paper]) + 1
              /\ t.version.by = ActorOf(t.user)
              /\ t.version.before = rows[t.paper]
              /\ t.version.after.key = rows[t.paper].key
              /\ t.version.after.department = rows[t.paper].department
    BY <1>5, LockRowMove DEF StoreInv
  <2>2. Quiet(s, t)
    BY <2>1 DEF Goto, Quiet
  <2>3. ~ Locked(t.paper) /\ Visible(t.user, rows[t.paper])
    BY <1>5, <2>1 DEF LockRow, StillSees, Sees
  <2>4. rows[t.paper].status = "DRAFT" => ActorOf(t.user) \in {rows[t.paper].faculty, "system"}
    BY <2>3 DEF Visible, ActorOf
  <2> QED BY <2>1, <2>2, <2>3, <2>4, QuietKeeps
<1>6. ASSUME NEW s \in Sessions, CommitPaper(s) PROVE Kept
  BY <1>6, CommitKeeps
<1>7. ASSUME NEW s \in Sessions, CommitIssue(s) \/ Rollback(s) PROVE Kept
  BY <1>7, QuietKeeps DEF CommitIssue, Rollback, Goto, Quiet, Transactions, Idle
<1>8. ASSUME UNCHANGED storeVars PROVE Kept
  <2>1. HistoryComplete'
    BY <1>8, Zenon DEF StoreInv, storeVars, HistoryComplete
  <2>2. AuditMatches' /\ DraftsKept'
    BY <1>8 DEF StoreInv, storeVars, AuditMatches, DraftsKept
  <2>3. VersionNext' /\ VersionLawful' /\ OneWriter'
    BY <1>8 DEF StoreInv, storeVars, VersionNext, VersionLawful, OneWriter, Writing
  <2> QED BY <2>1, <2>2, <2>3
<1> HIDE DEF Kept
<1>9. Kept
  BY <1>2, <1>3, <1>4, <1>5, <1>6, <1>7, <1>8 DEF StoreNext
<1> USE DEF Kept
<1> QED BY <1>1, <1>9 DEF StoreInv

LEMMA Invariance == StoreSpec => []StoreInv
<1>1. (\E writes \in Nat : StoreInit(writes)) => StoreInv
  BY StoreInitInv
<1>2. StoreInv /\ [StoreNext]_storeVars => StoreInv'
  BY StepInv
<1> QED BY <1>1, <1>2, PTL DEF StoreSpec

-----------------------------------------------------------------------------
(***************************************************************************)
(* The rows of a key.                                                      *)
(***************************************************************************)

\* Transactions that will add a row of the key.
Creators(key, d) ==
    {s \in Sessions :
        /\ Writing(s)
        /\ tx[s].version.before = Nothing
        /\ tx[s].version.after.key = key
        /\ tx[s].version.after.department = d}

\* Rows and transactions together are no more than the connections: whoever
\* begins when there is a row finds it.
KeyInv ==
    \A key \in Keys, d \in Departments :
        Cardinality(OpenRows(key, d)) + Cardinality(Creators(key, d))
            <= Cardinality(Sessions)

LEMMA KeySetsFinite ==
    ASSUME NEW key, NEW d
    PROVE  /\ IsFiniteSet(OpenRows(key, d)) /\ Cardinality(OpenRows(key, d)) \in Nat
           /\ IsFiniteSet(Creators(key, d)) /\ Cardinality(Creators(key, d)) \in Nat
           /\ Cardinality(Creators(key, d)) <= Cardinality(Sessions)
           /\ Cardinality(Sessions) \in Nat
<1>1. IsFiniteSet(Papers)
  BY IdentityAssumption, FS_Interval DEF Papers
<1>2. OpenRows(key, d) \in SUBSET Papers /\ Creators(key, d) \in SUBSET Sessions
  BY DEF OpenRows, Stored, Creators
<1> QED BY <1>1, <1>2, StoreAssumption, FS_Subset, FS_CardinalityType

\* Sets that only shrink keep the bound.
LEMMA ShrinkKeeps ==
    ASSUME KeyInv, NEW key \in Keys, NEW d \in Departments,
           NEW R \in SUBSET OpenRows(key, d), NEW C \in SUBSET Creators(key, d)
    PROVE  Cardinality(R) + Cardinality(C) <= Cardinality(Sessions)
<1>1. /\ Cardinality(R) \in Nat /\ Cardinality(C) \in Nat
      /\ Cardinality(R) <= Cardinality(OpenRows(key, d))
      /\ Cardinality(C) <= Cardinality(Creators(key, d))
  BY KeySetsFinite, FS_Subset, FS_CardinalityType
<1>2. Cardinality(OpenRows(key, d)) + Cardinality(Creators(key, d))
         <= Cardinality(Sessions)
  BY DEF KeyInv
<1> QED BY <1>1, <1>2, KeySetsFinite

\* Nobody who may insert a row of the key overlooks an open one.
LEMMA CreateFindsNone ==
    ASSUME StoreInv, NEW s \in Sessions, NEW u \in Users, NEW p \in Papers,
           NEW row \in NewRows, NEW flagged \in BOOLEAN, Create(s, u, p, row, flagged)
    PROVE  OpenRows(row.key, row.department) = {}
<1> SUFFICES ASSUME NEW p2 \in OpenRows(row.key, row.department) PROVE FALSE
  OBVIOUS
<1>1. /\ p2 \in Stored /\ p2 \in Papers /\ rows[p2] # Nothing
      /\ rows[p2].key = row.key /\ rows[p2].department = row.department
      /\ \A i \in DOMAIN versions[p2] : versions[p2][i].after.status # "DRAFT"
  BY DEF OpenRows, Stored
<1>2. versions[p2] \in Seq(Versions) /\ versions[p2] # <<>>
  BY <1>1 DEF StoreInv, StoreTypeOK, HistoryComplete
<1>3. Len(versions[p2]) \in DOMAIN versions[p2]
  BY <1>2
<1>4. rows[p2].status # "DRAFT"
  BY <1>1, <1>2, <1>3 DEF StoreInv, HistoryComplete
<1>5. Visible(u, row)
  BY DEF Create
<1>6. Visible(u, rows[p2])
  BY <1>1, <1>4, <1>5 DEF Visible
<1> QED BY <1>1, <1>6 DEF Create, FoundByKey, Sees

LEMMA KeyInvStep ==
    ASSUME StoreInv, KeyInv, [StoreNext]_storeVars PROVE KeyInv'
<1> SUFFICES ASSUME NEW key \in Keys, NEW d \in Departments
             PROVE  Cardinality(OpenRows(key, d))' + Cardinality(Creators(key, d))'
                        <= Cardinality(Sessions)
  BY DEF KeyInv
<1>1. tx \in [Sessions -> Transactions]
  BY DEF StoreInv, StoreTypeOK
<1>2. ASSUME NEW s \in Sessions, NEW t, tx' = [tx EXCEPT ![s] = t],
             UNCHANGED <<rows, versions>>,
             t.stage = "written" => t.version.before # Nothing
      PROVE  Cardinality(OpenRows(key, d))' + Cardinality(Creators(key, d))'
                 <= Cardinality(Sessions)
  <2>1. OpenRows(key, d)' = OpenRows(key, d)
    BY <1>2 DEF OpenRows, Stored
  <2>2. Creators(key, d)' \in SUBSET Creators(key, d)
    BY <1>1, <1>2 DEF Creators, Writing
  <2> QED BY <2>1, <2>2, ShrinkKeeps
<1>3. ASSUME NEW s \in Sessions, Ready(s), NEW u \in Users, NEW p \in Papers,
             NEW row \in NewRows, NEW flagged \in BOOLEAN, Create(s, u, p, row, flagged)
      PROVE  Cardinality(OpenRows(key, d))' + Cardinality(Creators(key, d))'
                 <= Cardinality(Sessions)
  <2>1. /\ tx' = [tx EXCEPT ![s] = [stage |-> "written", user |-> u, paper |-> p,
                                    version |-> FirstVersion(u, row), flagged |-> flagged]]
        /\ UNCHANGED <<rows, versions>>
    BY <1>3 DEF Create, Begin
  <2>2. OpenRows(key, d)' = OpenRows(key, d)
    BY <2>1 DEF OpenRows, Stored
  <2>3. CASE key = row.key /\ d = row.department
    <3>1. OpenRows(key, d)' = {}
      BY <1>3, <2>2, <2>3, CreateFindsNone
    <3>2. Cardinality(OpenRows(key, d)') = 0
      BY <3>1, FS_EmptySet
    <3>3. Creators(key, d)' \in SUBSET Sessions
      BY DEF Creators
    <3>4. Cardinality(Creators(key, d)') <= Cardinality(Sessions)
          /\ Cardinality(Creators(key, d)') \in Nat
      BY <3>3, StoreAssumption, FS_Subset, FS_CardinalityType
    <3> QED BY <3>2, <3>4, KeySetsFinite
  <2>4. CASE ~ (key = row.key /\ d = row.department)
    <3>1. Creators(key, d)' \in SUBSET Creators(key, d)
      BY <1>1, <2>1, <2>4 DEF Creators, Writing, FirstVersion
    <3> QED BY <2>2, <3>1, ShrinkKeeps
  <2> QED BY <2>3, <2>4
<1>4. ASSUME NEW s \in Sessions, LockRow(s)
      PROVE  Cardinality(OpenRows(key, d))' + Cardinality(Creators(key, d))'
                 <= Cardinality(Sessions)
  <2>1. PICK t \in Transactions :
              /\ Goto(s, t) /\ rows[t.paper] \in Rows
              /\ t.version.before = rows[t.paper]
    BY <1>4, LockRowMove DEF StoreInv
  <2>2. t.version.before # Nothing
    BY <2>1, RowIsSomething
  <2> QED BY <1>2, <2>1, <2>2 DEF Goto
<1>5. ASSUME NEW s \in Sessions, CommitPaper(s)
      PROVE  Cardinality(OpenRows(key, d))' + Cardinality(Creators(key, d))'
                 <= Cardinality(Sessions)
  <2> DEFINE p == tx[s].paper
             v == tx[s].version
  <2>1. /\ Writing(s) /\ p \in Papers /\ v \in Versions
        /\ rows' = [rows EXCEPT ![p] = v.after]
        /\ versions' = [versions EXCEPT ![p] = Append(@, v)]
        /\ tx' = [tx EXCEPT ![s] = Idle]
    BY <1>5, CommitPaperEffect DEF StoreInv
  <2>2. v.before = rows[p]
    BY <2>1 DEF StoreInv, VersionNext
  <2>3. /\ rows \in [Papers -> Rows \cup {Nothing}]
        /\ versions \in [Papers -> Seq(Versions)]
    BY DEF StoreInv, StoreTypeOK
  <2>4. \A p2 \in Papers \ {p} : rows'[p2] = rows[p2] /\ versions'[p2] = versions[p2]
    BY <2>1, <2>3
  <2>5. Creators(key, d)' = Creators(key, d) \ {s}
    BY <1>1, <2>1 DEF Creators, Writing, Idle
  <2>6. OpenRows(key, d)' \subseteq OpenRows(key, d) \cup {p}
    BY <2>4 DEF OpenRows, Stored
  <2>7. CASE s \in Creators(key, d)
    <3>1. /\ Cardinality(Creators(key, d)') = Cardinality(Creators(key, d)) - 1
      BY <2>5, <2>7, KeySetsFinite, FS_RemoveElement
    <3>2. /\ IsFiniteSet(OpenRows(key, d) \cup {p})
          /\ Cardinality(OpenRows(key, d) \cup {p}) <= Cardinality(OpenRows(key, d)) + 1
          /\ Cardinality(OpenRows(key, d) \cup {p}) \in Nat
      <4>1. IsFiniteSet(OpenRows(key, d)) /\ Cardinality(OpenRows(key, d)) \in Nat
        BY KeySetsFinite
      <4>2. IsFiniteSet(OpenRows(key, d) \cup {p})
        BY <4>1, FS_AddElement
      <4>3. \/ Cardinality(OpenRows(key, d) \cup {p}) = Cardinality(OpenRows(key, d)) + 1
            \/ Cardinality(OpenRows(key, d) \cup {p}) = Cardinality(OpenRows(key, d))
        BY SMTT(30), <4>1, FS_AddElement
      <4> HIDE DEF p
      <4> QED BY <4>1, <4>2, <4>3
    <3>3. /\ Cardinality(OpenRows(key, d)') <= Cardinality(OpenRows(key, d) \cup {p})
          /\ Cardinality(OpenRows(key, d)') \in Nat
      BY <2>6, <3>2, FS_Subset, FS_CardinalityType
    <3>4. Cardinality(OpenRows(key, d)) + Cardinality(Creators(key, d))
             <= Cardinality(Sessions)
      BY DEF KeyInv
    <3> QED BY <3>1, <3>2, <3>3, <3>4, KeySetsFinite
  <2>8. CASE s \notin Creators(key, d)
    <3>1. p \in OpenRows(key, d)' => p \in OpenRows(key, d)
      <4> SUFFICES ASSUME p \in OpenRows(key, d)' PROVE p \in OpenRows(key, d)
        OBVIOUS
      <4>1. /\ v.after.key = key /\ v.after.department = d
            /\ \A i \in DOMAIN versions'[p] : versions'[p][i].after.status # "DRAFT"
        BY SMTT(30), <2>1, <2>3 DEF OpenRows
      <4>2. v.before # Nothing
        BY <2>1, <2>8, <4>1 DEF Creators
      <4>3. v.after.key = v.before.key /\ v.after.department = v.before.department
        BY <2>1, <4>2 DEF StoreInv, VersionLawful
      <4>4. versions[p] \in Seq(Versions) /\ versions'[p] = Append(versions[p], v)
        BY <2>1, <2>3
      <4>5. \A i \in DOMAIN versions[p] :
               i \in DOMAIN versions'[p] /\ versions'[p][i] = versions[p][i]
        BY <2>1, <4>4
      <4> QED BY SMTT(30), <2>1, <2>2, <4>1, <4>2, <4>3, <4>5 DEF OpenRows, Stored
    <3>2. OpenRows(key, d)' \in SUBSET OpenRows(key, d)
      BY <2>6, <3>1
    <3>3. Creators(key, d)' \in SUBSET Creators(key, d)
      BY <2>5
    <3> QED BY <3>2, <3>3, ShrinkKeeps
  <2> QED BY <2>7, <2>8
<1>6. ASSUME NEW s \in Sessions, NEW u \in Users, NEW p \in Papers,
             \/ Resolve(s, u, p)
             \/ \E patch \in Patches : Update(s, u, p, patch)
      PROVE  Cardinality(OpenRows(key, d))' + Cardinality(Creators(key, d))'
                 <= Cardinality(Sessions)
  BY <1>2, <1>6 DEF Resolve, Update, Begin
<1>7. ASSUME NEW s \in Sessions, CommitIssue(s) \/ Rollback(s)
      PROVE  Cardinality(OpenRows(key, d))' + Cardinality(Creators(key, d))'
                 <= Cardinality(Sessions)
  BY <1>2, <1>7 DEF CommitIssue, Rollback, Goto, Idle
<1>8. CASE UNCHANGED storeVars
  <2>1. OpenRows(key, d)' = OpenRows(key, d) /\ Creators(key, d)' = Creators(key, d)
    BY <1>8 DEF storeVars, OpenRows, Stored, Creators, Writing
  <2> QED BY <2>1, ShrinkKeeps
<1> QED BY <1>3, <1>4, <1>5, <1>6, <1>7, <1>8, Zenon DEF StoreNext

-----------------------------------------------------------------------------
(***************************************************************************)
(* The theorems.                                                           *)
(***************************************************************************)

\* The tables and the transactions keep their types.
THEOREM StoreTypeCorrectness == StoreSpec => []StoreTypeOK
<1>1. StoreInv => StoreTypeOK
  BY DEF StoreInv
<1> QED BY <1>1, Invariance, PTL

\* No PATCH is lost or goes unrecorded, however many overlap: the versions of a
\* paper are numbered without a gap and each starts where the last one ended.
THEOREM HistorySoundness == StoreSpec => []HistoryComplete
<1>1. StoreInv => HistoryComplete
  BY DEF StoreInv
<1> QED BY <1>1, Invariance, PTL

\* The audit log and the versions tell the same story.
THEOREM AuditSoundness == StoreSpec => []AuditMatches
<1>1. StoreInv => AuditMatches
  BY DEF StoreInv
<1> QED BY <1>1, Invariance, PTL

\* Only its owner or an admin ever changes a draft.
THEOREM DraftSafety == StoreSpec => []DraftsKept
<1>1. StoreInv => DraftsKept
  BY DEF StoreInv
<1> QED BY <1>1, Invariance, PTL

\* A key has no more rows that everyone can see than there are connections.
THEOREM KeyBound == StoreSpec => []RowsPerKeyBounded
<1>1. ASSUME NEW writes \in Nat, StoreInit(writes) PROVE KeyInv
  <2> SUFFICES ASSUME NEW key \in Keys, NEW d \in Departments
               PROVE  Cardinality(OpenRows(key, d)) + Cardinality(Creators(key, d))
                          <= Cardinality(Sessions)
    BY DEF KeyInv
  <2>1. OpenRows(key, d) = {} /\ Creators(key, d) = {}
    BY <1>1 DEF StoreInit, OpenRows, Stored, Creators, Writing, Idle
  <2> QED BY <2>1, FS_EmptySet, KeySetsFinite
<1>2. StoreInv /\ KeyInv /\ [StoreNext]_storeVars => KeyInv'
  BY KeyInvStep
<1>3. KeyInv => RowsPerKeyBounded
  BY KeySetsFinite DEF KeyInv, RowsPerKeyBounded
<1>4. (\E writes \in Nat : StoreInit(writes)) => KeyInv
  BY <1>1
<1> QED BY <1>2, <1>3, <1>4, Invariance, PTL DEF StoreSpec
=============================================================================
