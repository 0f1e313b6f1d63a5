----------------------- MODULE ReportGenerationProofs ------------------------
(***************************************************************************)
(* Theorems about ReportGeneration, for any reports, papers and requests,  *)
(* whichever of the two orders of commit and task holds.                   *)
(***************************************************************************)
EXTENDS ReportGeneration, TLAPS

-----------------------------------------------------------------------------
(***************************************************************************)
(* The inductive invariant.                                                *)
(***************************************************************************)

\* Where a task can be for its row, and where it has a context.
ProgressInv ==
    \A r \in Reports :
        /\ pc[r] = "none" => row[r] = "none"
        /\ row[r] = "COMPLETED" => pc[r] \in {"fail", "done"}
        /\ pc[r] \in {"errors", "pending", "fetch"} => rls[r]

\* The task uploads nothing any more: its stamp stays.
Past(r) == pc[r] \in {"persist", "fail", "done"}

\* Another report of the same kind, uploaded within the same second.
Rival(other, r) ==
    /\ Past(other)
    /\ stamp[other] = stamp[r]
    /\ request[other].file = request[r].file

\* The upload of r is under its key, or one that has overwritten it is.
UploadInv ==
    \A r \in Reports :
        pc[r] = "persist" \/ row[r] = "COMPLETED" =>
            /\ file[r] \in FileBytes
            /\ objects[ObjectKey(r, stamp[r])] \in FileBytes
            /\ \/ objects[ObjectKey(r, stamp[r])] = file[r]
               \/ \E other \in Reports \ {r} : Rival(other, r)

\* The last transaction writes all of its rows.
CompletedInv ==
    \A r \in Reports :
        row[r] = "COMPLETED" =>
            /\ s3uri[r] = ObjectKey(r, stamp[r])
            /\ checksum[r] = file[r]
            /\ <<r, file[r]>> \in checksums
            /\ r \in audit

Blocks(r, p) == Visible(r, p, status) /\ p \in Unfinished(status) \cup errors

\* What blocks the gate is there to be seen by its two counts; the first one
\* leaves no errors, and module 4 adds none to a paper it has.
GateInv ==
    \A r \in Reports :
        /\ pc[r] \in {"errors", "pending"} => \A p \in blocking[r] : Blocks(r, p)
        /\ pc[r] = "pending" => blocking[r] \cap errors = {}

IndInv == TypeOK /\ ProgressInv /\ UploadInv /\ CompletedInv /\ GateInv /\ GateHeld

-----------------------------------------------------------------------------
(***************************************************************************)
(* Type correctness.                                                       *)
(***************************************************************************)

LEMMA KeyType ==
    ASSUME TypeOK, NEW r \in Reports, pc[r] # "none", NEW second \in 0 .. MaxSeconds
    PROVE  ObjectKey(r, second) \in ObjectKeys
BY DEF TypeOK, ObjectKey, ObjectKeys

LEMMA InitTypeOK == Init => TypeOK
BY ReportBoundsAssumption DEF Init, TypeOK, RowStates, TaskStages

LEMMA FaultType ==
    ASSUME faults \in 0 .. MaxFaults, Fault PROVE faults' \in 0 .. MaxFaults
BY ReportBoundsAssumption DEF Fault

\* An edit of module 4's moves papers and issues only.
LEMMA EditTypeOK ==
    ASSUME TypeOK, NEW st \in [Papers -> Statuses \cup {"absent"}], NEW er \in SUBSET Papers,
           Edit(st, er)
    PROVE  TypeOK'
<1>1. edits' \in 0 .. MaxEdits
  BY ReportBoundsAssumption DEF TypeOK, Edit
<1>2. /\ open' \in [Reports -> SUBSET Papers]
      /\ blocking' \in [Reports -> SUBSET Papers]
  BY DEF TypeOK, Edit
<1>3. /\ status' = st /\ errors' = er
      /\ UNCHANGED <<commitFirst, now, request, row, s3uri, checksum, checksums, audit,
                     objects, pc, rls, file, stamp, faults>>
  BY DEF Edit, tableVars, taskVars
<1> QED BY <1>1, <1>2, <1>3 DEF TypeOK

LEMMA PaperStepTypeOK ==
    ASSUME TypeOK, NEW p \in Papers, StorePaper(p) \/ UpdateStatus(p) \/ ResolveIssue(p)
    PROVE  \E st \in [Papers -> Statuses \cup {"absent"}], er \in SUBSET Papers :
              /\ Edit(st, er)
              /\ \A p2 \in Papers : p2 \in er => p2 \in errors \/ status[p2] = "absent"
              /\ \A p2 \in Papers : status[p2] # "absent" => st[p2] # "absent"
<1>1. status \in [Papers -> Statuses \cup {"absent"}] /\ errors \in SUBSET Papers
  BY DEF TypeOK
<1>2. CASE StorePaper(p)
  <2>1. PICK s \in Statuses, er \in {errors, errors \cup {p}} :
           Edit([status EXCEPT ![p] = s], er)
    BY <1>2 DEF StorePaper
  <2>2. status[p] = "absent"
    BY <1>2 DEF StorePaper
  <2>3. [status EXCEPT ![p] = s] \in [Papers -> Statuses \cup {"absent"}]
    BY <1>1
  <2>4. er \in SUBSET Papers
    BY <1>1
  <2>5. \A p2 \in Papers : p2 \in er => p2 \in errors \/ status[p2] = "absent"
    BY <2>2
  <2>6. s # "absent"
    BY DEF Statuses
  <2> QED BY <1>1, <2>1, <2>3, <2>4, <2>5, <2>6
<1>3. CASE UpdateStatus(p)
  <2>1. PICK s \in Statuses : Edit([status EXCEPT ![p] = s], errors)
    BY <1>3 DEF UpdateStatus
  <2>2. [status EXCEPT ![p] = s] \in [Papers -> Statuses \cup {"absent"}]
    BY <1>1
  <2>3. s # "absent"
    BY DEF Statuses
  <2> QED BY <1>1, <2>1, <2>2, <2>3
<1>4. CASE ResolveIssue(p)
  <2>1. Edit(status, errors \ {p})
    BY <1>4 DEF ResolveIssue
  <2> QED BY <1>1, <2>1
<1> QED BY <1>2, <1>3, <1>4

LEMMA NextTypeOK == TypeOK /\ [Next]_vars => TypeOK'
<1> SUFFICES ASSUME TypeOK, [Next]_vars PROVE TypeOK'
  OBVIOUS
<1> USE ReportBoundsAssumption
<1>0. /\ pc \in [Reports -> TaskStages \cup {"none", "commit", "done"}]
      /\ row \in [Reports -> RowStates]
      /\ faults \in 0 .. MaxFaults
      /\ \A r \in Reports : pc[r] # "none" => request[r] \in Requests
      /\ \A r \in Reports : pc[r] \in {"upload", "persist"} => file[r] \in FileBytes
  BY DEF TypeOK
<1>1. ASSUME NEW r \in Reports, NEW q \in Requests, GenerateReport(r, q) PROVE TypeOK'
  BY <1>1 DEF TypeOK, GenerateReport, paperVars, historyVars, TaskStages, RowStates
<1>2. ASSUME NEW r \in Reports, Crash(r) PROVE TypeOK'
  <2>1. faults' \in 0 .. MaxFaults
    BY <1>0, <1>2, FaultType DEF Crash
  <2> QED BY <1>2, <2>1 DEF TypeOK, Crash, paperVars, historyVars, TaskStages, RowStates
<1>3. ASSUME NEW r \in Reports, Break(r) PROVE TypeOK'
  <2>1. faults' \in 0 .. MaxFaults
    BY <1>0, <1>3, FaultType DEF Break, Raise
  <2> QED BY <1>3, <2>1
       DEF TypeOK, Break, Raise, Goto, paperVars, tableVars, historyVars, TaskStages
<1>4. ASSUME NEW r \in Reports, Teardown(r) PROVE TypeOK'
  BY <1>4 DEF TypeOK, Teardown, paperVars, historyVars, TaskStages, RowStates
<1>5. ASSUME NEW r \in Reports, Start(r) PROVE TypeOK'
  <2>1. /\ Unfinished(status) \cup errors \in SUBSET Papers
        /\ {p \in Unfinished(status) \cup errors : Visible(r, p, status)} \in SUBSET Papers
    BY DEF TypeOK, Unfinished
  <2>2. open' \in [Reports -> SUBSET Papers] /\ blocking' \in [Reports -> SUBSET Papers]
    BY <1>5, <2>1 DEF TypeOK, Start
  <2>3. row' \in [Reports -> RowStates]
    BY <1>5 DEF TypeOK, Start, RowStates
  <2> QED BY <1>5, <2>2, <2>3 DEF TypeOK, Start, Goto, paperVars, TaskStages
<1>6. ASSUME NEW r \in Reports, CountErrors(r) \/ CountPending(r) PROVE TypeOK'
  BY <1>6 DEF TypeOK, CountErrors, CountPending, Gate, Goto, paperVars, tableVars,
              historyVars, TaskStages
<1>7. ASSUME NEW r \in Reports, Fetch(r) PROVE TypeOK'
  <2>0. PICK S \in SUBSET Papers : file' = [file EXCEPT ![r] = [report |-> r, papers |-> S]]
    BY <1>7 DEF Fetch, Seen
  <2>1. PICK bytes \in FileBytes : file' = [file EXCEPT ![r] = bytes]
    BY <2>0 DEF FileBytes
  <2>2. file' \in [Reports -> FileBytes \cup {Nothing}]
    BY <2>1 DEF TypeOK
  <2>3. \A r2 \in Reports : pc'[r2] \in {"upload", "persist"} => file'[r2] \in FileBytes
    BY <1>0, <1>7, <2>1 DEF TypeOK, Fetch, Goto
  <2>4. pc' \in [Reports -> TaskStages \cup {"none", "commit", "done"}]
        /\ \A r2 \in Reports : pc'[r2] # "none" => request'[r2] \in Requests
    BY <1>0, <1>7 DEF Fetch, Goto, TaskStages
  <2>5. UNCHANGED <<commitFirst, now, paperVars, request, tableVars, objects, rls, stamp,
                    faults, historyVars>>
    BY <1>7 DEF Fetch
  <2> QED BY <2>2, <2>3, <2>4, <2>5 DEF TypeOK, paperVars, tableVars, historyVars
<1>8. ASSUME NEW r \in Reports, Upload(r) PROVE TypeOK'
  <2>1. file[r] \in FileBytes
    BY <1>0, <1>8 DEF Upload
  <2> QED BY <1>8, <2>1
       DEF TypeOK, Upload, Goto, paperVars, tableVars, historyVars, TaskStages
<1>9. ASSUME NEW r \in Reports, Persist(r) PROVE TypeOK'
  <2>1. file[r] \in FileBytes /\ pc[r] # "none"
    BY <1>0, <1>9 DEF Persist
  <2>2. ObjectKey(r, stamp[r]) \in ObjectKeys
    BY <2>1, KeyType DEF TypeOK
  <2>3. faults' \in 0 .. MaxFaults
    BY <1>0, <1>9, FaultType DEF Persist, Raise
  <2>4. pc' \in {[pc EXCEPT ![r] = "done"], [pc EXCEPT ![r] = "fail"]}
    BY <1>9 DEF Persist, Raise, Goto
  <2>5. /\ row' \in [Reports -> RowStates] /\ s3uri' \in [Reports -> ObjectKeys \cup {Nothing}]
        /\ checksum' \in [Reports -> FileBytes \cup {Nothing}]
        /\ checksums' \in SUBSET (Reports \X FileBytes) /\ audit' \in SUBSET Reports
    BY <1>9, <2>1, <2>2 DEF TypeOK, Persist, tableVars, RowStates
  <2> QED BY <1>9, <2>3, <2>4, <2>5 DEF TypeOK, Persist, paperVars, historyVars, TaskStages
<1>10. ASSUME NEW r \in Reports, Fail(r) PROVE TypeOK'
  <2>1. faults' \in 0 .. MaxFaults
    BY <1>0, <1>10, FaultType DEF Fail
  <2>2. row' \in [Reports -> RowStates]
    BY <1>0, <1>10 DEF Fail, RowStates
  <2> QED BY <1>10, <2>1, <2>2 DEF TypeOK, Fail, Goto, paperVars, historyVars, TaskStages
<1>11. ASSUME NEW p \in Papers, StorePaper(p) \/ UpdateStatus(p) \/ ResolveIssue(p)
       PROVE  TypeOK'
  BY <1>11, PaperStepTypeOK, EditTypeOK
<1>12. CASE Tick
  BY <1>12 DEF TypeOK, Tick, paperVars, tableVars, taskVars, historyVars
<1>13. CASE UNCHANGED vars
  BY <1>13 DEF TypeOK, vars, paperVars, tableVars, taskVars, historyVars
<1> QED BY <1>1, <1>2, <1>3, <1>4, <1>5, <1>6, <1>7, <1>8, <1>9, <1>10, <1>11, <1>12,
           <1>13, Zenon DEF Next, Task

-----------------------------------------------------------------------------
(***************************************************************************)
(* The other parts of the invariant.                                       *)
(***************************************************************************)

\* The environment: it leaves rows and tasks alone.
LEMMA QuietKeeps ==
    ASSUME IndInv, UNCHANGED <<request, row, s3uri, checksum, checksums, audit, objects,
                               pc, rls, file, stamp>>
    PROVE  ProgressInv' /\ UploadInv' /\ CompletedInv'
<1>1. ProgressInv'
  BY DEF IndInv, ProgressInv
<1>2. \A r \in Reports : ObjectKey(r, stamp[r])' = ObjectKey(r, stamp[r])
  BY DEF ObjectKey
<1>3. \A r, other \in Reports : Rival(other, r)' = Rival(other, r)
  BY DEF Rival, Past
<1>4. UploadInv'
  BY <1>2, <1>3 DEF IndInv, UploadInv
<1>5. CompletedInv'
  BY <1>2 DEF IndInv, CompletedInv
<1> QED BY <1>1, <1>4, <1>5

\* A task that moves without uploading: reports that are done with their
\* upload stay so.
LEMMA MoveKeeps ==
    ASSUME IndInv, TypeOK', NEW r \in Reports,
           UNCHANGED <<objects, stamp>>,
           \A r2 \in Reports \ {r} :
              /\ pc'[r2] = pc[r2] /\ row'[r2] = row[r2] /\ rls'[r2] = rls[r2]
              /\ file'[r2] = file[r2] /\ request'[r2] = request[r2]
              /\ s3uri'[r2] = s3uri[r2] /\ checksum'[r2] = checksum[r2],
           checksums \subseteq checksums', audit \subseteq audit',
           Past(r) => Past(r)', request'[r] = request[r] \/ pc[r] = "none",
           pc'[r] = "persist" => pc[r] = "persist",
           row'[r] = "COMPLETED" => row[r] = "COMPLETED" \/ pc[r] = "persist",
           pc'[r] = "persist" \/ row'[r] = "COMPLETED" => file'[r] = file[r],
           row'[r] = "COMPLETED" =>
              /\ s3uri'[r] = ObjectKey(r, stamp[r])
              /\ checksum'[r] = file[r]
              /\ <<r, file[r]>> \in checksums'
              /\ r \in audit',
           pc'[r] = "none" => row'[r] = "none",
           row'[r] = "COMPLETED" => pc'[r] \in {"fail", "done"},
           pc'[r] \in {"errors", "pending", "fetch"} => rls'[r]
    PROVE  ProgressInv' /\ UploadInv' /\ CompletedInv'
<1>1. ProgressInv'
  BY DEF IndInv, ProgressInv
<1>2. \A r2 \in Reports : Past(r2) => Past(r2)' /\ request'[r2] = request[r2]
  BY DEF Past
<1>3. \A r2 \in Reports :
         pc'[r2] = "persist" \/ row'[r2] = "COMPLETED" =>
             /\ pc[r2] = "persist" \/ row[r2] = "COMPLETED"
             /\ file'[r2] = file[r2] /\ Past(r2)
  BY DEF IndInv, ProgressInv, Past
<1>4. \A r2 \in Reports :
         Past(r2) => ObjectKey(r2, stamp[r2])' = ObjectKey(r2, stamp[r2])
  BY <1>2 DEF ObjectKey
<1>5. \A r2, other \in Reports : Past(r2) /\ Rival(other, r2) => Rival(other, r2)'
  BY <1>2 DEF Rival
<1>6. UploadInv'
  <2> SUFFICES ASSUME NEW r2 \in Reports, pc'[r2] = "persist" \/ row'[r2] = "COMPLETED"
               PROVE  /\ file'[r2] \in FileBytes
                      /\ objects'[ObjectKey(r2, stamp[r2])'] \in FileBytes
                      /\ \/ objects'[ObjectKey(r2, stamp[r2])'] = file'[r2]
                         \/ \E other \in Reports \ {r2} : Rival(other, r2)'
    BY DEF UploadInv
  <2>1. /\ pc[r2] = "persist" \/ row[r2] = "COMPLETED"
        /\ file'[r2] = file[r2] /\ Past(r2)
        /\ ObjectKey(r2, stamp[r2])' = ObjectKey(r2, stamp[r2])
    BY <1>3, <1>4
  <2>2. /\ file[r2] \in FileBytes
        /\ objects[ObjectKey(r2, stamp[r2])] \in FileBytes
        /\ \/ objects[ObjectKey(r2, stamp[r2])] = file[r2]
           \/ \E other \in Reports \ {r2} : Rival(other, r2)
    BY <2>1 DEF IndInv, UploadInv
  <2> QED BY <1>5, <2>1, <2>2
<1>7. CompletedInv'
  <2> SUFFICES ASSUME NEW r2 \in Reports, row'[r2] = "COMPLETED"
               PROVE  /\ s3uri'[r2] = ObjectKey(r2, stamp[r2])'
                      /\ checksum'[r2] = file'[r2]
                      /\ <<r2, file'[r2]>> \in checksums'
                      /\ r2 \in audit'
    BY DEF CompletedInv
  <2>1. /\ file'[r2] = file[r2]
        /\ ObjectKey(r2, stamp[r2])' = ObjectKey(r2, stamp[r2])
    BY <1>3, <1>4
  <2>2. CASE r2 = r
    BY <2>1, <2>2
  <2>3. CASE r2 # r
    BY <2>1, <2>3 DEF IndInv, CompletedInv
  <2> QED BY <2>2, <2>3
<1> QED BY <1>1, <1>6, <1>7

\* An upload makes itself a rival of the report whose object it overwrites.
LEMMA UploadKeeps ==
    ASSUME IndInv, NEW r \in Reports, Upload(r)
    PROVE  ProgressInv' /\ UploadInv' /\ CompletedInv'
<1> DEFINE key == ObjectKey(r, now)
<1>1. /\ TypeOK /\ pc[r] = "upload" /\ file[r] \in FileBytes
      /\ pc \in [Reports -> TaskStages \cup {"none", "commit", "done"}]
      /\ stamp \in [Reports -> 0 .. MaxSeconds]
      /\ objects \in [ObjectKeys -> FileBytes \cup {Nothing}]
      /\ now \in 0 .. MaxSeconds
  BY DEF IndInv, TypeOK, Upload
<1>2. /\ objects' = [objects EXCEPT ![key] = file[r]]
      /\ stamp' = [stamp EXCEPT ![r] = now]
      /\ pc' = [pc EXCEPT ![r] = "persist"]
      /\ UNCHANGED <<request, row, s3uri, checksum, checksums, audit, rls, file>>
  BY DEF Upload, Goto, tableVars
<1>3. key \in ObjectKeys
  BY <1>1, KeyType
<1>4. /\ pc'[r] = "persist" /\ stamp'[r] = now
      /\ \A r2 \in Reports \ {r} : pc'[r2] = pc[r2] /\ stamp'[r2] = stamp[r2]
  BY <1>1, <1>2
<1>5. row[r] # "COMPLETED"
  BY <1>1 DEF IndInv, ProgressInv
<1>6. ProgressInv'
  BY <1>2, <1>4, <1>5 DEF IndInv, ProgressInv
<1>7. \A r2 \in Reports \ {r} : ObjectKey(r2, stamp[r2])' = ObjectKey(r2, stamp[r2])
  BY <1>2, <1>4 DEF ObjectKey
<1>8. ObjectKey(r, stamp[r])' = key
  BY <1>2, <1>4 DEF ObjectKey
<1>9. UploadInv'
  <2>1. objects'[key] = file[r]
    BY <1>1, <1>2, <1>3
  <2>2. ASSUME NEW r2 \in Reports \ {r}, pc[r2] = "persist" \/ row[r2] = "COMPLETED"
        PROVE  /\ file'[r2] \in FileBytes
               /\ objects'[ObjectKey(r2, stamp[r2])] \in FileBytes
               /\ \/ objects'[ObjectKey(r2, stamp[r2])] = file'[r2]
                  \/ \E other \in Reports \ {r2} : Rival(other, r2)'
    <3>1. /\ file[r2] \in FileBytes
          /\ objects[ObjectKey(r2, stamp[r2])] \in FileBytes
          /\ \/ objects[ObjectKey(r2, stamp[r2])] = file[r2]
             \/ \E other \in Reports \ {r2} : Rival(other, r2)
      BY <2>2 DEF IndInv, UploadInv
    <3>2. CASE ObjectKey(r2, stamp[r2]) = key
      <4>1. request[r2].file = request[r].file /\ stamp[r2] = now
        BY <3>2 DEF ObjectKey
      <4>2. Rival(r, r2)'
        BY <1>2, <1>4, <2>2, <4>1 DEF Rival, Past
      <4> QED BY <1>1, <1>2, <2>1, <2>2, <3>1, <3>2, <4>2
    <3>3. CASE ObjectKey(r2, stamp[r2]) # key
      <4>1. objects'[ObjectKey(r2, stamp[r2])] = objects[ObjectKey(r2, stamp[r2])]
        BY <1>1, <1>2, <1>3, <3>3
      <4>2. ASSUME NEW other \in Reports \ {r2}, Rival(other, r2) PROVE Rival(other, r2)'
        <5>1. other # r
          BY <1>1, <4>2 DEF Rival, Past
        <5> QED BY <1>2, <1>4, <2>2, <4>2, <5>1 DEF Rival, Past
      <4> QED BY <1>2, <3>1, <4>1, <4>2
    <3> QED BY <3>2, <3>3
  <2> QED BY <1>1, <1>2, <1>4, <1>7, <1>8, <2>1, <2>2 DEF UploadInv
<1>10. CompletedInv'
  BY <1>2, <1>4, <1>5, <1>7 DEF IndInv, CompletedInv
<1> QED BY <1>6, <1>9, <1>10

\* Every step of the request handler and of the task keeps the three of them.
LEMMA TaskStepKeeps ==
    ASSUME IndInv, TypeOK', NEW r \in Reports,
           \/ \E q \in Requests : GenerateReport(r, q)
           \/ Crash(r) \/ Break(r) \/ Task(r)
    PROVE  ProgressInv' /\ UploadInv' /\ CompletedInv'
<1>1. /\ pc \in [Reports -> TaskStages \cup {"none", "commit", "done"}]
      /\ row \in [Reports -> RowStates]
      /\ rls \in [Reports -> BOOLEAN]
      /\ file \in [Reports -> FileBytes \cup {Nothing}]
      /\ request \in [Reports -> Requests \cup {Nothing}]
      /\ s3uri \in [Reports -> ObjectKeys \cup {Nothing}]
      /\ checksum \in [Reports -> FileBytes \cup {Nothing}]
  BY DEF IndInv, TypeOK
<1>2. /\ pc[r] = "none" => row[r] = "none"
      /\ row[r] = "COMPLETED" => pc[r] \in {"fail", "done"}
      /\ pc[r] \in {"errors", "pending", "fetch"} => rls[r]
      /\ row[r] = "COMPLETED" =>
            /\ s3uri[r] = ObjectKey(r, stamp[r])
            /\ checksum[r] = file[r]
            /\ <<r, file[r]>> \in checksums
            /\ r \in audit
  BY DEF IndInv, ProgressInv, CompletedInv
<1>3. ASSUME NEW q \in Requests, GenerateReport(r, q)
      PROVE  ProgressInv' /\ UploadInv' /\ CompletedInv'
  BY <1>1, <1>2, <1>3, MoveKeeps DEF GenerateReport, Past
<1>4. CASE Crash(r)
  BY <1>1, <1>2, <1>4, MoveKeeps DEF Crash, Past
<1>5. CASE Break(r)
  BY <1>1, <1>2, <1>5, MoveKeeps DEF Break, Raise, Goto, tableVars, TaskStages, Past
<1>6. CASE Teardown(r)
  BY <1>1, <1>2, <1>6, MoveKeeps DEF Teardown, Past
<1>7. CASE Start(r)
  BY <1>1, <1>2, <1>7, MoveKeeps DEF Start, Goto, Past
<1>8. CASE CountErrors(r) \/ CountPending(r)
  BY <1>1, <1>2, <1>8, MoveKeeps DEF CountErrors, CountPending, Gate, Goto, tableVars, Past
<1>9. CASE Fetch(r)
  BY <1>1, <1>2, <1>9, MoveKeeps DEF Fetch, Goto, tableVars, Past
<1>10. CASE Upload(r)
  BY <1>10, UploadKeeps
<1>11. CASE Persist(r)
  <2>1. CASE Committed(r)
    BY <1>1, <1>2, <1>11, <2>1, MoveKeeps DEF Persist, Raise, Goto, Past
  <2>2. CASE ~Committed(r)
    BY <1>1, <1>2, <1>11, <2>2, MoveKeeps DEF Persist, Goto, tableVars, Past
  <2> QED BY <2>1, <2>2
<1>12. CASE Fail(r)
  BY <1>1, <1>2, <1>12, MoveKeeps DEF Fail, Goto, Past
<1> QED BY <1>3, <1>4, <1>5, <1>6, <1>7, <1>8, <1>9, <1>10, <1>11, <1>12, Zenon DEF Task

\* Module 4 only takes papers off what blocks a gate.
LEMMA EditKeepsGate ==
    ASSUME IndInv, NEW st \in [Papers -> Statuses \cup {"absent"}], NEW er \in SUBSET Papers,
           Edit(st, er),
           \A p \in Papers : p \in er => p \in errors \/ status[p] = "absent"
    PROVE  GateInv' /\ GateHeld'
<1>1. /\ status' = st /\ errors' = er /\ UNCHANGED <<request, row, pc>>
      /\ \A r \in Reports :
            blocking'[r] =
                {p \in blocking[r] \cap (Unfinished(st) \cup er) : Visible(r, p, st)}
  BY DEF Edit, tableVars, taskVars
<1>2. ASSUME NEW r \in Reports, NEW p \in blocking'[r]
      PROVE  /\ p \in blocking[r] /\ p \in Papers
             /\ Visible(r, p, status)' /\ p \in Unfinished(status)' \cup errors'
  <2>1. Unfinished(status)' = Unfinished(st)
    BY <1>1 DEF Unfinished
  <2>2. Visible(r, p, st) => Visible(r, p, status)'
    BY <1>1 DEF Visible
  <2>3. blocking[r] \subseteq Papers
    BY DEF IndInv, TypeOK
  <2> QED BY <1>1, <1>2, <2>1, <2>2, <2>3
<1>3. GateInv'
  <2>1. ASSUME NEW r \in Reports, pc'[r] \in {"errors", "pending"}, NEW p \in blocking'[r]
        PROVE  Blocks(r, p)'
    BY <1>2 DEF Blocks
  <2>2. ASSUME NEW r \in Reports, pc'[r] = "pending", NEW p \in blocking'[r], p \in errors'
        PROVE  FALSE
    <3>1. p \in blocking[r] /\ p \in Papers
      BY <1>2
    <3>2. Visible(r, p, status) /\ p \notin errors
      BY <1>1, <2>2, <3>1 DEF IndInv, GateInv, Blocks
    <3>3. p \in errors \/ status[p] = "absent"
      BY <1>1, <2>2, <3>1
    <3> QED BY <3>2, <3>3 DEF Visible
  <2> QED BY <2>1, <2>2 DEF GateInv
<1>4. GateHeld'
  BY <1>1, <1>2 DEF IndInv, GateHeld, Gated
<1> QED BY <1>3, <1>4

\* A step of a task that touches neither paper, and passes no gate.
LEMMA MoveKeepsGate ==
    ASSUME IndInv, NEW r \in Reports,
           UNCHANGED <<status, errors, blocking>>,
           \A r2 \in Reports \ {r} :
              pc'[r2] = pc[r2] /\ row'[r2] = row[r2] /\ request'[r2] = request[r2],
           pc'[r] \notin {"errors", "pending"},
           Gated(r)' => Gated(r)
    PROVE  GateInv' /\ GateHeld'
<1>1. \A r2 \in Reports \ {r}, p \in Papers : Blocks(r2, p) => Blocks(r2, p)'
  BY DEF Blocks, Visible, Unfinished
<1>2. \A r2 \in Reports : blocking[r2] \subseteq Papers
  BY DEF IndInv, TypeOK
<1>3. GateInv'
  BY <1>1, <1>2 DEF IndInv, GateInv
<1>4. GateHeld'
  BY DEF IndInv, GateHeld, Gated
<1> QED BY <1>3, <1>4

\* The first count leaves no error among what blocks.
LEMMA CountErrorsKeepsGate ==
    ASSUME IndInv, NEW r \in Reports, CountErrors(r)
    PROVE  GateInv' /\ GateHeld'
<1>1. /\ pc[r] = "errors" /\ rls[r] /\ row[r] # "COMPLETED"
      /\ blocking[r] \subseteq Papers
      /\ pc \in [Reports -> TaskStages \cup {"none", "commit", "done"}]
  BY DEF IndInv, TypeOK, ProgressInv, CountErrors, Gate
<1>2. /\ pc' = [pc EXCEPT ![r] = IF Seen(r, errors) = {} THEN "pending" ELSE "fail"]
      /\ UNCHANGED <<status, errors, request, row, blocking>>
  BY DEF CountErrors, Gate, Goto, paperVars, tableVars, historyVars
<1>3. CASE Seen(r, errors) = {}
  <2>1. \A p \in blocking[r] : Visible(r, p, status)
    BY <1>1 DEF IndInv, GateInv, Blocks
  <2>2. blocking[r] \cap errors = {}
    BY <1>1, <1>3, <2>1 DEF Seen
  <2>3. \A r2 \in Reports, p \in Papers : Blocks(r2, p) => Blocks(r2, p)'
    BY <1>2 DEF Blocks, Visible, Unfinished
  <2>4. \A r2 \in Reports : blocking[r2] \subseteq Papers
    BY DEF IndInv, TypeOK
  <2>5. pc'[r] = "pending" /\ \A r2 \in Reports \ {r} : pc'[r2] = pc[r2]
    BY <1>1, <1>2, <1>3
  <2>6. GateInv'
    BY <1>1, <1>2, <2>2, <2>3, <2>4, <2>5 DEF IndInv, GateInv
  <2>7. GateHeld'
    BY <1>1, <1>2, <2>5 DEF IndInv, GateHeld, Gated
  <2> QED BY <2>6, <2>7
<1>4. CASE Seen(r, errors) # {}
  <2>1. pc'[r] = "fail" /\ \A r2 \in Reports \ {r} : pc'[r2] = pc[r2]
    BY <1>1, <1>2, <1>4
  <2> QED BY <1>1, <1>2, <2>1, MoveKeepsGate DEF Gated
<1> QED BY <1>3, <1>4

\* The second count leaves nothing that blocks.
LEMMA CountPendingKeepsGate ==
    ASSUME IndInv, NEW r \in Reports, CountPending(r)
    PROVE  GateInv' /\ GateHeld'
<1>1. /\ pc[r] = "pending" /\ rls[r] /\ row[r] # "COMPLETED"
      /\ blocking[r] \subseteq Papers
      /\ pc \in [Reports -> TaskStages \cup {"none", "commit", "done"}]
  BY DEF IndInv, TypeOK, ProgressInv, CountPending, Gate
<1>2. /\ pc' = [pc EXCEPT ![r] =
                  IF Seen(r, Unfinished(status)) = {} THEN "fetch" ELSE "fail"]
      /\ UNCHANGED <<status, errors, request, row, blocking>>
  BY DEF CountPending, Gate, Goto, paperVars, tableVars, historyVars
<1>3. CASE Seen(r, Unfinished(status)) = {}
  <2>1. \A p \in blocking[r] :
           Visible(r, p, status) /\ p \in Unfinished(status) \cup errors /\ p \notin errors
    BY <1>1 DEF IndInv, GateInv, Blocks
  <2>2. blocking[r] = {}
    BY <1>1, <1>3, <2>1 DEF Seen
  <2>3. \A r2 \in Reports, p \in Papers : Blocks(r2, p) => Blocks(r2, p)'
    BY <1>2 DEF Blocks, Visible, Unfinished
  <2>4. \A r2 \in Reports : blocking[r2] \subseteq Papers
    BY DEF IndInv, TypeOK
  <2>5. pc'[r] = "fetch" /\ \A r2 \in Reports \ {r} : pc'[r2] = pc[r2]
    BY <1>1, <1>2, <1>3
  <2>6. GateInv'
    BY <1>2, <2>3, <2>4, <2>5 DEF IndInv, GateInv
  <2>7. GateHeld'
    BY <1>2, <2>2, <2>5 DEF IndInv, GateHeld, Gated
  <2> QED BY <2>6, <2>7
<1>4. CASE Seen(r, Unfinished(status)) # {}
  <2>1. pc'[r] = "fail" /\ \A r2 \in Reports \ {r} : pc'[r2] = pc[r2]
    BY <1>1, <1>2, <1>4
  <2> QED BY <1>1, <1>2, <2>1, MoveKeepsGate DEF Gated
<1> QED BY <1>3, <1>4

\* The task starts with what it can see of unfinished papers and errors.
LEMMA StartKeepsGate ==
    ASSUME IndInv, NEW r \in Reports, Start(r)
    PROVE  GateInv' /\ GateHeld'
<1>1. /\ pc[r] = "start" /\ row[r] # "COMPLETED"
      /\ pc \in [Reports -> TaskStages \cup {"none", "commit", "done"}]
      /\ row \in [Reports -> RowStates]
      /\ blocking \in [Reports -> SUBSET Papers]
  BY DEF IndInv, TypeOK, ProgressInv, Start
<1>2. /\ pc' = [pc EXCEPT ![r] = "errors"]
      /\ row' = [row EXCEPT ![r] = IF Committed(r) THEN "GENERATING" ELSE @]
      /\ blocking' = [blocking EXCEPT ![r] =
                        {p \in Unfinished(status) \cup errors : Visible(r, p, status)}]
      /\ UNCHANGED <<status, errors, request>>
  BY DEF Start, Goto, paperVars
<1>3. /\ pc'[r] = "errors" /\ row'[r] # "COMPLETED"
      /\ blocking'[r] = {p \in Unfinished(status) \cup errors : Visible(r, p, status)}
      /\ \A r2 \in Reports \ {r} :
            pc'[r2] = pc[r2] /\ row'[r2] = row[r2] /\ blocking'[r2] = blocking[r2]
  BY <1>1, <1>2
<1>4. \A r2 \in Reports, p \in Papers : Blocks(r2, p)' = Blocks(r2, p)
  BY <1>2 DEF Blocks, Visible, Unfinished
<1>5. \A p \in blocking'[r] : p \in Papers /\ Blocks(r, p)
  <2>1. errors \subseteq Papers
    BY DEF IndInv, TypeOK
  <2> QED BY <1>3, <2>1 DEF Blocks, Unfinished
<1>6. GateInv'
  BY <1>1, <1>2, <1>3, <1>4, <1>5 DEF IndInv, GateInv
<1>7. GateHeld'
  BY <1>3 DEF IndInv, GateHeld, Gated
<1> QED BY <1>6, <1>7

LEMMA TaskStepKeepsGate ==
    ASSUME IndInv, NEW r \in Reports,
           \/ \E q \in Requests : GenerateReport(r, q)
           \/ Crash(r) \/ Break(r) \/ Task(r)
    PROVE  GateInv' /\ GateHeld'
<1>1. /\ pc \in [Reports -> TaskStages \cup {"none", "commit", "done"}]
      /\ row \in [Reports -> RowStates]
      /\ request \in [Reports -> Requests \cup {Nothing}]
      /\ pc[r] = "none" => row[r] = "none"
  BY DEF IndInv, TypeOK, ProgressInv
<1>2. ASSUME NEW q \in Requests, GenerateReport(r, q) PROVE GateInv' /\ GateHeld'
  BY <1>1, <1>2, MoveKeepsGate DEF GenerateReport, Gated, paperVars, historyVars
<1>3. CASE Crash(r)
  BY <1>1, <1>3, MoveKeepsGate DEF Crash, Gated, paperVars, historyVars
<1>4. CASE Break(r)
  BY <1>1, <1>4, MoveKeepsGate
     DEF Break, Raise, Goto, Gated, paperVars, tableVars, historyVars
<1>5. CASE Teardown(r)
  BY <1>1, <1>5, MoveKeepsGate DEF Teardown, Gated, paperVars, historyVars
<1>6. CASE Fetch(r)
  BY <1>1, <1>6, MoveKeepsGate DEF Fetch, Goto, Gated, paperVars, tableVars, historyVars
<1>7. CASE Upload(r)
  BY <1>1, <1>7, MoveKeepsGate DEF Upload, Goto, Gated, paperVars, tableVars, historyVars
<1>8. CASE Persist(r)
  BY <1>1, <1>8, MoveKeepsGate
     DEF Persist, Raise, Goto, Gated, paperVars, tableVars, historyVars
<1>9. CASE Fail(r)
  BY <1>1, <1>9, MoveKeepsGate DEF Fail, Goto, Gated, paperVars, historyVars
<1> QED BY <1>2, <1>3, <1>4, <1>5, <1>6, <1>7, <1>8, <1>9, StartKeepsGate,
           CountErrorsKeepsGate, CountPendingKeepsGate, Zenon DEF Task

-----------------------------------------------------------------------------
(***************************************************************************)
(* The invariant, and the theorems.                                        *)
(***************************************************************************)

LEMMA InitInv == Init => IndInv
<1> SUFFICES ASSUME Init PROVE IndInv
  OBVIOUS
<1>1. TypeOK
  BY InitTypeOK
<1>2. /\ pc = [r \in Reports |-> "none"] /\ row = [r \in Reports |-> "none"]
      /\ blocking = [r \in Reports |-> {}]
  BY DEF Init
<1> QED BY <1>1, <1>2
     DEF IndInv, ProgressInv, UploadInv, CompletedInv, GateInv, GateHeld, Gated

LEMMA NextInv == IndInv /\ [Next]_vars => IndInv'
<1> SUFFICES ASSUME IndInv, [Next]_vars PROVE IndInv'
  OBVIOUS
<1>1. TypeOK'
  BY NextTypeOK DEF IndInv
<1>2. ASSUME NEW r \in Reports,
             \/ \E q \in Requests : GenerateReport(r, q)
             \/ Crash(r) \/ Break(r) \/ Task(r)
      PROVE  IndInv'
  BY <1>1, <1>2, TaskStepKeeps, TaskStepKeepsGate DEF IndInv
<1>3. ASSUME NEW p \in Papers, StorePaper(p) \/ UpdateStatus(p) \/ ResolveIssue(p)
      PROVE  IndInv'
  <2>1. PICK st \in [Papers -> Statuses \cup {"absent"}], er \in SUBSET Papers :
           /\ Edit(st, er)
           /\ \A p2 \in Papers : p2 \in er => p2 \in errors \/ status[p2] = "absent"
    BY <1>3, PaperStepTypeOK DEF IndInv
  <2>2. GateInv' /\ GateHeld'
    BY <2>1, EditKeepsGate
  <2>3. ProgressInv' /\ UploadInv' /\ CompletedInv'
    BY <2>1, QuietKeeps DEF Edit, tableVars, taskVars
  <2> QED BY <1>1, <2>2, <2>3 DEF IndInv
<1>4. CASE Tick \/ UNCHANGED vars
  <2>1. UNCHANGED <<request, row, s3uri, checksum, checksums, audit, objects, pc, rls,
                    file, stamp, status, errors, blocking>>
    BY <1>4 DEF Tick, vars, paperVars, tableVars, taskVars, historyVars
  <2>2. ProgressInv' /\ UploadInv' /\ CompletedInv'
    BY <2>1, QuietKeeps
  <2>3. \A r \in Reports, p \in Papers : Blocks(r, p)' = Blocks(r, p)
    BY <2>1 DEF Blocks, Visible, Unfinished
  <2>4. \A r \in Reports : blocking[r] \subseteq Papers
    BY DEF IndInv, TypeOK
  <2>5. GateInv' /\ GateHeld'
    BY <2>1, <2>3, <2>4 DEF IndInv, GateInv, GateHeld, Gated
  <2> QED BY <1>1, <2>2, <2>5 DEF IndInv
<1> QED BY <1>2, <1>3, <1>4, Zenon DEF Next

LEMMA SpecInv == Spec => []IndInv
BY InitInv, NextInv, PTL DEF Spec

\* Every variable keeps its type, for any number of reports, papers and
\* requests.
THEOREM TypeCorrectness == Spec => []TypeOK
<1>1. IndInv => TypeOK
  BY DEF IndInv
<1> QED BY <1>1, SpecInv, PTL

\* Whichever call of run_generation fails, and wherever the process dies, a
\* COMPLETED report has its object, its checksum row and its audit row.
THEOREM BackingSoundness == Spec => []CompletedIsBacked
<1>1. IndInv => CompletedIsBacked
  <2> SUFFICES ASSUME IndInv, NEW r \in Reports, row[r] = "COMPLETED"
               PROVE  /\ s3uri[r] # Nothing /\ objects[s3uri[r]] # Nothing
                      /\ <<r, checksum[r]>> \in checksums
                      /\ r \in audit
    BY DEF CompletedIsBacked
  <2>1. /\ s3uri[r] = ObjectKey(r, stamp[r]) /\ checksum[r] = file[r]
        /\ <<r, file[r]>> \in checksums /\ r \in audit
        /\ objects[ObjectKey(r, stamp[r])] \in FileBytes
    BY DEF IndInv, UploadInv, CompletedInv
  <2>2. pc[r] # "none"
    BY DEF IndInv, ProgressInv
  <2>3. ObjectKey(r, stamp[r]) \in ObjectKeys
    BY <2>2, KeyType DEF IndInv, TypeOK
  <2> QED BY <2>1, <2>3, NothingAssumption
<1> QED BY <1>1, SpecInv, PTL

\* The object under a COMPLETED report's URI is the one its checksum was taken
\* from, unless another report of its kind was uploaded within the same second.
THEOREM VerifiableSoundness == Spec => []VerifiableUnlessSameSecond
<1>1. IndInv => VerifiableUnlessSameSecond
  BY DEF IndInv, UploadInv, CompletedInv, Rival, Past, VerifiableUnlessSameSecond
<1> QED BY <1>1, SpecInv, PTL

\* The compliance gate's two counts, each a statement with a snapshot of its
\* own, let no report pass while a paper that its requester sees has been
\* unfinished or in error since the task started.
THEOREM GateSoundness == Spec => []GateHeld
<1>1. IndInv => GateHeld
  BY DEF IndInv
<1> QED BY <1>1, SpecInv, PTL

-----------------------------------------------------------------------------
(***************************************************************************)
(* How reports end.                                                        *)
(***************************************************************************)

\* What has become of a report, by the order of commit and task.  When the
\* commit comes after the task, nothing the task writes about the row lasts:
\* no report is ever GENERATING, FAILED or COMPLETED.
Outcome ==
    \A r \in Reports :
        /\ ~commitFirst => row[r] \in {"none", "uncommitted", "PENDING"}
        /\ commitFirst /\ pc[r] = "done" => row[r] \in {"COMPLETED", "FAILED"} \/ faults > 0

\* With the commit first, a task finds its row; else it never does.
OutcomeInv ==
    /\ \A r \in Reports :
          /\ pc[r] = "none" => row[r] = "none"
          /\ pc[r] = "commit" => commitFirst /\ row[r] = "uncommitted"
          /\ pc[r] \in TaskStages => IF commitFirst THEN Committed(r) ELSE row[r] = "uncommitted"
    /\ Outcome

LEMMA FaultCounts ==
    ASSUME TypeOK, Fault
    PROVE  faults' > 0
BY DEF TypeOK, Fault

\* A step of a report that keeps OutcomeInv, seen from the others.
LEMMA OutcomeStep ==
    ASSUME TypeOK, OutcomeInv, NEW r \in Reports,
           UNCHANGED commitFirst, faults' = faults \/ faults' > 0,
           \A r2 \in Reports \ {r} : pc'[r2] = pc[r2] /\ row'[r2] = row[r2],
           pc'[r] = "none" => row'[r] = "none",
           pc'[r] = "commit" => commitFirst /\ row'[r] = "uncommitted",
           pc'[r] \in TaskStages =>
              IF commitFirst THEN Committed(r)' ELSE row'[r] = "uncommitted",
           ~commitFirst => row'[r] \in {"none", "uncommitted", "PENDING"},
           commitFirst /\ pc'[r] = "done" => row'[r] \in {"COMPLETED", "FAILED"} \/ faults' > 0
    PROVE  OutcomeInv'
BY DEF OutcomeInv, Outcome, Committed, TypeOK

LEMMA TaskStepOutcome ==
    ASSUME TypeOK, OutcomeInv, NEW r \in Reports,
           \/ \E q \in Requests : GenerateReport(r, q)
           \/ Crash(r) \/ Break(r) \/ Task(r)
    PROVE  OutcomeInv'
<1>1. /\ pc \in [Reports -> TaskStages \cup {"none", "commit", "done"}]
      /\ row \in [Reports -> RowStates] /\ commitFirst \in BOOLEAN
  BY DEF TypeOK
<1>2. /\ pc[r] = "none" => row[r] = "none"
      /\ pc[r] = "commit" => commitFirst /\ row[r] = "uncommitted"
      /\ pc[r] \in TaskStages => IF commitFirst THEN Committed(r) ELSE row[r] = "uncommitted"
      /\ ~commitFirst => row[r] \in {"none", "uncommitted", "PENDING"}
      /\ commitFirst /\ pc[r] = "done" => row[r] \in {"COMPLETED", "FAILED"} \/ faults > 0
  BY DEF OutcomeInv, Outcome
<1>3. ASSUME NEW q \in Requests, GenerateReport(r, q) PROVE OutcomeInv'
  BY <1>1, <1>2, <1>3, OutcomeStep DEF GenerateReport, TaskStages, Committed
<1>4. CASE Crash(r)
  BY <1>1, <1>2, <1>4, OutcomeStep, FaultCounts DEF Crash, TaskStages, Committed
<1>5. CASE Break(r)
  BY <1>1, <1>2, <1>5, OutcomeStep, FaultCounts
     DEF Break, Raise, Goto, tableVars, TaskStages, Committed
<1>6. CASE Teardown(r)
  BY <1>1, <1>2, <1>6, OutcomeStep DEF Teardown, TaskStages, Committed
<1>7. CASE Start(r)
  BY <1>1, <1>2, <1>7, OutcomeStep DEF Start, Goto, TaskStages, Committed
<1>8. CASE CountErrors(r) \/ CountPending(r)
  BY <1>1, <1>2, <1>8, OutcomeStep
     DEF CountErrors, CountPending, Gate, Goto, tableVars, TaskStages, Committed
<1>9. CASE Fetch(r)
  BY <1>1, <1>2, <1>9, OutcomeStep DEF Fetch, Goto, tableVars, TaskStages, Committed
<1>10. CASE Upload(r)
  BY <1>1, <1>2, <1>10, OutcomeStep DEF Upload, Goto, tableVars, TaskStages, Committed
<1>11. CASE Persist(r)
  <2>1. CASE Committed(r)
    BY <1>1, <1>2, <1>11, <2>1, OutcomeStep, FaultCounts
       DEF Persist, Raise, Goto, TaskStages, Committed
  <2>2. CASE ~Committed(r)
    BY <1>1, <1>2, <1>11, <2>2, OutcomeStep
       DEF Persist, Goto, tableVars, TaskStages, Committed
  <2> QED BY <2>1, <2>2
<1>12. CASE Fail(r)
  BY <1>1, <1>2, <1>12, OutcomeStep, FaultCounts DEF Fail, Goto, TaskStages, Committed
<1> QED BY <1>3, <1>4, <1>5, <1>6, <1>7, <1>8, <1>9, <1>10, <1>11, <1>12, Zenon DEF Task

\* The rest of the system leaves rows and tasks alone.
LEMMA OthersQuiet ==
    ASSUME \/ \E p \in Papers : StorePaper(p) \/ UpdateStatus(p) \/ ResolveIssue(p)
           \/ Tick \/ UNCHANGED vars
    PROVE  UNCHANGED <<commitFirst, request, row, pc, faults>>
BY DEF StorePaper, UpdateStatus, ResolveIssue, Edit, Tick, vars, tableVars, taskVars

\* Where a report ends.  With the commit before the task, a task that is over
\* has left its report COMPLETED or FAILED, unless a call failed or the process
\* died; with the commit after it, as fastapi 0.104.1 has it, every report stays
\* PENDING, in all behaviours, with faults and without.
THEOREM OutcomeSoundness == Spec => []Outcome
<1>1. Init => OutcomeInv
  BY DEF Init, OutcomeInv, Outcome, TaskStages
<1>2. TypeOK /\ OutcomeInv /\ [Next]_vars => OutcomeInv'
  <2> SUFFICES ASSUME TypeOK, OutcomeInv, [Next]_vars PROVE OutcomeInv'
    OBVIOUS
  <2>1. ASSUME NEW r \in Reports,
               \/ \E q \in Requests : GenerateReport(r, q)
               \/ Crash(r) \/ Break(r) \/ Task(r)
        PROVE  OutcomeInv'
    BY <2>1, TaskStepOutcome
  <2>2. CASE \/ \E p \in Papers : StorePaper(p) \/ UpdateStatus(p) \/ ResolveIssue(p)
             \/ Tick \/ UNCHANGED vars
    <3>1. UNCHANGED <<commitFirst, row, pc, faults>>
      BY <2>2, OthersQuiet
    <3> QED BY <3>1 DEF OutcomeInv, Outcome, Committed
  <2> QED BY <2>1, <2>2, Zenon DEF Next
<1>3. OutcomeInv => Outcome
  BY DEF OutcomeInv
<1> QED BY <1>1, <1>2, <1>3, TypeCorrectness, PTL DEF Spec

-----------------------------------------------------------------------------
(***************************************************************************)
(* That a task comes to its end.                                           *)
(***************************************************************************)

\* How far the task of r is, its commit included.
Progress(r) ==
    (CASE pc[r] = "none"    -> 0
       [] pc[r] = "commit"  -> 1
       [] pc[r] = "start"   -> 2
       [] pc[r] = "errors"  -> 3
       [] pc[r] = "pending" -> 4
       [] pc[r] = "fetch"   -> 5
       [] pc[r] = "upload"  -> 6
       [] pc[r] = "persist" -> 7
       [] pc[r] = "fail"    -> 8
       [] pc[r] = "done"    -> IF row[r] = "uncommitted" THEN 9 ELSE 10)

LEMMA ProgressRange ==
    ASSUME TypeOK, NEW r \in Reports
    PROVE  Progress(r) \in 0 .. 10
BY DEF TypeOK, TaskStages, Progress

\* Every step of a report brings it further, and nothing sets one back: what a
\* task still has to do is bounded by 10 - Progress(r), whatever fails.
TasksAdvance ==
    \A r \in Reports :
        /\ Progress(r) <= Progress(r)'
        /\ Task(r) \/ Break(r) \/ Crash(r) => Progress(r) < Progress(r)'

LEMMA TaskStepAdvances ==
    ASSUME TypeOK, NEW r \in Reports,
           \/ \E q \in Requests : GenerateReport(r, q)
           \/ Crash(r) \/ Break(r) \/ Task(r)
    PROVE  /\ Progress(r) < Progress(r)'
           /\ \A r2 \in Reports \ {r} : Progress(r2)' = Progress(r2)
<1>1. /\ pc \in [Reports -> TaskStages \cup {"none", "commit", "done"}]
      /\ row \in [Reports -> RowStates]
  BY DEF TypeOK
<1>2. ASSUME \A r2 \in Reports \ {r} : pc'[r2] = pc[r2] /\ row'[r2] = row[r2]
      PROVE  \A r2 \in Reports \ {r} : Progress(r2)' = Progress(r2)
  BY <1>2 DEF Progress
<1>3. ASSUME NEW q \in Requests, GenerateReport(r, q)
      PROVE  /\ Progress(r) < Progress(r)'
             /\ \A r2 \in Reports \ {r} : pc'[r2] = pc[r2] /\ row'[r2] = row[r2]
  BY <1>1, <1>3 DEF GenerateReport, Progress
<1>4. CASE Crash(r)
  <2>1. pc'[r] = "done" /\ row'[r] # "uncommitted" /\ Progress(r)' = 10
    BY <1>1, <1>4 DEF Crash, Progress
  <2>2. Progress(r) < 10
    BY <1>1, <1>4 DEF Crash, Progress, TaskStages
  <2>3. \A r2 \in Reports \ {r} : pc'[r2] = pc[r2] /\ row'[r2] = row[r2]
    BY <1>1, <1>4 DEF Crash
  <2> QED BY <1>2, <2>1, <2>2, <2>3
<1>5. CASE Break(r)
  <2>1. /\ Progress(r)' = 8
        /\ \A r2 \in Reports \ {r} : pc'[r2] = pc[r2] /\ row'[r2] = row[r2]
    BY <1>1, <1>5 DEF Break, Raise, Goto, tableVars, Progress
  <2>2. Progress(r) < 8
    BY <1>5 DEF Break, Progress, TaskStages
  <2> QED BY <1>2, <2>1, <2>2
<1>6. CASE Teardown(r)
  <2>1. /\ Progress(r) < Progress(r)'
        /\ \A r2 \in Reports \ {r} : pc'[r2] = pc[r2] /\ row'[r2] = row[r2]
    BY <1>1, <1>6 DEF Teardown, Progress
  <2> QED BY <1>2, <2>1
<1>7. CASE Start(r) \/ Fetch(r) \/ Upload(r)
  <2>1. /\ Progress(r) < Progress(r)'
        /\ \A r2 \in Reports \ {r} : pc'[r2] = pc[r2] /\ row'[r2] = row[r2]
    BY <1>1, <1>7 DEF Start, Fetch, Upload, Goto, tableVars, Progress
  <2> QED BY <1>2, <2>1
<1>8. CASE CountErrors(r) \/ CountPending(r)
  <2>1. /\ Progress(r) < Progress(r)'
        /\ \A r2 \in Reports \ {r} : pc'[r2] = pc[r2] /\ row'[r2] = row[r2]
    BY <1>1, <1>8 DEF CountErrors, CountPending, Gate, Goto, tableVars, Progress
  <2> QED BY <1>2, <2>1
<1>9. CASE Persist(r) \/ Fail(r)
  <2>1. /\ Progress(r) < Progress(r)'
        /\ \A r2 \in Reports \ {r} : pc'[r2] = pc[r2] /\ row'[r2] = row[r2]
    BY <1>1, <1>9 DEF Persist, Fail, Raise, Goto, tableVars, Progress
  <2> QED BY <1>2, <2>1
<1> QED BY <1>2, <1>3, <1>4, <1>5, <1>6, <1>7, <1>8, <1>9, Zenon DEF Task

\* Between two steps of anybody a report gets further or stays where it is, and
\* its own steps bring it further: none of its stages is taken twice.
THEOREM TaskProgress == Spec => [][TasksAdvance]_vars
<1>1. TypeOK /\ [Next]_vars => [TasksAdvance]_vars
  <2> SUFFICES ASSUME TypeOK, Next PROVE TasksAdvance
    OBVIOUS
  <2>0. \A r \in Reports : Progress(r) \in Nat /\ Progress(r)' \in Nat
    <3>1. TypeOK'
      BY NextTypeOK
    <3> QED BY <3>1, ProgressRange DEF TypeOK, TaskStages, Progress
  <2>1. ASSUME NEW r \in Reports,
               \/ \E q \in Requests : GenerateReport(r, q)
               \/ Crash(r) \/ Break(r) \/ Task(r)
        PROVE  TasksAdvance
    <3>1. /\ Progress(r) < Progress(r)'
          /\ \A r2 \in Reports \ {r} : Progress(r2)' = Progress(r2)
      BY <2>1, TaskStepAdvances
    <3>2. \A r2 \in Reports : Task(r2) \/ Break(r2) \/ Crash(r2) => Progress(r2) < Progress(r2)'
      BY TaskStepAdvances
    <3> QED BY <2>0, <3>1, <3>2 DEF TasksAdvance
  <2>2. CASE \/ \E p \in Papers : StorePaper(p) \/ UpdateStatus(p) \/ ResolveIssue(p)
             \/ Tick \/ UNCHANGED vars
    <3>1. \A r \in Reports : Progress(r)' = Progress(r)
      BY <2>2, OthersQuiet DEF Progress
    <3>2. \A r2 \in Reports : Task(r2) \/ Break(r2) \/ Crash(r2) => Progress(r2) < Progress(r2)'
      BY TaskStepAdvances
    <3> QED BY <2>0, <3>1, <3>2 DEF TasksAdvance
  <2> QED BY <2>1, <2>2, Zenon DEF Next
<1> QED BY <1>1, TypeCorrectness, PTL DEF Spec

-----------------------------------------------------------------------------
(***************************************************************************)
(* The gate for an admin.                                                  *)
(***************************************************************************)

\* An admin sees every paper there is, and issues are those of papers there are.
OpenInv ==
    /\ \A p \in errors : status[p] # "absent"
    /\ \A r \in Reports : pc[r] = "none" => open[r] = {} /\ blocking[r] = {}
    /\ \A r \in Reports : pc[r] # "none" /\ request[r].admin => open[r] = blocking[r]

\* Module 4 adds no error to a paper that is not there after the edit.
LEMMA EditStored ==
    ASSUME TypeOK, OpenInv, NEW p \in Papers,
           StorePaper(p) \/ UpdateStatus(p) \/ ResolveIssue(p)
    PROVE  \E st \in [Papers -> Statuses \cup {"absent"}], er \in SUBSET Papers :
              Edit(st, er) /\ \A p2 \in er : st[p2] # "absent"
<1>1. status \in [Papers -> Statuses \cup {"absent"}] /\ errors \in SUBSET Papers
  BY DEF TypeOK
<1>2. \A p2 \in errors : status[p2] # "absent"
  BY DEF OpenInv
<1>3. "absent" \notin Statuses
  BY DEF Statuses
<1>4. CASE StorePaper(p)
  <2>1. PICK s \in Statuses, er \in {errors, errors \cup {p}} :
           Edit([status EXCEPT ![p] = s], er)
    BY <1>4 DEF StorePaper
  <2>2. [status EXCEPT ![p] = s] \in [Papers -> Statuses \cup {"absent"}]
    BY <1>1
  <2>3. er \in SUBSET Papers /\ \A p2 \in er : [status EXCEPT ![p] = s][p2] # "absent"
    BY <1>1, <1>2, <1>3
  <2> QED BY <2>1, <2>2, <2>3
<1>5. CASE UpdateStatus(p)
  <2>1. PICK s \in Statuses : Edit([status EXCEPT ![p] = s], errors)
    BY <1>5 DEF UpdateStatus
  <2>2. [status EXCEPT ![p] = s] \in [Papers -> Statuses \cup {"absent"}]
    BY <1>1
  <2>3. \A p2 \in errors : [status EXCEPT ![p] = s][p2] # "absent"
    BY <1>1, <1>2, <1>3
  <2> QED BY <1>1, <2>1, <2>2, <2>3
<1>6. CASE ResolveIssue(p)
  <2>1. Edit(status, errors \ {p})
    BY <1>6 DEF ResolveIssue
  <2> QED BY <1>1, <1>2, <2>1
<1> QED BY <1>4, <1>5, <1>6

LEMMA EditKeepsOpen ==
    ASSUME TypeOK, OpenInv, NEW st \in [Papers -> Statuses \cup {"absent"}],
           NEW er \in SUBSET Papers, Edit(st, er), \A p \in er : st[p] # "absent"
    PROVE  OpenInv'
<1>1. /\ status' = st /\ errors' = er /\ UNCHANGED <<request, pc>>
      /\ \A r \in Reports :
            /\ open'[r] = open[r] \cap (Unfinished(st) \cup er)
            /\ blocking'[r] =
                  {p \in blocking[r] \cap (Unfinished(st) \cup er) : Visible(r, p, st)}
  BY DEF Edit, taskVars
<1>2. \A p \in Unfinished(st) \cup er : st[p] # "absent"
  BY DEF Unfinished
<1>3. ASSUME NEW r \in Reports, pc[r] # "none", request[r].admin
      PROVE  open'[r] = blocking'[r]
  <2>1. \A p \in Unfinished(st) \cup er : Visible(r, p, st)
    BY <1>2, <1>3 DEF Visible
  <2>2. open[r] = blocking[r]
    BY <1>3 DEF OpenInv
  <2> QED BY <1>1, <2>1, <2>2
<1>4. ASSUME NEW r \in Reports, pc[r] = "none"
      PROVE  open'[r] = {} /\ blocking'[r] = {}
  <2>1. open[r] = {} /\ blocking[r] = {}
    BY <1>4 DEF OpenInv
  <2> QED BY <1>1, <2>1
<1> QED BY <1>1, <1>3, <1>4 DEF OpenInv

LEMMA TaskStepKeepsOpen ==
    ASSUME TypeOK, OpenInv, NEW r \in Reports,
           \/ \E q \in Requests : GenerateReport(r, q)
           \/ Crash(r) \/ Break(r) \/ Task(r)
    PROVE  OpenInv'
<1>1. /\ pc \in [Reports -> TaskStages \cup {"none", "commit", "done"}]
      /\ request \in [Reports -> Requests \cup {Nothing}]
      /\ open \in [Reports -> SUBSET Papers] /\ blocking \in [Reports -> SUBSET Papers]
  BY DEF TypeOK
<1>2. UNCHANGED <<status, errors>>
  BY DEF GenerateReport, Crash, Break, Task, Teardown, Start, CountErrors, CountPending,
         Gate, Fetch, Upload, Persist, Fail, paperVars
<1>3. ASSUME NEW q \in Requests, GenerateReport(r, q) PROVE OpenInv'
  <2>1. /\ pc[r] = "none" /\ UNCHANGED <<open, blocking>>
        /\ \A r2 \in Reports \ {r} : pc'[r2] = pc[r2] /\ request'[r2] = request[r2]
        /\ pc'[r] # "none"
    BY <1>1, <1>3 DEF GenerateReport, historyVars
  <2> QED BY <1>2, <2>1 DEF OpenInv
<1>4. CASE Start(r)
  <2> DEFINE S == Unfinished(status) \cup errors
  <2>1. /\ pc[r] = "start" /\ pc'[r] = "errors" /\ UNCHANGED request
        /\ open'[r] = S /\ blocking'[r] = {p \in S : Visible(r, p, status)}
        /\ \A r2 \in Reports \ {r} :
              pc'[r2] = pc[r2] /\ open'[r2] = open[r2] /\ blocking'[r2] = blocking[r2]
    BY <1>1, <1>4 DEF Start, Goto
  <2>2. \A p \in S : status[p] # "absent"
    BY DEF OpenInv, Unfinished
  <2>3. request[r].admin => open'[r] = blocking'[r]
    BY <2>1, <2>2 DEF Visible
  <2> HIDE DEF S
  <2> QED BY <1>2, <2>1, <2>3 DEF OpenInv
<1>5. ASSUME Crash(r) \/ Break(r) \/ (Task(r) /\ ~Start(r)) PROVE OpenInv'
  <2>1. UNCHANGED <<request, open, blocking>>
    BY <1>5 DEF Crash, Break, Task, Teardown, CountErrors, CountPending, Gate, Fetch,
                Upload, Persist, Fail, historyVars
  <2>2. \A r2 \in Reports : pc'[r2] = "none" <=> pc[r2] = "none"
    <3>1. CASE Crash(r) \/ Break(r)
      BY <1>1, <3>1 DEF Crash, Break, Raise, Goto, TaskStages
    <3>2. CASE Teardown(r) \/ Fetch(r) \/ Upload(r) \/ Fail(r)
      BY <1>1, <3>2 DEF Teardown, Fetch, Upload, Fail, Goto
    <3>3. CASE CountErrors(r) \/ CountPending(r)
      BY <1>1, <3>3 DEF CountErrors, CountPending, Gate, Goto
    <3>4. CASE Persist(r)
      BY <1>1, <3>4 DEF Persist, Raise, Goto
    <3> QED BY <1>5, <3>1, <3>2, <3>3, <3>4 DEF Task
  <2> QED BY <1>2, <2>1, <2>2 DEF OpenInv
<1> QED BY <1>3, <1>4, <1>5 DEF Task

\* For an admin the gate is as strict as its docstring: no report of an admin
\* gets past it while a paper has been unfinished, or in error, since the task
\* started.  What lets others past it is the visibility of drafts alone.
THEOREM AdminGateSoundness == Spec => []AdminGateHeld
<1>1. Init => OpenInv
  BY DEF Init, OpenInv
<1>2. TypeOK /\ OpenInv /\ [Next]_vars => OpenInv'
  <2> SUFFICES ASSUME TypeOK, OpenInv, [Next]_vars PROVE OpenInv'
    OBVIOUS
  <2>1. ASSUME NEW r \in Reports,
               \/ \E q \in Requests : GenerateReport(r, q)
               \/ Crash(r) \/ Break(r) \/ Task(r)
        PROVE  OpenInv'
    BY <2>1, TaskStepKeepsOpen
  <2>2. ASSUME NEW p \in Papers, StorePaper(p) \/ UpdateStatus(p) \/ ResolveIssue(p)
        PROVE  OpenInv'
    BY <2>2, EditStored, EditKeepsOpen
  <2>3. CASE Tick \/ UNCHANGED vars
    BY <2>3 DEF Tick, vars, OpenInv, paperVars, taskVars, historyVars
  <2> QED BY <2>1, <2>2, <2>3, Zenon DEF Next
<1>3. OpenInv /\ GateHeld /\ TypeOK /\ IndInv => AdminGateHeld
  BY DEF OpenInv, GateHeld, AdminGateHeld, Gated, IndInv, ProgressInv
<1> QED BY <1>1, <1>2, <1>3, TypeCorrectness, GateSoundness, SpecInv, PTL DEF Spec

=============================================================================
