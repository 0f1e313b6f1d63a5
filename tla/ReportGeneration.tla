-------------------------- MODULE ReportGeneration ---------------------------
(***************************************************************************)
(* Module 6's report generation (src/module6-reports/app): the handler of  *)
(* POST /reports/generate inserts a row of generated_reports and leaves    *)
(* the work to a background task, ReportService.run_generation:            *)
(*                                                                         *)
(*    start    UPDATE the row to GENERATING, COMMIT                        *)
(*    errors   the compliance gate's first count: unresolved errors        *)
(*    pending  its second count: papers still PENDING_REVIEW or DRAFT      *)
(*    fetch    SELECT the PUBLISHED papers and render them                 *)
(*    upload   checksum; put the file under a key with the second in it    *)
(*    persist  UPDATE to COMPLETED, INSERT checksum and audit rows, COMMIT *)
(*    fail     in a session of its own: UPDATE to FAILED                   *)
(*                                                                         *)
(* Every statement is READ COMMITTED: it has a snapshot of its own, and    *)
(* module 4 edits papers and issues between any two.  All of it runs under *)
(* module 4's row level security, whose context lasts one transaction.     *)
(*                                                                         *)
(* The handler's INSERT is committed by the teardown of get_db.  fastapi   *)
(* 0.104.1, which requirements.txt pins, tears down after the background   *)
(* tasks; run_generation's docstring takes it to come before ("the         *)
(* request-scoped one is gone by the time this runs").  commitFirst, fixed *)
(* in Init, is that order.                                                 *)
(***************************************************************************)
EXTENDS Integers, FiniteSets

CONSTANTS
    Reports,      \* report ids
    Papers,       \* the papers of one department and academic year
    Faculties,
    FacultyOf,    \* the faculty of every paper
    Nothing,      \* NULL
    Requests,     \* what may be asked for: members of ReportRequests
    MaxSeconds,   \* bound: seconds that pass
    MaxEdits,     \* bound: edits of papers by module 4
    MaxFaults     \* bound: failing calls and crashes

\* What the task needs of a request: the prefix and suffix of its S3 key, the
\* faculty of a FACULTY_PROFILE, and whether row level security treats its
\* user as an admin.
ReportRequests ==
    [file : {"criteria_iii.pdf", "criteria_iii.xlsx"}, faculty : {Nothing},
     admin : BOOLEAN]
      \cup [file : {"faculty_profile.pdf"}, faculty : Faculties, admin : BOOLEAN]

ASSUME RequestsAssumption == Requests \subseteq ReportRequests
ASSUME FacultyOfAssumption == FacultyOf \in [Papers -> Faculties]
ASSUME ReportBoundsAssumption ==
    /\ MaxSeconds \in Nat
    /\ MaxEdits \in Nat
    /\ MaxFaults \in Nat

Statuses   == {"DRAFT", "PENDING_REVIEW", "PUBLISHED", "REJECTED"}
RowStates  == {"none", "uncommitted", "PENDING", "GENERATING", "COMPLETED", "FAILED"}
TaskStages == {"start", "errors", "pending", "fetch", "upload", "persist", "fail"}

\* A rendered file: generated_at makes the bytes those of one report.
FileBytes == [report : Reports, papers : SUBSET Papers]

VARIABLES
    commitFirst,  \* get_db's teardown comes before the background task
    now,          \* the clock, in seconds
    \* module 4's tables
    status,       \* of every paper; "absent" before it is stored
    errors,       \* papers with an unresolved issue of severity error
    edits,        \* edits so far
    \* module 6's tables, and S3
    request,      \* what was asked for
    row,          \* status of the row of generated_reports
    s3uri,        \* its columns s3_uri ...
    checksum,     \* ... and checksum_sha256
    checksums,    \* rows of report_checksums
    audit,        \* reports with a row report_generated in audit_log
    objects,      \* the reports bucket
    \* the tasks
    pc,           \* stage; "none", "commit" (teardown first), "done"
    rls,          \* the transaction at hand has a row level security context
    file,         \* the rendered bytes
    stamp,        \* the second of the upload
    faults,       \* faults so far
    \* history
    open,         \* papers not yet final ever since the task started
    blocking      \* those among them the requester could see all the time

paperVars  == <<status, errors, edits>>
tableVars  == <<row, s3uri, checksum, checksums, audit>>
taskVars   == <<pc, rls, file, stamp>>
historyVars == <<open, blocking>>
vars == <<commitFirst, now, paperVars, request, tableVars, objects, taskVars,
          faults, historyVars>>

\* The S3 key: prefix, time to the second, suffix.
ObjectKeys == {q.file : q \in Requests} \X (0 .. MaxSeconds)
\* Mutant: without the timestamp.
ObjectKeyUntimed(r, second) == <<request[r].file, 0>>
ObjectKey(r, second) == <<request[r].file, second>>

ASSUME NothingAssumption ==
    /\ Nothing \notin ObjectKeys
    /\ Nothing \notin FileBytes

TypeOK ==
    /\ commitFirst \in BOOLEAN
    /\ now \in 0 .. MaxSeconds
    /\ status \in [Papers -> Statuses \cup {"absent"}]
    /\ errors \in SUBSET Papers
    /\ edits \in 0 .. MaxEdits
    /\ request \in [Reports -> Requests \cup {Nothing}]
    /\ row \in [Reports -> RowStates]
    /\ s3uri \in [Reports -> ObjectKeys \cup {Nothing}]
    /\ checksum \in [Reports -> FileBytes \cup {Nothing}]
    /\ checksums \in SUBSET (Reports \X FileBytes)
    /\ audit \in SUBSET Reports
    /\ objects \in [ObjectKeys -> FileBytes \cup {Nothing}]
    /\ pc \in [Reports -> TaskStages \cup {"none", "commit", "done"}]
    /\ rls \in [Reports -> BOOLEAN]
    /\ file \in [Reports -> FileBytes \cup {Nothing}]
    /\ stamp \in [Reports -> 0 .. MaxSeconds]
    /\ faults \in 0 .. MaxFaults
    /\ open \in [Reports -> SUBSET Papers]
    /\ blocking \in [Reports -> SUBSET Papers]
    /\ \A r \in Reports :
          /\ pc[r] # "none" => request[r] \in Requests
          /\ pc[r] \in {"upload", "persist"} => file[r] \in FileBytes

Init ==
    /\ commitFirst \in BOOLEAN
    /\ now = 0
    /\ status = [p \in Papers |-> "absent"]
    /\ errors = {}
    /\ edits = 0
    /\ request = [r \in Reports |-> Nothing]
    /\ row = [r \in Reports |-> "none"]
    /\ s3uri = [r \in Reports |-> Nothing]
    /\ checksum = [r \in Reports |-> Nothing]
    /\ checksums = {}
    /\ audit = {}
    /\ objects = [k \in ObjectKeys |-> Nothing]
    /\ pc = [r \in Reports |-> "none"]
    /\ rls = [r \in Reports |-> FALSE]
    /\ file = [r \in Reports |-> Nothing]
    /\ stamp = [r \in Reports |-> 0]
    /\ faults = 0
    /\ open = [r \in Reports |-> {}]
    /\ blocking = [r \in Reports |-> {}]

Fault ==
    /\ faults < MaxFaults
    /\ faults' = faults + 1

(***************************************************************************)
(* Module 4's side: papers, issues and their visibility.                   *)
(***************************************************************************)

\* The policy dept_scoped_paper_access within the report's department, for a
\* user whose id is not a faculty id.
Visible(r, p, st) ==
    /\ st[p] # "absent"
    /\ request[r].admin \/ st[p] # "DRAFT"

Unfinished(st) == {p \in Papers : st[p] \in {"PENDING_REVIEW", "DRAFT"}}

\* An edit of papers or issues, to the statuses st and the unresolved errors er.
Edit(st, er) ==
    /\ edits < MaxEdits
    /\ edits' = edits + 1
    /\ status' = st
    /\ errors' = er
    /\ open' = [r \in Reports |-> open[r] \cap (Unfinished(st) \cup er)]
    /\ blocking' =
          [r \in Reports |->
              {p \in blocking[r] \cap (Unfinished(st) \cup er) : Visible(r, p, st)}]
    /\ UNCHANGED <<commitFirst, now, request, tableVars, objects, taskVars, faults>>

StorePaper(p) ==
    /\ status[p] = "absent"
    /\ \E s \in Statuses, er \in {errors, errors \cup {p}} :
          Edit([status EXCEPT ![p] = s], er)

UpdateStatus(p) ==
    /\ status[p] # "absent"
    /\ \E s \in Statuses \ {status[p]} : Edit([status EXCEPT ![p] = s], errors)

ResolveIssue(p) ==
    /\ p \in errors
    /\ Edit(status, errors \ {p})

Tick ==
    /\ now < MaxSeconds
    /\ now' = now + 1
    /\ UNCHANGED <<commitFirst, paperVars, request, tableVars, objects, taskVars,
                   faults, historyVars>>

(***************************************************************************)
(* The request handler.                                                    *)
(***************************************************************************)

\* INSERT, in the request's transaction; the task is registered.
GenerateReport(r, q) ==
    /\ pc[r] = "none"
    /\ request' = [request EXCEPT ![r] = q]
    /\ row' = [row EXCEPT ![r] = "uncommitted"]
    /\ pc' = [pc EXCEPT ![r] = IF commitFirst THEN "commit" ELSE "start"]
    /\ UNCHANGED <<commitFirst, now, paperVars, s3uri, checksum, checksums, audit,
                   objects, rls, file, stamp, faults, historyVars>>

\* get_db after its yield: COMMIT.
Teardown(r) ==
    /\ row[r] = "uncommitted"
    /\ pc[r] \in {"commit", "done"}
    /\ row' = [row EXCEPT ![r] = "PENDING"]
    /\ pc' = [pc EXCEPT ![r] = IF pc[r] = "commit" THEN "start" ELSE "done"]
    /\ UNCHANGED <<commitFirst, now, paperVars, request, s3uri, checksum, checksums,
                   audit, objects, rls, file, stamp, faults, historyVars>>

\* The process dies: its transaction is rolled back, its task is gone.
Crash(r) ==
    /\ pc[r] # "none"
    /\ pc[r] # "done" \/ row[r] = "uncommitted"
    /\ Fault
    /\ pc' = [pc EXCEPT ![r] = "done"]
    /\ row' = [row EXCEPT ![r] = IF @ = "uncommitted" THEN "none" ELSE @]
    /\ UNCHANGED <<commitFirst, now, paperVars, request, s3uri, checksum, checksums,
                   audit, objects, rls, file, stamp, historyVars>>

(***************************************************************************)
(* run_generation.                                                         *)
(***************************************************************************)

\* Other sessions see the row: an UPDATE finds it, a foreign key may refer to it.
Committed(r) == row[r] \notin {"none", "uncommitted"}

Goto(r, stage) == pc' = [pc EXCEPT ![r] = stage]

\* A statement raises: the except branch.
Raise(r) == Fault /\ Goto(r, "fail")

\* Mutant: the context is not set again after the commit.
StartOnce(r) ==
    /\ pc[r] = "start"
    /\ row' = [row EXCEPT ![r] = IF Committed(r) THEN "GENERATING" ELSE @]
    /\ rls' = [rls EXCEPT ![r] = FALSE]
    /\ open' = [open EXCEPT ![r] = Unfinished(status) \cup errors]
    /\ blocking' = [blocking EXCEPT ![r] =
                       {p \in Unfinished(status) \cup errors : Visible(r, p, status)}]
    /\ Goto(r, "errors")
    /\ UNCHANGED <<commitFirst, now, paperVars, request, s3uri, checksum, checksums,
                   audit, objects, file, stamp, faults>>

\* UPDATE, COMMIT, and set_rls_context again for the transaction that follows.
Start(r) ==
    /\ pc[r] = "start"
    /\ row' = [row EXCEPT ![r] = IF Committed(r) THEN "GENERATING" ELSE @]
    /\ rls' = [rls EXCEPT ![r] = TRUE]
    /\ open' = [open EXCEPT ![r] = Unfinished(status) \cup errors]
    /\ blocking' = [blocking EXCEPT ![r] =
                       {p \in Unfinished(status) \cup errors : Visible(r, p, status)}]
    /\ Goto(r, "errors")
    /\ UNCHANGED <<commitFirst, now, paperVars, request, s3uri, checksum, checksums,
                   audit, objects, file, stamp, faults>>

\* The rows a query of the task sees among the papers S.
Seen(r, S) == {p \in S : rls[r] /\ Visible(r, p, status)}

\* The compliance gate's two counts, each a statement.
Gate(r, stage, S, next) ==
    /\ pc[r] = stage
    /\ Goto(r, IF Seen(r, S) = {} THEN next ELSE "fail")
    /\ UNCHANGED <<commitFirst, now, paperVars, request, tableVars, objects, rls, file,
                   stamp, faults, historyVars>>

\* Mutant: papers that are still a DRAFT do not count.
CountPendingNoDraft(r) ==
    Gate(r, "pending", {p \in Papers : status[p] = "PENDING_REVIEW"}, "fetch")

CountErrors(r)  == Gate(r, "errors", errors, "pending")
CountPending(r) == Gate(r, "pending", Unfinished(status), "fetch")

InScope(r, p) == request[r].faculty \in {Nothing, FacultyOf[p]}

Fetch(r) ==
    /\ pc[r] = "fetch"
    /\ LET published == Seen(r, {p \in Papers : status[p] = "PUBLISHED" /\ InScope(r, p)})
       IN  file' = [file EXCEPT ![r] = [report |-> r, papers |-> published]]
    /\ Goto(r, "upload")
    /\ UNCHANGED <<commitFirst, now, paperVars, request, tableVars, objects, rls,
                   stamp, faults, historyVars>>

\* Mutant: a failed upload is logged, and its URI returned all the same.
UploadSwallows(r) ==
    /\ pc[r] = "upload"
    /\ \/ /\ objects' = [objects EXCEPT ![ObjectKey(r, now)] = file[r]]
          /\ UNCHANGED faults
       \/ Fault /\ UNCHANGED objects
    /\ stamp' = [stamp EXCEPT ![r] = now]
    /\ Goto(r, "persist")
    /\ UNCHANGED <<commitFirst, now, paperVars, request, tableVars, rls, file,
                   historyVars>>

Upload(r) ==
    /\ pc[r] = "upload"
    /\ objects' = [objects EXCEPT ![ObjectKey(r, now)] = file[r]]
    /\ stamp' = [stamp EXCEPT ![r] = now]
    /\ Goto(r, "persist")
    /\ UNCHANGED <<commitFirst, now, paperVars, request, tableVars, rls, file, faults,
                   historyVars>>

\* One transaction.  Without the row, the UPDATE finds nothing and the checksum's
\* foreign key raises.  The commit's reply may be lost.
Persist(r) ==
    /\ pc[r] = "persist"
    /\ IF Committed(r)
       THEN /\ row' = [row EXCEPT ![r] = "COMPLETED"]
            /\ s3uri' = [s3uri EXCEPT ![r] = ObjectKey(r, stamp[r])]
            /\ checksum' = [checksum EXCEPT ![r] = file[r]]
            /\ checksums' = checksums \cup {<<r, file[r]>>}
            /\ audit' = audit \cup {r}
            /\ \/ Goto(r, "done") /\ UNCHANGED faults
               \/ Raise(r)
       ELSE Goto(r, "fail") /\ UNCHANGED <<tableVars, faults>>
    /\ UNCHANGED <<commitFirst, now, paperVars, request, objects, rls, file, stamp,
                   historyVars>>

\* A statement before the last commit raises; the session is rolled back.
Break(r) ==
    /\ pc[r] \in TaskStages \ {"fail"}
    /\ Raise(r)
    /\ UNCHANGED <<commitFirst, now, paperVars, request, tableVars, objects, rls, file,
                   stamp, historyVars>>

\* Mutant: the UPDATE of the fresh session is never committed.
FailUncommitted(r) ==
    /\ pc[r] = "fail"
    /\ Goto(r, "done")
    /\ UNCHANGED <<commitFirst, now, paperVars, request, tableVars, objects, rls, file,
                   stamp, faults, historyVars>>

\* Both except branches; the fresh session may fail as well.
Fail(r) ==
    /\ pc[r] = "fail"
    /\ \/ /\ row' = [row EXCEPT ![r] = IF Committed(r) THEN "FAILED" ELSE @]
          /\ UNCHANGED faults
       \/ Fault /\ UNCHANGED row
    /\ Goto(r, "done")
    /\ UNCHANGED <<commitFirst, now, paperVars, request, s3uri, checksum, checksums,
                   audit, objects, rls, file, stamp, historyVars>>

Task(r) ==
    \/ Teardown(r)
    \/ Start(r)
    \/ CountErrors(r)
    \/ CountPending(r)
    \/ Fetch(r)
    \/ Upload(r)
    \/ Persist(r)
    \/ Fail(r)

Next ==
    \/ \E r \in Reports :
          \/ \E q \in Requests : GenerateReport(r, q)
          \/ Crash(r)
          \/ Break(r)
          \/ Task(r)
    \/ \E p \in Papers : StorePaper(p) \/ UpdateStatus(p) \/ ResolveIssue(p)
    \/ Tick

Spec == Init /\ [][Next]_vars

\* The event loop runs the handler's teardown and the task to their end.
FairSpec == Spec /\ \A r \in Reports : WF_vars(Task(r))

-----------------------------------------------------------------------------
(***************************************************************************)
(* Properties.                                                             *)
(***************************************************************************)

\* A COMPLETED report has everything download_report and an auditor rely on:
\* an object under its URI, a checksum row that repeats its checksum, and an
\* audit row, whichever call failed on the way.
CompletedIsBacked ==
    \A r \in Reports :
        row[r] = "COMPLETED" =>
            /\ s3uri[r] # Nothing /\ objects[s3uri[r]] # Nothing
            /\ <<r, checksum[r]>> \in checksums
            /\ r \in audit

\* "every report MUST have a verifiable checksum": the object under the URI of
\* a COMPLETED report is the one its checksum was taken from, unless another
\* report of the same kind was uploaded within the same second.
VerifiableUnlessSameSecond ==
    \A r \in Reports :
        row[r] = "COMPLETED" =>
            \/ objects[s3uri[r]] = checksum[r]
            \/ \E other \in Reports \ {r} :
                  pc[other] # "none" /\ stamp[other] = stamp[r] /\ request[other].file = request[r].file

\* The task is past the compliance gate.
Gated(r) == pc[r] \in {"fetch", "upload", "persist"} \/ row[r] = "COMPLETED"

\* The gate: no paper the requester's row level security shows was unfinished,
\* or had an unresolved error, during all of the time the task has run, gate
\* included.  The commit between the UPDATE and the gate does not blind it.
GateHeld == \A r \in Reports : Gated(r) => blocking[r] = {}

\* For an admin, from whom no policy hides a DRAFT, the gate is what its docstring
\* says: nothing the report covers was unfinished during all of the task.
AdminGateHeld == \A r \in Reports : Gated(r) /\ request[r].admin => open[r] = {}

\* The gate as its docstring has it: "No papers in scope still sitting in
\* PENDING_REVIEW or DRAFT", whoever asks.
NoUnfinishedPaper == \A r \in Reports : Gated(r) => open[r] = {}

\* With the teardown first, every requested report ends COMPLETED or FAILED,
\* unless a call failed or a process died.
EventuallyFinal ==
    \A r \in Reports :
        (row[r] # "none" /\ commitFirst) ~>
            (row[r] \in {"COMPLETED", "FAILED"} \/ faults > 0)

\* run_generation "updates the generated_reports row's status regardless of
\* success or failure": no report stays PENDING for ever.
NeverStuck ==
    \A r \in Reports :
        (row[r] # "none") ~> (row[r] \in {"COMPLETED", "FAILED"} \/ faults > 0)
=============================================================================
