----------------------------- MODULE PaperStore ------------------------------
(***************************************************************************)
(* Module 4's tables and the transactions that write them                  *)
(* (src/module4-storage): papers, paper_versions, validation_issues and    *)
(* audit_log of PostgreSQL, the row level security policy on papers, the   *)
(* triggers, the REST handlers POST and PATCH /papers and PATCH            *)
(* /issues/.../resolve, and the consumer's insert.                         *)
(*                                                                         *)
(* A handler is one transaction, committed by the teardown of get_db and   *)
(* READ COMMITTED: every statement sees what was committed when it starts. *)
(* An UPDATE locks its row.  One that finds the row locked waits and then  *)
(* looks at the row again as it was committed, the policy included.        *)
(* Triggers run in the transaction that fires them and with its identity.  *)
(* An INSERT shows to nobody and waits for nobody before its commit, so    *)
(* that Create makes it in one step with the lookup before it.             *)
(*                                                                         *)
(* The role the service connects as is bound by the policy, as the         *)
(* migration's FORCE ROW LEVEL SECURITY means it to be.                    *)
(***************************************************************************)
EXTENDS Integers, Sequences, FiniteSets

CONSTANTS
    MaxPapers,     \* bound: paper_ids
    Keys,          \* ingestion_idempotency_keys
    Departments,
    Titles,
    Users,         \* values of X-User-Id, and the consumer; some are faculty ids
    DepartmentOf,  \* X-Department-Code of a user
    RoleOf,        \* X-Role of a user; "system" is the consumer's
    Nothing,       \* NULL
    NewRows,       \* the papers POST and the consumer may insert
    Patches,       \* the bodies PATCH may carry
    Sessions       \* connections of the pool

\* paper_ids, which gen_random_uuid() hands out, in the order they are taken.
Papers == 1 .. MaxPapers

Roles    == {"faculty", "coordinator", "hod", "admin", "system_worker", "system"}
Statuses == {"DRAFT", "PENDING_REVIEW", "PUBLISHED", "REJECTED"}

\* A row of papers.  embedded is the title its embedding was computed from.
Rows ==
    [key : Keys, department : Departments, faculty : Users, status : Statuses,
     title : Titles, embedded : Titles \cup {Nothing}]

\* A PaperUpdate: what it leaves out is Nothing.
PaperUpdates ==
    [status : Statuses \cup {Nothing}, title : Titles \cup {Nothing},
     embedded : Titles \cup {Nothing}]

ASSUME IdentityAssumption ==
    /\ MaxPapers \in Nat
    /\ DepartmentOf \in [Users -> Departments]
    /\ RoleOf \in [Users -> Roles]
ASSUME InputsAssumption ==
    /\ NewRows \subseteq Rows
    /\ Patches \subseteq PaperUpdates
ASSUME StoreAssumption ==
    /\ IsFiniteSet(Sessions)
    /\ Nothing \notin Rows

VARIABLES
    rows,        \* papers, as committed
    versions,    \* paper_versions of every paper, in the order of their inserts
    audit,       \* audit_log of every paper, likewise
    issue,       \* a paper's validation issue: "open" or "resolved"
    tx,          \* the transaction of every session
    commits,     \* committed transactions so far
    writesLeft   \* bound: transactions that may still begin

storeVars == <<rows, versions, audit, issue, tx, commits, writesLeft>>

Stored == {p \in Papers : rows[p] # Nothing}

\* app.current_user_id: set_admin_context makes it 'system'.
ActorOf(u) == IF RoleOf[u] = "admin" THEN "system" ELSE u

Actors == Users \cup {"system"}

Versions ==
    [number : Nat \ {0}, by : Actors, before : Rows \cup {Nothing}, after : Rows]

Entries ==
    [action : {"paper_created", "paper_updated"}, by : Actors, status : Statuses]

\* Where a transaction is: its UPDATE is to lock the row, or all is written.
Idle == [stage |-> "idle"]
Transactions ==
    {Idle}
      \cup [stage : {"update"}, user : Users, paper : Papers, patch : Patches]
      \cup [stage : {"written"}, user : Users, paper : Papers, version : Versions,
            flagged : BOOLEAN]
      \cup [stage : {"resolved"}, user : Users, paper : Papers]

(***************************************************************************)
(* Row level security and the locks                                        *)
(***************************************************************************)

\* dept_scoped_paper_access: what a user sees, and may turn a row into.
Visible(u, row) ==
    \/ RoleOf[u] = "admin"
    \/ /\ row.department = DepartmentOf[u]
       /\ row.status = "DRAFT" => row.faculty = u

Sees(u, p) == rows[p] # Nothing /\ Visible(u, rows[p])

\* Mutant: read, change and write back without a lock.
LockedNever(p) == FALSE
Locked(p) == \E s \in Sessions : tx[s].stage = "written" /\ tx[s].paper = p

\* Issues have row locks of their own.
IssueLocked(p) == \E s \in Sessions : tx[s].stage = "resolved" /\ tx[s].paper = p

Taken(p) == rows[p] # Nothing \/ \E s \in Sessions : tx[s] # Idle /\ tx[s].paper = p
Fresh(p) == ~ Taken(p) /\ \A p2 \in Papers : p2 < p => Taken(p2)

(***************************************************************************)
(* The handlers.  What answers 401, 404 or 409 before it writes changes    *)
(* nothing and is no step.                                                 *)
(***************************************************************************)

\* A connection is free.
Ready(s) == tx[s] = Idle /\ writesLeft > 0

\* A handler begins its transaction and runs it up to the stage t.
Begin(s, t) ==
    /\ writesLeft' = writesLeft - 1
    /\ tx' = [tx EXCEPT ![s] = t]
    /\ UNCHANGED <<rows, versions, audit, issue, commits>>

Goto(s, t) ==
    /\ tx' = [tx EXCEPT ![s] = t]
    /\ UNCHANGED <<rows, versions, audit, issue, commits, writesLeft>>

\* The rows get_by_idempotency_key finds for a user.  One makes the caller
\* stop (409, or a message done with); scalar_one_or_none raises on two.
\* Mutant: no lookup.
FoundByKeyNever(u, key) == {}
FoundByKey(u, key) == {p \in Stored : rows[p].key = key /\ Sees(u, p)}

\* trg_paper_initial_version.
FirstVersion(u, row) ==
    [number |-> 1, by |-> ActorOf(u), before |-> Nothing, after |-> row]

\* upsert_on_conflict_ignore and the consumer's fence and insert, which adds
\* the payload's validation issues; the policy is checked on the new row too.
Create(s, u, p, row, flagged) ==
    /\ Fresh(p)
    /\ FoundByKey(u, row.key) = {}
    /\ Visible(u, row)
    /\ flagged => RoleOf[u] = "system"
    /\ RoleOf[u] = "system" =>
          /\ row.status # "DRAFT"
          /\ row.embedded \in {Nothing, row.title}
          /\ row.status # "PUBLISHED" => row.embedded = Nothing
    /\ Begin(s, [stage |-> "written", user |-> u, paper |-> p,
                 version |-> FirstVersion(u, row), flagged |-> flagged])

\* The UPDATE of PaperRepository.update finds the row.
Update(s, u, p, patch) ==
    /\ RoleOf[u] # "system"
    /\ Sees(u, p)
    /\ Begin(s, [stage |-> "update", user |-> u, paper |-> p, patch |-> patch])

\* model_dump(exclude_none=True): what is left out keeps its value.
Patched(row, patch) ==
    [row EXCEPT
        !.status   = IF patch.status   = Nothing THEN @ ELSE patch.status,
        !.title    = IF patch.title    = Nothing THEN @ ELSE patch.title,
        !.embedded = IF patch.embedded = Nothing THEN @ ELSE patch.embedded]

\* COALESCE(MAX(version_number), 1) + 1, of the rows committed by now.
NextNumber(p) ==
    LET numbers == {versions[p][i].number : i \in DOMAIN versions[p]}
    IN  1 + (CHOOSE n \in numbers \cup {1} : \A m \in numbers : m <= n)

\* Once the UPDATE has the lock it looks at the row again.
\* Mutant: it relies on what it found before it waited.
StillSeesAlways(u, p) == rows[p] # Nothing
StillSees(u, p) == Sees(u, p)

\* The UPDATE gets the lock, writes the row, and trg_paper_versioning adds a
\* version.
LockRow(s) ==
    LET t   == tx[s]
        old == rows[t.paper]
        new == Patched(old, t.patch)
    IN  /\ t.stage = "update"
        /\ ~ Locked(t.paper)
        /\ StillSees(t.user, t.paper)
        /\ Visible(t.user, new)
        /\ Goto(s, [stage |-> "written", user |-> t.user, paper |-> t.paper,
                    version |-> [number |-> NextNumber(t.paper),
                                 by     |-> ActorOf(t.user),
                                 before |-> old,
                                 after  |-> new],
                    flagged |-> FALSE])

\* ValidationIssueRepository.resolve, which does not ask whether the issue is
\* resolved already; by whom is what the body says.  Issues are visible with
\* their paper.
Resolve(s, u, p) ==
    /\ RoleOf[u] # "system"
    /\ Sees(u, p)
    /\ issue[p] # Nothing
    /\ ~ IssueLocked(p)
    /\ Begin(s, [stage |-> "resolved", user |-> u, paper |-> p])

\* What trg_paper_audit writes for a version.
Entry(v) ==
    [action |-> IF v.before = Nothing THEN "paper_created" ELSE "paper_updated",
     by     |-> v.by,
     status |-> v.after.status]

CommitPaper(s) ==
    LET t == tx[s] IN
    /\ t.stage = "written"
    /\ rows' = [rows EXCEPT ![t.paper] = t.version.after]
    /\ versions' = [versions EXCEPT ![t.paper] = Append(@, t.version)]
    /\ audit' = [audit EXCEPT ![t.paper] = Append(@, Entry(t.version))]
    /\ issue' = IF t.flagged THEN [issue EXCEPT ![t.paper] = "open"] ELSE issue
    /\ tx' = [tx EXCEPT ![s] = Idle]
    /\ commits' = commits + 1
    /\ UNCHANGED writesLeft

CommitIssue(s) ==
    LET t == tx[s] IN
    /\ t.stage = "resolved"
    /\ issue' = [issue EXCEPT ![t.paper] = "resolved"]
    /\ tx' = [tx EXCEPT ![s] = Idle]
    /\ commits' = commits + 1
    /\ UNCHANGED <<rows, versions, audit, writesLeft>>

\* get_db's rollback: the row is gone (404), the policy refuses the new row, a
\* statement or the commit fails, or the process ends.
\* Mutant: the audit entry is written in a session of its own.
RollbackButAudit(s) ==
    LET t == tx[s] IN
    /\ t # Idle
    /\ tx' = [tx EXCEPT ![s] = Idle]
    /\ audit' = IF t.stage = "written"
                  THEN [audit EXCEPT ![t.paper] = Append(@, Entry(t.version))]
                  ELSE audit
    /\ UNCHANGED <<rows, versions, issue, commits, writesLeft>>
Rollback(s) ==
    /\ tx[s] # Idle
    /\ Goto(s, Idle)

StoreInit(writes) ==
    /\ rows = [p \in Papers |-> Nothing]
    /\ versions = [p \in Papers |-> <<>>]
    /\ audit = [p \in Papers |-> <<>>]
    /\ issue = [p \in Papers |-> Nothing]
    /\ tx = [s \in Sessions |-> Idle]
    /\ commits = 0
    /\ writesLeft = writes

StoreNext ==
    \E s \in Sessions :
        \/ /\ Ready(s)
           /\ \E u \in Users, p \in Papers :
                 \/ \E row \in NewRows, flagged \in BOOLEAN : Create(s, u, p, row, flagged)
                 \/ \E patch \in Patches : Update(s, u, p, patch)
                 \/ Resolve(s, u, p)
        \/ LockRow(s)
        \/ CommitPaper(s)
        \/ CommitIssue(s)
        \/ Rollback(s)

\* Module 4 alone, for any number of transactions.
StoreSpec == (\E writes \in Nat : StoreInit(writes)) /\ [][StoreNext]_storeVars

(***************************************************************************)
(* Properties                                                              *)
(***************************************************************************)

\* Types of the tables and of the transactions under way.
StoreTypeOK ==
    /\ rows \in [Papers -> Rows \cup {Nothing}]
    /\ versions \in [Papers -> Seq(Versions)]
    /\ audit \in [Papers -> Seq(Entries)]
    /\ issue \in [Papers -> {"open", "resolved", Nothing}]
    /\ tx \in [Sessions -> Transactions]
    /\ commits \in Nat
    /\ writesLeft \in Nat

\* However PATCHes of a paper overlap, wait for each other or fail, its
\* versions are numbered 1, 2, ... without a gap, each starts from the state
\* the one before it left, and the last one left the row as it is: no update
\* is lost and none goes unrecorded (create_paper_version's MAX + 1).
HistoryComplete ==
    \A p \in Papers :
        LET h == versions[p] IN
        /\ (rows[p] = Nothing) <=> (h = <<>>)
        /\ \A i \in DOMAIN h :
              /\ h[i].number = i
              /\ h[i].before = IF i = 1 THEN Nothing ELSE h[i - 1].after
        /\ h # <<>> => rows[p] = h[Len(h)].after

\* The audit log has one entry for every version, of the same writer and
\* status, and none for a transaction that was rolled back (log_paper_audit).
AuditMatches ==
    \A p \in Papers :
        /\ Len(audit[p]) = Len(versions[p])
        /\ \A i \in DOMAIN audit[p] : audit[p][i] = Entry(versions[p][i])

\* A DRAFT is changed by the faculty member it belongs to, or by an admin,
\* even by a PATCH that found it before it became one and waited for it.
DraftsKept ==
    \A p \in Papers : \A i \in DOMAIN versions[p] :
        LET v == versions[p][i] IN
        v.before # Nothing /\ v.before.status = "DRAFT"
            => v.by \in {v.before.faculty, "system"}

\* Rows of a key that no writer of their department ever failed to see.
OpenRows(key, d) ==
    {p \in Stored :
        /\ rows[p].key = key
        /\ rows[p].department = d
        /\ \A i \in DOMAIN versions[p] : versions[p][i].after.status # "DRAFT"}

\* The index on (key, created_at) lets a key have several rows, and create
\* looks before it inserts; writers that race may each insert one, and then
\* every later lookup raises.  A key gets no more such rows in a department
\* than there are writers at a time (upsert_on_conflict_ignore).
RowsPerKeyBounded ==
    \A key \in Keys, d \in Departments :
        Cardinality(OpenRows(key, d)) <= Cardinality(Sessions)
=============================================================================
