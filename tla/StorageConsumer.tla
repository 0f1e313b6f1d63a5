--------------------------- MODULE StorageConsumer ---------------------------
(***************************************************************************)
(* Module 4's Kafka consumer group (src/module4-storage/app/consumer.py):  *)
(* the processes that read the topics papers.{validated,review,failed} and *)
(* store one row of the table papers for every idempotency key they do not *)
(* find there.                                                             *)
(*                                                                         *)
(* A process handles one message at a time.  A message goes through the    *)
(* stages of _process_message, each of which talks to another service and  *)
(* can raise; a raise starts the function again (tenacity, MaxAttempts in  *)
(* all) and the last one abandons the message:                             *)
(*                                                                         *)
(*    dedup  parse the message, EXISTS m4:processed:<key> in Redis         *)
(*    fence  open a transaction, take the identity of the consumer in the  *)
(*           department of the message (set_rls_context), SELECT ... WHERE *)
(*           idempotency_key = <key>                                       *)
(*    store  build the row, INSERT it with its issues, COMMIT              *)
(*    mark   SETEX m4:processed:<key>                                      *)
(*    ack    consumer.commit(): the positions of ALL assigned partitions   *)
(*                                                                         *)
(* Row level security stands between the fence and the table: the policy   *)
(* shows the consumer the rows of the department it set, and no DRAFT.     *)
(*                                                                         *)
(* Kafka, Redis and PostgreSQL are the environment: the group coordinator  *)
(* reassigns partitions, markers expire, replies are lost, processes       *)
(* crash, and PATCH /papers makes a row a DRAFT, all of it between any two *)
(* steps.                                                                  *)
(***************************************************************************)
EXTENDS Integers, Sequences, FiniteSets

CONSTANTS
    Keys,          \* idempotency keys
    Departments,   \* department codes
    Partitions,    \* partitions of the three topics
    Consumers,     \* processes of the group module4-storage-worker
    NoConsumer,    \* "this partition is assigned to nobody"
    NoWork,        \* "this process holds no message"
    MaxAttempts,   \* stop_after_attempt(3)
    MaxMessages,   \* bound: messages published in a behaviour
    MaxFaults      \* bound: crashes, rebalances nobody needed, rows made a DRAFT

ASSUME ConsumersAssumption == IsFiniteSet(Consumers)
ASSUME NoConsumerAssumption == NoConsumer \notin Consumers
ASSUME NoWorkAssumption == NoWork \notin [part : Partitions, off : Nat \ {0}]
ASSUME BoundsAssumption ==
    /\ MaxAttempts \in Nat \ {0}
    /\ MaxMessages \in Nat
    /\ MaxFaults \in Nat

VARIABLES
    \* Kafka
    log,         \* the messages of every partition
    committed,   \* the group's committed offset: messages below it are done
    owner,       \* the process a partition is assigned to
    position,    \* messages of the partition its owner has been given
    \* PostgreSQL and Redis
    rows,        \* committed rows of papers, for every key in every department
    drafts,      \* those of them that are a DRAFT now
    processed,   \* keys whose marker m4:processed:<key> is in Redis
    \* the processes
    pc,          \* stage of the message at hand, or "idle"
    cur,         \* partition and offset of the message at hand
    attempt,     \* how often _process_message has been started for it
    \* history and bounds
    drafted,     \* those of rows that have been a DRAFT at some time
    gaveUp,      \* messages abandoned after MaxAttempts (the except branch)
    published,   \* messages published so far
    faults       \* faults so far

kafkaVars == <<log, committed, owner, position>>
tableVars == <<rows, drafts, drafted>>
storeVars == <<rows, drafts, drafted, processed>>
workVars  == <<pc, cur, attempt>>
vars == <<kafkaVars, storeVars, workVars, gaveUp, published, faults>>

(***************************************************************************)
(* A message names its idempotency key and the department its row is for:  *)
(* the faculty's at the time, which may be another when the e-mail is      *)
(* processed again.  "unstorable" is a payload that PaperCreate rejects (a *)
(* null title, year or faculty e-mail: what module 3 sends for a faculty   *)
(* it could not find); "malformed" is one that does not parse as           *)
(* KafkaPayload.                                                           *)
(***************************************************************************)
Kinds    == {"storable", "unstorable", "malformed"}
Messages == [key : Keys, department : Departments, kind : Kinds]
Stages   == {"dedup", "fence", "store", "mark", "ack"}
Work     == [part : Partitions, off : Nat \ {0}]

\* Where the rows of a message are: what the lookup of the fence ranges over.
Slots   == Keys \X Departments
Slot(m) == <<m.key, m.department>>

HasRow(k) == \E d \in Departments : rows[<<k, d>>] >= 1

Msg(c) == log[cur[c].part][cur[c].off]
Owned(c) == {p \in Partitions : owner[p] = c}
Idle == {c \in Consumers : pc[c] = "idle"}

TypeOK ==
    /\ log \in [Partitions -> Seq(Messages)]
    /\ committed \in [Partitions -> Nat]
    /\ owner \in [Partitions -> Consumers \cup {NoConsumer}]
    /\ position \in [Partitions -> Nat]
    /\ rows \in [Slots -> Nat]
    /\ drafts \in [Slots -> Nat]
    /\ drafted \in [Slots -> Nat]
    /\ processed \in SUBSET Keys
    /\ pc \in [Consumers -> Stages \cup {"idle"}]
    /\ cur \in [Consumers -> Work \cup {NoWork}]
    /\ attempt \in [Consumers -> 0 .. MaxAttempts]
    /\ gaveUp \in SUBSET Work
    /\ published \in 0 .. MaxMessages
    /\ faults \in 0 .. MaxFaults

Init ==
    /\ log = [p \in Partitions |-> <<>>]
    /\ committed = [p \in Partitions |-> 0]
    /\ owner = [p \in Partitions |-> NoConsumer]
    /\ position = [p \in Partitions |-> 0]
    /\ rows = [x \in Slots |-> 0]
    /\ drafts = [x \in Slots |-> 0]
    /\ drafted = [x \in Slots |-> 0]
    /\ processed = {}
    /\ pc = [c \in Consumers |-> "idle"]
    /\ cur = [c \in Consumers |-> NoWork]
    /\ attempt = [c \in Consumers |-> 0]
    /\ gaveUp = {}
    /\ published = 0
    /\ faults = 0

(***************************************************************************)
(* The environment.                                                        *)
(***************************************************************************)

\* Module 3 publishes a message.  The same key is published again when it
\* reprocesses an e-mail, possibly on another topic.
Publish(p, m) ==
    /\ published < MaxMessages
    /\ published' = published + 1
    /\ log' = [log EXCEPT ![p] = Append(@, m)]
    /\ UNCHANGED <<committed, owner, position, storeVars, workVars, gaveUp, faults>>

\* Mutant: auto.offset.reset = latest, a group with no offset starts at the end.
RebalanceLatest(assignment) ==
    /\ \E p \in Partitions : owner[p] = NoConsumer
    /\ owner' = assignment
    /\ position' = [p \in Partitions |->
                       IF committed[p] = 0 THEN Len(log[p]) ELSE committed[p]]
    /\ UNCHANGED <<log, committed, storeVars, workVars, gaveUp, published, faults>>

\* The coordinator hands every partition to a process that is in poll(): a
\* process that has kept the group waiting past its poll interval is left out.
\* Delivery resumes from the committed offsets.  A rebalance that some
\* partition needs is free, any other one counts as a fault.
Rebalance(assignment) ==
    /\ \/ /\ \E p \in Partitions : owner[p] = NoConsumer
          /\ UNCHANGED faults
       \/ /\ \A p \in Partitions : owner[p] # NoConsumer
          /\ assignment # owner
          /\ faults < MaxFaults
          /\ faults' = faults + 1
    /\ owner' = assignment
    /\ position' = committed
    /\ UNCHANGED <<log, committed, storeVars, workVars, gaveUp, published>>

\* A process dies; what it holds in memory is lost and its partitions are free.
Crash(c) ==
    /\ faults < MaxFaults
    /\ faults' = faults + 1
    /\ owner' = [p \in Partitions |-> IF owner[p] = c THEN NoConsumer ELSE owner[p]]
    /\ pc' = [pc EXCEPT ![c] = "idle"]
    /\ cur' = [cur EXCEPT ![c] = NoWork]
    /\ attempt' = [attempt EXCEPT ![c] = 0]
    /\ UNCHANGED <<log, committed, position, storeVars, gaveUp, published>>

\* REDIS_PROCESSED_TTL_SECONDS runs out, or Redis loses the marker.
Expire(k) ==
    /\ k \in processed
    /\ processed' = processed \ {k}
    /\ UNCHANGED <<kafkaVars, tableVars, workVars, gaveUp, published, faults>>

\* PATCH /papers makes a row a DRAFT, which an admin may do and the faculty
\* member whose paper it is.  A row that has not been one before counts as such.
Withdraw(x) ==
    /\ drafts[x] < rows[x]
    /\ faults < MaxFaults
    /\ faults' = faults + 1
    /\ drafts' = [drafts EXCEPT ![x] = @ + 1]
    /\ \/ /\ drafted[x] < rows[x]
          /\ drafted' = [drafted EXCEPT ![x] = @ + 1]
       \/ /\ drafts[x] < drafted[x]
          /\ UNCHANGED drafted
    /\ UNCHANGED <<kafkaVars, rows, processed, workVars, gaveUp, published>>

\* PATCH /papers gives a DRAFT another status.
Restore(x) ==
    /\ drafts[x] > 0
    /\ drafts' = [drafts EXCEPT ![x] = @ - 1]
    /\ UNCHANGED <<kafkaVars, rows, drafted, processed, workVars, gaveUp, published,
                   faults>>

(***************************************************************************)
(* run_consumer and _process_message.                                      *)
(***************************************************************************)

\* Mutant: enable.auto.commit, the offset is committed with the delivery.
PollAutoCommit(c, p) ==
    /\ pc[c] = "idle"
    /\ owner[p] = c
    /\ position[p] < Len(log[p])
    /\ position' = [position EXCEPT ![p] = @ + 1]
    /\ committed' = [committed EXCEPT ![p] = position[p] + 1]
    /\ cur' = [cur EXCEPT ![c] = [part |-> p, off |-> position[p] + 1]]
    /\ attempt' = [attempt EXCEPT ![c] = 1]
    /\ pc' = [pc EXCEPT ![c] = "dedup"]
    /\ UNCHANGED <<log, owner, storeVars, gaveUp, published, faults>>

\* consumer.poll returns a message: the position moves past it.
Poll(c, p) ==
    /\ pc[c] = "idle"
    /\ owner[p] = c
    /\ position[p] < Len(log[p])
    /\ position' = [position EXCEPT ![p] = @ + 1]
    /\ cur' = [cur EXCEPT ![c] = [part |-> p, off |-> position[p] + 1]]
    /\ attempt' = [attempt EXCEPT ![c] = 1]
    /\ pc' = [pc EXCEPT ![c] = "dedup"]
    /\ UNCHANGED <<log, committed, owner, storeVars, gaveUp, published, faults>>

\* consumer.poll times out: `continue`.
PollNothing(c) ==
    /\ pc[c] = "idle"
    /\ \A p \in Owned(c) : position[p] >= Len(log[p])
    /\ UNCHANGED vars

Goto(c, stage) ==
    /\ pc' = [pc EXCEPT ![c] = stage]
    /\ UNCHANGED <<cur, attempt>>

\* Back to poll(), with or without the message having been dealt with.
Release(c) ==
    /\ pc' = [pc EXCEPT ![c] = "idle"]
    /\ cur' = [cur EXCEPT ![c] = NoWork]
    /\ attempt' = [attempt EXCEPT ![c] = 0]

\* Mutant: the retry wraps the failing statement instead of _process_message.
RaiseResumes(c) ==
    IF attempt[c] < MaxAttempts
    THEN /\ attempt' = [attempt EXCEPT ![c] = @ + 1]
         /\ UNCHANGED <<pc, cur, gaveUp>>
    ELSE /\ Release(c)
         /\ gaveUp' = gaveUp \cup {cur[c]}

\* _process_message raises.  tenacity starts it again; the last raise reaches
\* run_consumer, whose except branch logs it and neither commits nor seeks.
Raise(c) ==
    IF attempt[c] < MaxAttempts
    THEN /\ pc' = [pc EXCEPT ![c] = "dedup"]
         /\ attempt' = [attempt EXCEPT ![c] = @ + 1]
         /\ UNCHANGED <<cur, gaveUp>>
    ELSE /\ Release(c)
         /\ gaveUp' = gaveUp \cup {cur[c]}

\* Mutant: the key is reserved in Redis before the row is written.
DedupReserves(c) ==
    /\ pc[c] = "dedup"
    /\ \/ /\ Msg(c).kind # "malformed"
          /\ Goto(c, IF Msg(c).key \in processed THEN "ack" ELSE "fence")
          /\ processed' = processed \cup {Msg(c).key}
          /\ UNCHANGED gaveUp
       \/ Raise(c) /\ UNCHANGED processed
    /\ UNCHANGED <<kafkaVars, tableVars, published, faults>>

\* Parse; EXISTS in Redis.  A hit returns at once and the message is committed.
Dedup(c) ==
    /\ pc[c] = "dedup"
    /\ \/ /\ Msg(c).kind # "malformed"
          /\ Goto(c, IF Msg(c).key \in processed THEN "ack" ELSE "fence")
          /\ UNCHANGED gaveUp
       \/ Raise(c)                     \* malformed, or Redis is unreachable
    /\ UNCHANGED <<kafkaVars, storeVars, published, faults>>

\* Mutant: only Redis is asked, the database fence is dropped.
FenceDropped(c) ==
    /\ pc[c] = "fence"
    /\ Goto(c, "store")
    /\ UNCHANGED <<kafkaVars, storeVars, gaveUp, published, faults>>

\* The rows dept_scoped_paper_access shows the consumer.
Seen(x) == rows[x] - drafts[x]

\* get_by_idempotency_key, under the policy: a DRAFT or a row of another
\* department is not found, and scalar_one_or_none() raises when two are.
Fence(c) ==
    /\ pc[c] = "fence"
    /\ \/ /\ Seen(Slot(Msg(c))) <= 1
          /\ Goto(c, IF Seen(Slot(Msg(c))) = 1 THEN "mark" ELSE "store")
          /\ UNCHANGED gaveUp
       \/ Raise(c)                     \* two rows, or the database fails
    /\ UNCHANGED <<kafkaVars, storeVars, published, faults>>

\* _build_paper_create, create, bulk_create and COMMIT, in one transaction.
\* The unique index is on (key, created_at): it does not stop a second row.
Store(c) ==
    /\ pc[c] = "store"
    /\ \/ /\ Msg(c).kind = "storable"
          /\ rows' = [rows EXCEPT ![Slot(Msg(c))] = @ + 1]
          /\ \/ Goto(c, "mark") /\ UNCHANGED gaveUp
             \/ Raise(c)               \* committed, but the reply was lost
       \/ /\ Raise(c)                  \* ValidationError, or rolled back
          /\ UNCHANGED rows
    /\ UNCHANGED <<kafkaVars, drafts, drafted, processed, published, faults>>

Mark(c) ==
    /\ pc[c] = "mark"
    /\ \/ /\ processed' = processed \cup {Msg(c).key}
          /\ Goto(c, "ack")
          /\ UNCHANGED gaveUp
       \/ Raise(c) /\ UNCHANGED processed
    /\ UNCHANGED <<kafkaVars, tableVars, published, faults>>

\* consumer.commit(asynchronous=False), without arguments: every partition
\* the process is assigned, at its position.  A process the group has left
\* out, or one that cannot reach the broker, gets a KafkaException: logged.
Ack(c) ==
    /\ pc[c] = "ack"
    /\ \/ committed' = [p \in Partitions |->
                           IF owner[p] = c THEN position[p] ELSE committed[p]]
       \/ UNCHANGED committed
    /\ Release(c)
    /\ UNCHANGED <<log, owner, position, storeVars, gaveUp, published, faults>>

Step(c) == Dedup(c) \/ Fence(c) \/ Store(c) \/ Mark(c) \/ Ack(c)

Next ==
    \/ \E p \in Partitions, m \in Messages : Publish(p, m)
    \/ \E assignment \in [Partitions -> Idle] : Rebalance(assignment)
    \/ \E k \in Keys : Expire(k)
    \/ \E x \in Slots : Withdraw(x) \/ Restore(x)
    \/ \E c \in Consumers :
          \/ Crash(c)
          \/ \E p \in Partitions : Poll(c, p)
          \/ PollNothing(c)
          \/ Step(c)

Spec == Init /\ [][Next]_vars

\* A running process keeps executing its loop, and the coordinator assigns a
\* free partition as soon as a process is in poll().
Fairness ==
    /\ \A c \in Consumers :
          /\ WF_vars(\E p \in Partitions : Poll(c, p))
          /\ WF_vars(Step(c))
    /\ WF_vars(/\ \E p \in Partitions : owner[p] = NoConsumer
               /\ \E assignment \in [Partitions -> Idle] : Rebalance(assignment))

FairSpec == Spec /\ Fairness

-----------------------------------------------------------------------------
(***************************************************************************)
(* Properties.                                                             *)
(***************************************************************************)

\* The message at offset o of p has its paper, or was abandoned.
Settled(p, o) ==
    \/ HasRow(log[p][o].key)
    \/ [part |-> p, off |-> o] \in gaveUp

\* The Redis fast path never skips a paper that is not in the database: a
\* marker m4:processed:<key> exists only once the row has been committed
\* (mark_processed comes after session.commit, or after the fence saw a row).
MarkerImpliesStored == \A k \in processed : HasRow(k)

\* The committed offset never passes a message that is still to be handled:
\* whatever crashes and rebalances come, everything below it has its row or
\* went through the except branch of run_consumer.
CommittedSettled ==
    \A p \in Partitions : \A o \in 1 .. committed[p] : Settled(p, o)

\* Redis marker and database fence together: in a department a key has at
\* most one row for every process of the group, besides the rows that have been
\* a DRAFT, however often it is published, redelivered or retried.  Each row
\* that was hidden from the fence may have let one more in.
RowsBounded == \A x \in Slots : rows[x] - drafted[x] <= Cardinality(Consumers)

\* The comment of the except branch: "Don't commit - message will be
\* redelivered".  A message that was abandoned and has no row is still above
\* the committed offset.
FailedStaysUncommitted ==
    \A w \in gaveUp :
        HasRow(log[w.part][w.off].key) \/ committed[w.part] < w.off

\* Whatever is published ends up stored or abandoned: no crash, rebalance,
\* lost reply or expired marker leaves a message undecided for ever.
EventuallySettled ==
    \A p \in Partitions, o \in 1 .. MaxMessages :
        (o <= Len(log[p])) ~> (o <= Len(log[p]) /\ Settled(p, o))

\* The group implements PaperIntake with a copy for every process in every
\* department, redelivery, retries and expired markers included, and one more
\* for every row that was made a DRAFT.
Offered ==
    {x \in Slots : \E p \in Partitions : \E o \in 1 .. Len(log[p]) :
                      Slot(log[p][o]) = x /\ log[p][o].kind = "storable"}
Intake == INSTANCE PaperIntake WITH
              Keys <- Slots, offered <- Offered, withdrawn <- drafted,
              Copies <- Cardinality(Consumers)
ImplementsIntake == Intake!Spec
=============================================================================
