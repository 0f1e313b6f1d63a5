--------------------------- MODULE ExtractionWorker ---------------------------
(***************************************************************************)
(* Module 3's worker group (src/module3-ai-worker/app/pipeline.py): it     *)
(* reads the events of module 2 from ingest.raw and sends each on to       *)
(* papers.validated, papers.review or papers.failed.                       *)
(*                                                                         *)
(* A worker takes one event through the steps of process_message:          *)
(*                                                                         *)
(*    dedup    EXISTS m3:processed:<key>; a Redis failure counts as "no";  *)
(*             then the schema, whose errors go to the DLQ                 *)
(*    verify   hashes of the text and of the stored file: errors to the DLQ*)
(*    lookup   the sender's record, from module 1's faculty directory      *)
(*    extract  the extraction cascade and the routing decision             *)
(*    publish  produce and flush                                           *)
(*    mark     SETEX m3:processed:<key>, whose failure is swallowed        *)
(*    ack      commit(message=msg), in the except branch of                *)
(*             run_worker_loop as well: an event that raises is given up   *)
(*                                                                         *)
(* A key is always in the same partition of ingest.raw, so that partitions *)
(* share nothing but the workers' time: the module is about one of them.   *)
(* What the cascade computes is the subject of ExtractionCascade.          *)
(***************************************************************************)
EXTENDS Integers, Sequences, FiniteSets

CONSTANTS
    Keys,            \* idempotency keys
    Sources,         \* the events module 2 may send: members of Events
    Workers,         \* processes of module 3's consumer group
    NoWorker,        \* "the partition is assigned to nobody"
    LookupAttempts,  \* settings.directory_max_retries
    MaxAttempts,     \* publish_to_topic's max_retries
    MaxEvents,       \* bound: events published by module 2
    MaxFaults        \* bound: failing calls, crashes, lost markers, rebalances

\* invalid:  rejected by IngestedPayload
\* tampered: a hash does not match
\* poison:   the cascade's result does not pass ExtractedMetadata
\* text:     without attachments
\* A sender the directory does not have and one it has as inactive are the same
\* to the routing: FACULTY_INVALID.
Forms    == {"invalid", "tampered", "poison", "text", "paper"}
Events   == [key : Keys, form : Forms]

ASSUME SourcesAssumption == Sources \subseteq Events
ASSUME WorkersAssumption == IsFiniteSet(Workers) /\ NoWorker \notin Workers
ASSUME WorkerBoundsAssumption ==
    /\ LookupAttempts \in Nat \ {0}
    /\ MaxAttempts \in Nat \ {0}
    /\ MaxEvents \in Nat
    /\ MaxFaults \in Nat

Statuses == {"active", "invalid"}
Topics   == {"validated", "review", "failed"}
Outputs  == Keys \X (Topics \cup {"dlq"})
Stages   == {"dedup", "verify", "lookup", "extract", "publish", "mark", "ack"}

VARIABLES
    faculty,     \* module 1's directory: status of every key's sender
    \* Kafka
    log,         \* the partition of ingest.raw
    committed,   \* the group's offset
    owner,       \* the worker it is assigned to
    position,    \* events its owner has been given
    out,         \* events on the topics, for every key and topic
    \* Redis
    marked,      \* keys whose marker m3:processed:<key> is there
    \* the workers
    buffer,      \* events in a worker's producer
    pc,          \* stage of the event at hand, or "idle"
    cur,         \* its offset, 0 if there is none
    attempt,     \* attempt of the call at hand
    context,     \* faculty_status of its enriched_context
    topic,       \* its target_topic
    \* history and bounds
    papers,      \* papers handed to a producer, of every key
    lost,        \* keys with an output that was never delivered
    abandoned,   \* offsets given up in the except branch
    faults       \* faults so far

kafkaVars == <<log, committed, owner, position>>
sendVars  == <<out, buffer, papers, lost>>
workVars  == <<pc, cur, attempt, context, topic>>
vars == <<faculty, kafkaVars, sendVars, marked, workVars, abandoned, faults>>

Event(w) == log[cur[w]]

TypeOK ==
    /\ faculty \in [Keys -> Statuses]
    /\ log \in Seq(Sources)
    /\ committed \in Nat
    /\ owner \in Workers \cup {NoWorker}
    /\ position \in Nat
    /\ out \in [Outputs -> Nat]
    /\ marked \in SUBSET Keys
    /\ buffer \in [Workers -> [Outputs -> Nat]]
    /\ pc \in [Workers -> Stages \cup {"idle"}]
    /\ cur \in [Workers -> Nat]
    /\ attempt \in [Workers -> 1 .. (LookupAttempts + MaxAttempts)]
    /\ context \in [Workers -> Statuses]
    /\ topic \in [Workers -> Topics]
    /\ papers \in [Keys -> Nat]
    /\ lost \in SUBSET Keys
    /\ abandoned \in SUBSET (Nat \ {0})
    /\ faults \in 0 .. MaxFaults
    /\ \A w \in Workers :
          /\ pc[w] # "idle" => cur[w] \in 1 .. Len(log)
          /\ pc[w] = "lookup" => attempt[w] <= LookupAttempts
          /\ pc[w] = "publish" => attempt[w] <= MaxAttempts

Init ==
    /\ faculty \in [Keys -> Statuses]
    /\ log = <<>>
    /\ committed = 0
    /\ owner = NoWorker
    /\ position = 0
    /\ out = [o \in Outputs |-> 0]
    /\ marked = {}
    /\ buffer = [w \in Workers |-> [o \in Outputs |-> 0]]
    /\ pc = [w \in Workers |-> "idle"]
    /\ cur = [w \in Workers |-> 0]
    /\ attempt = [w \in Workers |-> 1]
    /\ context = [w \in Workers |-> "invalid"]
    /\ topic = [w \in Workers |-> "failed"]
    /\ papers = [k \in Keys |-> 0]
    /\ lost = {}
    /\ abandoned = {}
    /\ faults = 0

Fault ==
    /\ faults < MaxFaults
    /\ faults' = faults + 1

(***************************************************************************)
(* The environment.                                                        *)
(***************************************************************************)

\* Module 2 publishes an event; it may publish a key twice.
Ingest(e) ==
    /\ Len(log) < MaxEvents
    /\ log' = Append(log, e)
    /\ UNCHANGED <<faculty, committed, owner, position, sendVars, marked, workVars,
                   abandoned, faults>>

\* Mutant: auto.offset.reset = latest.
RebalanceLatest(w) ==
    /\ owner = NoWorker
    /\ owner' = w
    /\ position' = IF committed = 0 THEN Len(log) ELSE committed
    /\ UNCHANGED <<faculty, log, committed, sendVars, marked, workVars, abandoned, faults>>

\* The coordinator assigns the partition to a worker that is in poll().  Taking
\* it from another one (max.poll.interval.ms) counts as a fault.
Rebalance(w) ==
    /\ pc[w] = "idle"
    /\ IF owner = NoWorker THEN UNCHANGED faults ELSE owner # w /\ Fault
    /\ owner' = w
    /\ position' = committed
    /\ UNCHANGED <<faculty, log, committed, sendVars, marked, workVars, abandoned>>

\* process_message and its local variables are gone.
Forget(w) ==
    /\ pc' = [pc EXCEPT ![w] = "idle"]
    /\ cur' = [cur EXCEPT ![w] = 0]
    /\ attempt' = [attempt EXCEPT ![w] = 1]
    /\ context' = [context EXCEPT ![w] = "invalid"]
    /\ topic' = [topic EXCEPT ![w] = "failed"]

\* A worker dies, with the events in its producer.
Crash(w) ==
    /\ Fault
    /\ owner' = IF owner = w THEN NoWorker ELSE owner
    /\ lost' = lost \cup {k \in Keys : \E t \in Topics \cup {"dlq"} : buffer[w][<<k, t>>] > 0}
    /\ buffer' = [buffer EXCEPT ![w] = [o \in Outputs |-> 0]]
    /\ Forget(w)
    /\ UNCHANGED <<faculty, log, committed, position, out, papers, marked, abandoned>>

\* redis_processed_ttl_seconds runs out, or Redis loses the marker.
Expire(k) ==
    /\ k \in marked
    /\ Fault
    /\ marked' = marked \ {k}
    /\ UNCHANGED <<faculty, kafkaVars, sendVars, workVars, abandoned>>

\* librdkafka delivers a buffered event, or gives up: _delivery_report logs it.
Deliver(w, o) ==
    /\ buffer[w][o] > 0
    /\ buffer' = [buffer EXCEPT ![w][o] = @ - 1]
    /\ \/ /\ out' = [out EXCEPT ![o] = @ + 1]
          /\ UNCHANGED <<lost, faults>>
       \/ /\ Fault
          /\ lost' = lost \cup {o[1]}
          /\ UNCHANGED out
    /\ UNCHANGED <<faculty, kafkaVars, papers, marked, workVars, abandoned>>

(***************************************************************************)
(* run_worker_loop and process_message.                                    *)
(***************************************************************************)

\* Mutant: enable.auto.commit, the offset is committed with the delivery.
PollAutoCommit(w) ==
    /\ pc[w] = "idle"
    /\ owner = w
    /\ position < Len(log)
    /\ position' = position + 1
    /\ committed' = position + 1
    /\ cur' = [cur EXCEPT ![w] = position + 1]
    /\ pc' = [pc EXCEPT ![w] = "dedup"]
    /\ UNCHANGED <<faculty, log, owner, sendVars, marked, attempt, context, topic,
                   abandoned, faults>>

Poll(w) ==
    /\ pc[w] = "idle"
    /\ owner = w
    /\ position < Len(log)
    /\ position' = position + 1
    /\ cur' = [cur EXCEPT ![w] = position + 1]
    /\ pc' = [pc EXCEPT ![w] = "dedup"]
    /\ UNCHANGED <<faculty, log, committed, owner, sendVars, marked, attempt, context,
                   topic, abandoned, faults>>

\* consumer.poll times out: `continue`.
PollNothing(w) ==
    /\ pc[w] = "idle"
    /\ owner = w => position >= Len(log)
    /\ UNCHANGED vars

Goto(w, stage) ==
    /\ pc' = [pc EXCEPT ![w] = stage]
    /\ attempt' = [attempt EXCEPT ![w] = 1]
    /\ UNCHANGED cur

Again(w) ==
    /\ attempt' = [attempt EXCEPT ![w] = @ + 1]
    /\ UNCHANGED <<pc, cur>>

\* produce succeeds; what flush leaves in the buffer is not looked at.
Produce(w, t) == buffer' = [buffer EXCEPT ![w][<<Event(w).key, t>>] = @ + 1]

\* publish_to_dlq: its own failure is logged.
DeadLetter(w) ==
    /\ \/ Produce(w, "dlq") /\ UNCHANGED lost
       \/ lost' = lost \cup {Event(w).key} /\ UNCHANGED buffer
    /\ Goto(w, "ack")
    /\ UNCHANGED <<out, papers>>

\* An exception reaches run_worker_loop: the event is given up and committed.
Raise(w) ==
    /\ abandoned' = abandoned \cup {cur[w]}
    /\ Goto(w, "ack")

\* Mutant: a payload that does not validate goes on.
ScreenNothing(w) == Goto(w, "verify") /\ UNCHANGED sendVars

\* The schema.
Screen(w) ==
    IF Event(w).form = "invalid"
    THEN DeadLetter(w)
    ELSE Goto(w, "verify") /\ UNCHANGED sendVars

Dedup(w) ==
    /\ pc[w] = "dedup"
    /\ IF Event(w).key \in marked
       THEN Goto(w, "ack") /\ UNCHANGED sendVars
       ELSE Screen(w)
    /\ UNCHANGED <<faculty, kafkaVars, marked, context, topic, abandoned, faults>>

\* Redis is unreachable: "assuming not processed".
DedupBlind(w) ==
    /\ pc[w] = "dedup"
    /\ Event(w).key \in marked
    /\ Fault
    /\ Screen(w)
    /\ UNCHANGED <<faculty, kafkaVars, marked, context, topic, abandoned>>

\* verify_integrity, or the hash of the text only when there is no attachment.
Verify(w) ==
    /\ pc[w] = "verify"
    /\ IF Event(w).form = "tampered"
       THEN DeadLetter(w)
       ELSE Goto(w, "lookup") /\ UNCHANGED sendVars
    /\ UNCHANGED <<faculty, kafkaVars, marked, context, topic, abandoned, faults>>

\* S3 fails: the same as a hash that does not match.
VerifyFails(w) ==
    /\ pc[w] = "verify"
    /\ Event(w).form # "text"
    /\ Fault
    /\ DeadLetter(w)
    /\ UNCHANGED <<faculty, kafkaVars, marked, context, topic, abandoned>>

\* get_faculty.
Lookup(w) ==
    /\ pc[w] = "lookup"
    /\ context' = [context EXCEPT ![w] = faculty[Event(w).key]]
    /\ Goto(w, "extract")
    /\ UNCHANGED <<faculty, kafkaVars, sendVars, marked, topic, abandoned, faults>>

\* Mutant: a single attempt.
LookupFailsOnce(w) ==
    /\ pc[w] = "lookup"
    /\ Fault
    /\ context' = [context EXCEPT ![w] = "invalid"]
    /\ Goto(w, "extract")
    /\ UNCHANGED <<faculty, kafkaVars, sendVars, marked, topic, abandoned>>

\* Module 1 does not answer, with a faculty or a token.  The last failure makes
\* the sender one that was not found.
LookupFails(w) ==
    /\ pc[w] = "lookup"
    /\ Fault
    /\ IF attempt[w] < LookupAttempts
       THEN Again(w) /\ UNCHANGED context
       ELSE /\ context' = [context EXCEPT ![w] = "invalid"]
            /\ Goto(w, "extract")
    /\ UNCHANGED <<faculty, kafkaVars, sendVars, marked, topic, abandoned>>

\* The topics compute_routing may choose: the cascade's score decides between
\* AUTO_SAVE and REVIEW_REQUIRED, and may differ from one call to the next.
Routes(w) ==
    IF context[w] # "active" THEN {"failed"}
    ELSE IF Event(w).form = "text" THEN {"review"}
    ELSE {"validated", "review"}

Extract(w) ==
    /\ pc[w] = "extract"
    /\ \/ /\ Event(w).form # "poison"
          /\ \E t \in Routes(w) : topic' = [topic EXCEPT ![w] = t]
          /\ Goto(w, "publish")
          /\ UNCHANGED <<abandoned, faults>>
       \/ /\ IF Event(w).form = "poison" THEN UNCHANGED faults ELSE Fault
          /\ Raise(w)
          /\ UNCHANGED topic
    /\ UNCHANGED <<faculty, kafkaVars, sendVars, marked, context>>

\* publish_to_topic, and the DLQ when its last attempt fails.
Publish(w) ==
    /\ pc[w] = "publish"
    /\ Produce(w, topic[w])
    /\ papers' = [papers EXCEPT ![Event(w).key] = @ + 1]
    /\ Goto(w, "mark")
    /\ UNCHANGED <<faculty, kafkaVars, out, lost, marked, context, topic, abandoned, faults>>

PublishRetry(w) ==
    /\ pc[w] = "publish"
    /\ attempt[w] < MaxAttempts
    /\ Fault
    /\ Again(w)
    /\ UNCHANGED <<faculty, kafkaVars, sendVars, marked, context, topic, abandoned>>

\* Mutant: the event in the DLQ counts as processed.
PublishGivesUpMarks(w) ==
    /\ pc[w] = "publish"
    /\ attempt[w] = MaxAttempts
    /\ Fault
    /\ Produce(w, "dlq")
    /\ Goto(w, "mark")
    /\ UNCHANGED <<faculty, kafkaVars, out, papers, lost, marked, context, topic, abandoned>>

PublishGivesUp(w) ==
    /\ pc[w] = "publish"
    /\ attempt[w] = MaxAttempts
    /\ Fault
    /\ DeadLetter(w)
    /\ UNCHANGED <<faculty, kafkaVars, marked, context, topic, abandoned>>

\* produce raises a BufferError, the producer's queue is full: it is not a
\* KafkaException, so that nothing is tried again.
PublishRaises(w) ==
    /\ pc[w] = "publish"
    /\ Fault
    /\ Raise(w)
    /\ UNCHANGED <<faculty, kafkaVars, sendVars, marked, context, topic>>

\* Mutant: the processed key is never written.
MarkNothing(w) ==
    /\ pc[w] = "mark"
    /\ Goto(w, "ack")
    /\ UNCHANGED <<faculty, kafkaVars, sendVars, marked, context, topic, abandoned, faults>>

Mark(w) ==
    /\ pc[w] = "mark"
    /\ \/ marked' = marked \cup {Event(w).key} /\ UNCHANGED faults
       \/ Fault /\ UNCHANGED marked
    /\ Goto(w, "ack")
    /\ UNCHANGED <<faculty, kafkaVars, sendVars, context, topic, abandoned>>

\* commit(message=msg) is asynchronous: the broker refuses it from a worker that
\* has lost the partition, and it may get lost.
Ack(w) ==
    /\ pc[w] = "ack"
    /\ \/ /\ committed' = IF owner = w THEN cur[w] ELSE committed
          /\ UNCHANGED faults
       \/ Fault /\ UNCHANGED committed
    /\ Forget(w)
    /\ UNCHANGED <<faculty, log, owner, position, sendVars, marked, abandoned>>

Step(w) ==
    \/ Dedup(w)
    \/ DedupBlind(w)
    \/ Verify(w)
    \/ VerifyFails(w)
    \/ Lookup(w)
    \/ LookupFails(w)
    \/ Extract(w)
    \/ Publish(w)
    \/ PublishRetry(w)
    \/ PublishGivesUp(w)
    \/ PublishRaises(w)
    \/ Mark(w)
    \/ Ack(w)

Next ==
    \/ \E e \in Sources : Ingest(e)
    \/ \E k \in Keys : Expire(k)
    \/ \E w \in Workers :
          \/ Rebalance(w)
          \/ Crash(w)
          \/ \E o \in Outputs : Deliver(w, o)
          \/ Poll(w)
          \/ PollNothing(w)
          \/ Step(w)

Spec == Init /\ [][Next]_vars

\* A worker keeps executing its loop, and a free partition gets assigned.
Fairness ==
    /\ \A w \in Workers : WF_vars(Poll(w) \/ Step(w))
    /\ WF_vars(owner = NoWorker /\ \E w \in Workers : Rebalance(w))

FairSpec == Spec /\ Fairness

-----------------------------------------------------------------------------
(***************************************************************************)
(* Properties.                                                             *)
(***************************************************************************)

\* An event of key k for topic t was handed to a producer, and is not lost.
Sent(k, t) == out[<<k, t>>] > 0 \/ \E w \in Workers : buffer[w][<<k, t>>] > 0

\* Event o was passed on, to a topic or the DLQ, or given up.
Handled(o) ==
    LET k == log[o].key
    IN  \/ papers[k] > 0
        \/ Sent(k, "dlq")
        \/ k \in lost
        \/ o \in abandoned

\* The group's offset never passes an event that is still to be handled,
\* whatever crashes and rebalances come between a delivery and its commit.
CommittedHandled == \A o \in 1 .. committed : Handled(o)

\* The marker that makes every later event of its key a duplicate is there only
\* if a paper was handed to a producer: neither the DLQ nor an exception sets it.
MarkedMeansPublished == \A k \in marked : papers[k] > 0

\* Deduplication: a key makes one paper, however often module 2 publishes it;
\* every further paper takes a fault of its own (a crash or rebalance before the
\* commit, a marker that is lost or cannot be read or written).
PapersNeedFaults == \A k \in Keys : papers[k] <= 1 + faults

\* BLOCK is for a faculty the directory does not have or that is inactive, and
\* only such a faculty's papers escape papers.validated and papers.review: it
\* takes LookupAttempts failing calls to block the paper of an active one.
BlockedOrActive ==
    \A k \in Keys :
        /\ Sent(k, "validated") \/ Sent(k, "review") => faculty[k] = "active"
        /\ Sent(k, "failed") => faculty[k] # "active" \/ faults >= LookupAttempts

\* The group implements PaperIntake: the papers of a key come one at a time, are
\* at most one and one more for every fault there may be, and none is made of an
\* event that fails the schema, a hash or the cascade's own schema, whatever is
\* redelivered or taken over halfway.
Offered ==
    {k \in Keys : \E o \in 1 .. Len(log) : log[o].key = k /\ log[o].form \in {"text", "paper"}}
Intake == INSTANCE PaperIntake WITH
              offered <- Offered, rows <- papers, withdrawn <- [k \in Keys |-> 0],
              Copies <- 1 + MaxFaults
ImplementsIntake == Intake!Spec

\* Every event that reaches ingest.raw is handled in the end.
EventuallyHandled ==
    \A o \in 1 .. MaxEvents : (o <= Len(log)) ~> (o <= Len(log) /\ Handled(o))
=============================================================================
