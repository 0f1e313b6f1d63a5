------------------------ MODULE ExtractionWorkerProofs -----------------------
(***************************************************************************)
(* Theorems about ExtractionWorker, for any number of keys and workers,    *)
(* any events, retries and faults.                                         *)
(***************************************************************************)
EXTENDS ExtractionWorker, FiniteSetTheorems, SequenceTheorems, TLAPS

-----------------------------------------------------------------------------
(***************************************************************************)
(* The inductive invariant.                                                *)
(***************************************************************************)

\* The key of the event at hand.
KeyOf(w) == Event(w).key

\* Offsets stay within the log; the owner has the last event it was given.
OffsetInv ==
    /\ committed <= Len(log)
    /\ position <= Len(log)
    /\ owner \in Workers /\ pc[owner] # "idle" => cur[owner] = position

\* What a worker may commit is handled, and so is all its partition's owner has
\* been given, but for the event at hand.
HandledInv ==
    /\ CommittedHandled
    /\ MarkedMeansPublished
    /\ \A w \in Workers :
          /\ pc[w] = "mark" => papers[KeyOf(w)] > 0
          /\ pc[w] = "ack" => Handled(cur[w])
    /\ owner \in Workers =>
          \A o \in 1 .. position : Handled(o) \/ (pc[owner] # "idle" /\ o = cur[owner])

\* The sender of the event at hand is an active faculty; module 1 has one that is
\* not, or has failed often enough.
Valid(w)     == faculty[KeyOf(w)] = "active"
Blockable(w) == faculty[KeyOf(w)] # "active" \/ faults >= LookupAttempts

\* What a worker takes the sender for.
RoutingInv ==
    /\ BlockedOrActive
    /\ \A w \in Workers :
          /\ pc[w] = "lookup" => faults + 1 >= attempt[w]
          /\ pc[w] = "extract" => IF context[w] = "active" THEN Valid(w) ELSE Blockable(w)
          /\ pc[w] = "publish" => IF topic[w] = "failed" THEN Blockable(w) ELSE Valid(w)

\* Stages before a paper is published, and those with the marker behind.
Passed == {"verify", "lookup", "extract", "publish"}
Ahead  == {"dedup"} \cup Passed

\* Workers that have lost the partition and may still publish a paper of key k.
Stale(k) == {w \in Workers : w # owner /\ pc[w] \in Ahead /\ KeyOf(w) = k}

\* The owner of the partition publishes no paper of key k without a fault: it
\* has just done so, or the marker is there and has not been passed.
Spent(k) ==
    \/ owner \in Workers /\ pc[owner] = "mark" /\ KeyOf(owner) = k
    \/ k \in marked /\ ~(owner \in Workers /\ pc[owner] \in Passed /\ KeyOf(owner) = k)

Due(k) == IF Spent(k) THEN 0 ELSE 1

\* The papers there are, and those that need no further fault.
CountInv == \A k \in Keys : papers[k] + Cardinality(Stale(k)) + Due(k) <= 1 + faults

IndInv == TypeOK /\ OffsetInv /\ HandledInv /\ RoutingInv /\ CountInv

-----------------------------------------------------------------------------
(***************************************************************************)
(* Type correctness, and what the helpers do.                              *)
(***************************************************************************)

LEMMA FaultType ==
    ASSUME TypeOK, Fault PROVE faults' \in 0 .. MaxFaults /\ faults' = faults + 1
BY WorkerBoundsAssumption DEF TypeOK, Fault

\* The event at hand.
LEMMA EventType ==
    ASSUME TypeOK, NEW w \in Workers, pc[w] # "idle"
    PROVE  /\ cur[w] \in 1 .. Len(log) /\ Event(w) \in Sources /\ KeyOf(w) \in Keys
           /\ Event(w).form \in Forms
<1>1. cur[w] \in 1 .. Len(log) /\ log \in Seq(Sources)
  BY DEF TypeOK
<1>2. Event(w) \in Sources
  BY <1>1 DEF Event
<1> QED BY <1>1, <1>2, SourcesAssumption DEF KeyOf, Events

\* produce puts one more event into the worker's buffer.
LEMMA ProduceType ==
    ASSUME TypeOK, NEW w \in Workers, pc[w] # "idle", NEW t \in Topics \cup {"dlq"},
           Produce(w, t)
    PROVE  /\ buffer' \in [Workers -> [Outputs -> Nat]]
           /\ buffer'[w][<<KeyOf(w), t>>] > 0
           /\ \A v \in Workers, o \in Outputs : buffer'[v][o] >= buffer[v][o]
           /\ \A v \in Workers, o \in Outputs :
                 o # <<KeyOf(w), t>> => buffer'[v][o] = buffer[v][o]
<1>1. buffer \in [Workers -> [Outputs -> Nat]]
  BY DEF TypeOK
<1>2. PICK o \in Outputs : o = <<KeyOf(w), t>>
  BY EventType DEF Outputs
<1>3. buffer' = [buffer EXCEPT ![w] = [buffer[w] EXCEPT ![o] = @ + 1]]
  BY <1>2 DEF Produce, KeyOf
<1>4. buffer[w][o] \in Nat /\ buffer[w] \in [Outputs -> Nat]
  BY <1>1
<1>5. [buffer[w] EXCEPT ![o] = @ + 1] \in [Outputs -> Nat]
  BY <1>4
<1>6. buffer' \in [Workers -> [Outputs -> Nat]]
  BY <1>1, <1>3, <1>5
<1>7. /\ buffer'[w][o] = buffer[w][o] + 1
      /\ \A v \in Workers, o2 \in Outputs :
            v # w \/ o2 # o => buffer'[v][o2] = buffer[v][o2]
  BY <1>1, <1>3, <1>4
<1>8. \A v \in Workers, o2 \in Outputs : buffer[v][o2] \in Nat
  BY <1>1
<1>9. buffer'[w][o] > 0 /\ buffer'[w][o] >= buffer[w][o]
  BY <1>4, <1>7
<1>10. \A v \in Workers, o2 \in Outputs : buffer'[v][o2] >= buffer[v][o2]
  BY <1>7, <1>8, <1>9
<1> QED BY <1>2, <1>6, <1>7, <1>9, <1>10

\* Delivery takes one event out of a buffer.
LEMMA DeliverType ==
    ASSUME TypeOK, NEW w \in Workers, NEW o \in Outputs, Deliver(w, o)
    PROVE  /\ buffer' \in [Workers -> [Outputs -> Nat]] /\ out' \in [Outputs -> Nat]
           /\ \A v \in Workers, o2 \in Outputs :
                 v # w \/ o2 # o => buffer'[v][o2] = buffer[v][o2]
           /\ \A o2 \in Outputs : out'[o2] > 0 => out[o2] > 0 \/ o2 = o
           /\ \A o2 \in Outputs : out[o2] > 0 => out'[o2] > 0
           /\ out'[o] > 0 \/ o[1] \in lost'
           /\ lost \subseteq lost' /\ lost' \subseteq lost \cup {o[1]}
           /\ \/ faults' = faults /\ UNCHANGED lost
              \/ Fault
<1>1. buffer \in [Workers -> [Outputs -> Nat]] /\ out \in [Outputs -> Nat]
  BY DEF TypeOK
<1>2. buffer' = [buffer EXCEPT ![w] = [buffer[w] EXCEPT ![o] = @ - 1]] /\ buffer[w][o] > 0
  BY DEF Deliver
<1>3. buffer[w][o] \in Nat /\ buffer[w] \in [Outputs -> Nat] /\ out[o] \in Nat
  BY <1>1
<1>4. [buffer[w] EXCEPT ![o] = @ - 1] \in [Outputs -> Nat]
  BY <1>2, <1>3
<1>5. buffer' \in [Workers -> [Outputs -> Nat]]
  BY <1>1, <1>2, <1>4
<1>6. \A v \in Workers, o2 \in Outputs :
         v # w \/ o2 # o => buffer'[v][o2] = buffer[v][o2]
  BY <1>1, <1>2
<1>7. CASE out' = [out EXCEPT ![o] = @ + 1] /\ UNCHANGED <<lost, faults>>
  <2>1. out'[o] = out[o] + 1 /\ \A o2 \in Outputs : o2 # o => out'[o2] = out[o2]
    BY <1>1, <1>7
  <2>2. out' \in [Outputs -> Nat] /\ out'[o] > 0
    BY <1>1, <1>3, <1>7, <2>1
  <2> QED BY <1>5, <1>6, <1>7, <2>1, <2>2
<1>8. CASE Fault /\ lost' = lost \cup {o[1]} /\ UNCHANGED out
  BY <1>1, <1>5, <1>6, <1>8
<1> QED BY <1>7, <1>8 DEF Deliver

\* publish_to_dlq.
LEMMA DeadLetterType ==
    ASSUME TypeOK, NEW w \in Workers, pc[w] # "idle", DeadLetter(w)
    PROVE  /\ buffer' \in [Workers -> [Outputs -> Nat]] /\ lost' \in SUBSET Keys
           /\ lost \subseteq lost'
           /\ \A v \in Workers, o \in Outputs : buffer'[v][o] >= buffer[v][o]
           /\ \A v \in Workers, o \in Outputs :
                 o[2] # "dlq" => buffer'[v][o] = buffer[v][o]
           /\ KeyOf(w) \in lost' \/ buffer'[w][<<KeyOf(w), "dlq">>] > 0
           /\ pc' = [pc EXCEPT ![w] = "ack"] /\ attempt' = [attempt EXCEPT ![w] = 1]
           /\ UNCHANGED <<cur, out, papers>>
<1>1. buffer \in [Workers -> [Outputs -> Nat]] /\ lost \in SUBSET Keys
  BY DEF TypeOK
<1>2. \A v \in Workers, o \in Outputs : buffer[v][o] \in Nat
  BY <1>1
<1>3. KeyOf(w) \in Keys
  BY EventType
<1>4. /\ pc' = [pc EXCEPT ![w] = "ack"] /\ attempt' = [attempt EXCEPT ![w] = 1]
      /\ UNCHANGED <<cur, out, papers>>
  BY DEF DeadLetter, Goto
<1>5. CASE Produce(w, "dlq") /\ UNCHANGED lost
  <2>1. /\ buffer' \in [Workers -> [Outputs -> Nat]]
        /\ buffer'[w][<<KeyOf(w), "dlq">>] > 0
        /\ \A v \in Workers, o \in Outputs : buffer'[v][o] >= buffer[v][o]
        /\ \A v \in Workers, o \in Outputs :
              o # <<KeyOf(w), "dlq">> => buffer'[v][o] = buffer[v][o]
    BY <1>5, ProduceType
  <2>2. \A o \in Outputs : o[2] # "dlq" => o # <<KeyOf(w), "dlq">>
    OBVIOUS
  <2> QED BY <1>1, <1>4, <1>5, <2>1, <2>2
<1>6. CASE lost' = lost \cup {KeyOf(w)} /\ UNCHANGED buffer
  <2>1. \A v \in Workers, o \in Outputs : buffer'[v][o] >= buffer[v][o]
    BY <1>2, <1>6
  <2> QED BY <1>1, <1>3, <1>4, <1>6, <2>1
<1> QED BY <1>5, <1>6 DEF DeadLetter, KeyOf

LEMMA InitTypeOK == Init => TypeOK
BY WorkerBoundsAssumption DEF Init, TypeOK, Statuses, Topics

LEMMA GotoType ==
    ASSUME TypeOK, NEW w \in Workers, NEW stage \in Stages, Goto(w, stage), pc[w] # "idle"
    PROVE  /\ pc' \in [Workers -> Stages \cup {"idle"}]
           /\ cur' \in [Workers -> Nat]
           /\ attempt' \in [Workers -> 1 .. (LookupAttempts + MaxAttempts)]
           /\ \A v \in Workers :
                 /\ pc'[v] # "idle" => cur'[v] \in 1 .. Len(log)
                 /\ pc'[v] = "lookup" => attempt'[v] <= LookupAttempts
                 /\ pc'[v] = "publish" => attempt'[v] <= MaxAttempts
<1>1. 1 \in 1 .. (LookupAttempts + MaxAttempts) /\ 1 <= LookupAttempts /\ 1 <= MaxAttempts
  BY WorkerBoundsAssumption
<1> QED BY <1>1 DEF TypeOK, Goto

LEMMA ForgetType ==
    ASSUME TypeOK, NEW w \in Workers, Forget(w)
    PROVE  /\ pc' \in [Workers -> Stages \cup {"idle"}]
           /\ cur' \in [Workers -> Nat]
           /\ attempt' \in [Workers -> 1 .. (LookupAttempts + MaxAttempts)]
           /\ context' \in [Workers -> Statuses] /\ topic' \in [Workers -> Topics]
           /\ \A v \in Workers :
                 /\ pc'[v] # "idle" => cur'[v] \in 1 .. Len(log)
                 /\ pc'[v] = "lookup" => attempt'[v] <= LookupAttempts
                 /\ pc'[v] = "publish" => attempt'[v] <= MaxAttempts
<1>1. 1 \in 1 .. (LookupAttempts + MaxAttempts)
  BY WorkerBoundsAssumption
<1> QED BY <1>1 DEF TypeOK, Forget, Statuses, Topics

\* Screen or DeadLetter: to the next stage, or to the DLQ.
LEMMA ScreenType ==
    ASSUME TypeOK, NEW w \in Workers, pc[w] # "idle",
           \/ Screen(w) \/ DeadLetter(w)
           \/ \E stage \in Stages : Goto(w, stage) /\ UNCHANGED sendVars
    PROVE  /\ buffer' \in [Workers -> [Outputs -> Nat]] /\ lost' \in SUBSET Keys
           /\ pc' \in [Workers -> Stages \cup {"idle"}]
           /\ cur' \in [Workers -> Nat]
           /\ attempt' \in [Workers -> 1 .. (LookupAttempts + MaxAttempts)]
           /\ \A v \in Workers :
                 /\ pc'[v] # "idle" => cur'[v] \in 1 .. Len(log)
                 /\ pc'[v] = "lookup" => attempt'[v] <= LookupAttempts
                 /\ pc'[v] = "publish" => attempt'[v] <= MaxAttempts
           /\ UNCHANGED <<out, papers>>
<1>1. "verify" \in Stages /\ "ack" \in Stages
  BY DEF Stages
<1>2. CASE \E stage \in Stages : Goto(w, stage) /\ UNCHANGED sendVars
  BY <1>2, GotoType DEF TypeOK, sendVars
<1>3. CASE DeadLetter(w)
  <2>1. Goto(w, "ack") /\ UNCHANGED <<out, papers>>
    BY <1>3 DEF DeadLetter
  <2> QED BY <1>1, <1>3, <2>1, GotoType, DeadLetterType
<1> QED BY <1>1, <1>2, <1>3 DEF Screen

LEMMA NextTypeOK == TypeOK /\ [Next]_vars => TypeOK'
<1> SUFFICES ASSUME TypeOK, [Next]_vars PROVE TypeOK'
  OBVIOUS
<1>0. /\ "ack" \in Stages /\ "mark" \in Stages /\ "publish" \in Stages
      /\ "extract" \in Stages /\ "lookup" \in Stages
      /\ \A w \in Workers : pc[w] # "idle" => cur[w] \in 1 .. Len(log)
      /\ Len(log) \in Nat
  BY DEF TypeOK, Stages
<1>1. ASSUME NEW e \in Sources, Ingest(e) PROVE TypeOK'
  <2>1. log' \in Seq(Sources) /\ Len(log') = Len(log) + 1
    BY <1>1, AppendProperties DEF TypeOK, Ingest
  <2>2. \A w \in Workers : pc[w] # "idle" => cur[w] \in 1 .. Len(log')
    BY <1>0, <2>1
  <2> QED BY <1>1, <2>1, <2>2 DEF TypeOK, Ingest, sendVars, workVars
<1>2. ASSUME NEW k \in Keys, Expire(k) PROVE TypeOK'
  BY <1>2, FaultType DEF TypeOK, Expire, kafkaVars, sendVars, workVars
<1>3. ASSUME NEW w \in Workers, Rebalance(w) PROVE TypeOK'
  <2>1. faults' \in 0 .. MaxFaults
    BY <1>3, FaultType DEF TypeOK, Rebalance
  <2> QED BY <1>3, <2>1 DEF TypeOK, Rebalance, sendVars, workVars
<1>4. ASSUME NEW w \in Workers, Crash(w) PROVE TypeOK'
  <2>1. faults' \in 0 .. MaxFaults /\ owner' \in Workers \cup {NoWorker}
    BY <1>4, FaultType DEF TypeOK, Crash
  <2>2. buffer' \in [Workers -> [Outputs -> Nat]] /\ lost' \in SUBSET Keys
    BY <1>4 DEF TypeOK, Crash
  <2> QED BY <1>4, <2>1, <2>2, ForgetType DEF TypeOK, Crash
<1>5. ASSUME NEW w \in Workers, NEW o \in Outputs, Deliver(w, o) PROVE TypeOK'
  <2>1. /\ buffer' \in [Workers -> [Outputs -> Nat]] /\ out' \in [Outputs -> Nat]
        /\ lost' \subseteq lost \cup {o[1]} /\ faults' \in 0 .. MaxFaults
    <3>1. faults' = faults \/ Fault
      BY <1>5, DeliverType
    <3> QED BY <1>5, <3>1, DeliverType, FaultType DEF TypeOK
  <2>2. o[1] \in Keys
    BY DEF Outputs
  <2>3. lost' \in SUBSET Keys
    BY <2>1, <2>2 DEF TypeOK
  <2> QED BY <1>5, <2>1, <2>3 DEF TypeOK, Deliver, kafkaVars, workVars
<1>6. ASSUME NEW w \in Workers, Poll(w) PROVE TypeOK'
  <2>1. position + 1 \in 1 .. Len(log)
    BY <1>0, <1>6 DEF TypeOK, Poll
  <2>2. /\ pc' = [pc EXCEPT ![w] = "dedup"] /\ cur' = [cur EXCEPT ![w] = position + 1]
        /\ position' \in Nat
    BY <1>6, <2>1 DEF Poll
  <2>3. pc' \in [Workers -> Stages \cup {"idle"}] /\ cur' \in [Workers -> Nat]
    BY <2>1, <2>2 DEF TypeOK, Stages
  <2>4. \A v \in Workers :
           /\ pc'[v] # "idle" => cur'[v] \in 1 .. Len(log)
           /\ pc'[v] = "lookup" => attempt[v] <= LookupAttempts
           /\ pc'[v] = "publish" => attempt[v] <= MaxAttempts
    BY <2>1, <2>2 DEF TypeOK
  <2> QED BY <1>6, <2>2, <2>3, <2>4 DEF TypeOK, Poll, sendVars
<1>7. ASSUME NEW w \in Workers, Dedup(w) \/ DedupBlind(w) \/ Verify(w) \/ VerifyFails(w)
                                \/ PublishGivesUp(w)
      PROVE  TypeOK'
  <2>1. pc[w] # "idle"
    BY <1>7 DEF Dedup, DedupBlind, Verify, VerifyFails, PublishGivesUp
  <2>2. \/ Screen(w) \/ DeadLetter(w)
        \/ \E stage \in Stages : Goto(w, stage) /\ UNCHANGED sendVars
    BY <1>0, <1>7 DEF Dedup, DedupBlind, Verify, VerifyFails, PublishGivesUp
  <2>3. faults' \in 0 .. MaxFaults
    BY <1>7, FaultType DEF TypeOK, Dedup, DedupBlind, Verify, VerifyFails, PublishGivesUp
  <2>4. UNCHANGED <<faculty, log, committed, owner, position, marked, context, topic,
                    abandoned>>
    BY <1>7 DEF Dedup, DedupBlind, Verify, VerifyFails, PublishGivesUp, kafkaVars
  <2> QED BY <2>1, <2>2, <2>3, <2>4, ScreenType DEF TypeOK
<1>8. ASSUME NEW w \in Workers, Lookup(w) PROVE TypeOK'
  <2>1. faculty[KeyOf(w)] \in Statuses
    BY <1>8, EventType DEF TypeOK, Lookup
  <2>2. context' \in [Workers -> Statuses]
    BY <1>8, <2>1 DEF TypeOK, Lookup, KeyOf
  <2>3. Goto(w, "extract") /\ pc[w] # "idle"
    BY <1>8 DEF Lookup
  <2> QED BY <1>0, <1>8, <2>2, <2>3, GotoType DEF TypeOK, Lookup, kafkaVars, sendVars
<1>9. ASSUME NEW w \in Workers, LookupFails(w) PROVE TypeOK'
  <2>1. faults' \in 0 .. MaxFaults /\ pc[w] = "lookup"
    BY <1>9, FaultType DEF LookupFails
  <2>2. CASE attempt[w] < LookupAttempts
    <3>1. attempt' = [attempt EXCEPT ![w] = @ + 1] /\ UNCHANGED <<pc, cur, context>>
      BY <1>9, <2>2 DEF LookupFails, Again
    <3>2. attempt[w] + 1 \in 1 .. (LookupAttempts + MaxAttempts)
      BY <2>2, WorkerBoundsAssumption DEF TypeOK
    <3>3. /\ attempt' \in [Workers -> 1 .. (LookupAttempts + MaxAttempts)]
          /\ attempt'[w] = attempt[w] + 1
          /\ \A v \in Workers : v # w => attempt'[v] = attempt[v]
      BY <3>1, <3>2 DEF TypeOK
    <3>4. attempt'[w] <= LookupAttempts
      BY <2>2, <3>3, WorkerBoundsAssumption DEF TypeOK
    <3> QED BY <1>9, <2>1, <3>1, <3>3, <3>4 DEF TypeOK, LookupFails, kafkaVars, sendVars
  <2>3. CASE ~(attempt[w] < LookupAttempts)
    <3>1. context' = [context EXCEPT ![w] = "invalid"] /\ Goto(w, "extract")
      BY <1>9, <2>3 DEF LookupFails
    <3>2. context' \in [Workers -> Statuses]
      BY <3>1 DEF TypeOK, Statuses
    <3> QED BY <1>0, <1>9, <2>1, <3>1, <3>2, GotoType
         DEF TypeOK, LookupFails, kafkaVars, sendVars
  <2> QED BY <2>2, <2>3
<1>10. ASSUME NEW w \in Workers, Extract(w) PROVE TypeOK'
  <2>1. faults' \in 0 .. MaxFaults
    BY <1>10, FaultType DEF TypeOK, Extract
  <2>2. topic' \in [Workers -> Topics]
    BY <1>10 DEF TypeOK, Extract, Routes, Topics
  <2>3. (Goto(w, "publish") \/ Goto(w, "ack")) /\ pc[w] = "extract"
    BY <1>10 DEF Extract, Raise
  <2>4. abandoned' \in SUBSET (Nat \ {0})
    <3>1. cur[w] \in Nat \ {0}
      BY <1>0, <2>3
    <3> QED BY <1>10, <3>1 DEF TypeOK, Extract, Raise
  <2> QED BY <1>0, <1>10, <2>1, <2>2, <2>3, <2>4, GotoType
       DEF TypeOK, Extract, kafkaVars, sendVars
<1>11. ASSUME NEW w \in Workers, Publish(w) PROVE TypeOK'
  <2>1. pc[w] = "publish" /\ topic[w] \in Topics /\ KeyOf(w) \in Keys
    BY <1>11, EventType DEF TypeOK, Publish
  <2>2. buffer' \in [Workers -> [Outputs -> Nat]]
    BY <1>11, <2>1, ProduceType DEF Publish
  <2>3. papers' \in [Keys -> Nat]
    BY <1>11, <2>1 DEF TypeOK, Publish, KeyOf
  <2> QED BY <1>0, <1>11, <2>1, <2>2, <2>3, GotoType DEF TypeOK, Publish, kafkaVars
<1>12. ASSUME NEW w \in Workers, PublishRetry(w) PROVE TypeOK'
  <2>1. faults' \in 0 .. MaxFaults /\ pc[w] = "publish" /\ attempt[w] < MaxAttempts
    BY <1>12, FaultType DEF PublishRetry
  <2>2. attempt' = [attempt EXCEPT ![w] = @ + 1] /\ UNCHANGED <<pc, cur>>
    BY <1>12 DEF PublishRetry, Again
  <2>3. attempt[w] + 1 \in 1 .. (LookupAttempts + MaxAttempts)
    BY <2>1, WorkerBoundsAssumption DEF TypeOK
  <2>4. /\ attempt' \in [Workers -> 1 .. (LookupAttempts + MaxAttempts)]
        /\ attempt'[w] = attempt[w] + 1
        /\ \A v \in Workers : v # w => attempt'[v] = attempt[v]
    BY <2>2, <2>3 DEF TypeOK
  <2>5. attempt'[w] <= MaxAttempts
    BY <2>1, <2>4, WorkerBoundsAssumption DEF TypeOK
  <2> QED BY <1>12, <2>1, <2>2, <2>4, <2>5 DEF TypeOK, PublishRetry, kafkaVars, sendVars
<1>13. ASSUME NEW w \in Workers, PublishRaises(w) PROVE TypeOK'
  <2>1. faults' \in 0 .. MaxFaults /\ pc[w] = "publish" /\ Goto(w, "ack")
    BY <1>13, FaultType DEF PublishRaises, Raise
  <2>2. abandoned' \in SUBSET (Nat \ {0})
    <3>1. cur[w] \in Nat \ {0}
      BY <1>0, <2>1
    <3> QED BY <1>13, <3>1 DEF TypeOK, PublishRaises, Raise
  <2> QED BY <1>0, <1>13, <2>1, <2>2, GotoType DEF TypeOK, PublishRaises, kafkaVars, sendVars
<1>14. ASSUME NEW w \in Workers, Mark(w) PROVE TypeOK'
  <2>1. faults' \in 0 .. MaxFaults /\ pc[w] = "mark" /\ Goto(w, "ack")
    BY <1>14, FaultType DEF TypeOK, Mark
  <2>2. marked' \in SUBSET Keys
    <3>1. Event(w).key \in Keys
      BY <2>1, EventType DEF KeyOf
    <3> QED BY <1>14, <3>1 DEF TypeOK, Mark
  <2> QED BY <1>0, <1>14, <2>1, <2>2, GotoType DEF TypeOK, Mark, kafkaVars, sendVars
<1>15. ASSUME NEW w \in Workers, Ack(w) PROVE TypeOK'
  <2>1. faults' \in 0 .. MaxFaults /\ committed' \in Nat
    BY <1>15, FaultType DEF TypeOK, Ack
  <2> QED BY <1>15, <2>1, ForgetType DEF TypeOK, Ack, sendVars
<1>16. CASE UNCHANGED vars
  BY <1>16 DEF TypeOK, vars, kafkaVars, sendVars, workVars
<1>17. ASSUME NEW w \in Workers, PollNothing(w) PROVE TypeOK'
  BY <1>16, <1>17 DEF PollNothing
<1> QED BY <1>1, <1>2, <1>3, <1>4, <1>5, <1>6, <1>7, <1>8, <1>9, <1>10, <1>11, <1>12,
           <1>13, <1>14, <1>15, <1>16, <1>17, Zenon DEF Next, Step

-----------------------------------------------------------------------------
(***************************************************************************)
(* What every step does.                                                   *)
(***************************************************************************)

LEMMA LogGrows ==
    TypeOK /\ [Next]_vars =>
        /\ Len(log) <= Len(log') /\ faculty' = faculty
        /\ \A o \in 1 .. Len(log) : o \in 1 .. Len(log') /\ log'[o] = log[o]
<1> SUFFICES ASSUME TypeOK, [Next]_vars
             PROVE  /\ Len(log) <= Len(log') /\ faculty' = faculty
                    /\ \A o \in 1 .. Len(log) : o \in 1 .. Len(log') /\ log'[o] = log[o]
  OBVIOUS
<1>0. log \in Seq(Sources) /\ Len(log) \in Nat
  BY DEF TypeOK
<1>1. CASE \E e \in Sources : Ingest(e)
  BY <1>0, <1>1, AppendProperties DEF Ingest
<1>2. CASE UNCHANGED <<log, faculty>>
  BY <1>0, <1>2
<1> QED BY <1>1, <1>2
     DEF Next, Step, vars, kafkaVars, Rebalance, Crash, Expire, Deliver, Poll, PollNothing,
         Dedup, DedupBlind, Verify, VerifyFails, Lookup, LookupFails, Extract, Publish,
         PublishRetry, PublishGivesUp, PublishRaises, Mark, Ack

\* A step of process_message: one worker moves, within its event or, with the
\* commit, to the next one.
LEMMA StepShape ==
    ASSUME TypeOK, NEW w \in Workers, Step(w)
    PROVE  /\ UNCHANGED <<faculty, log, owner, position>>
           /\ pc[w] # "idle" /\ pc[w] \in Stages
           /\ \A v \in Workers \ {w} :
                 /\ pc'[v] = pc[v] /\ cur'[v] = cur[v] /\ attempt'[v] = attempt[v]
                 /\ context'[v] = context[v] /\ topic'[v] = topic[v]
           /\ \/ Ack(w) /\ pc'[w] = "idle"
              \/ /\ UNCHANGED <<cur, committed>> /\ pc'[w] \in Stages
                 /\ pc'[w] = pc[w] \/ attempt'[w] = 1
<1>0. /\ pc \in [Workers -> Stages \cup {"idle"}]
      /\ cur \in [Workers -> Nat]
      /\ attempt \in [Workers -> 1 .. (LookupAttempts + MaxAttempts)]
      /\ context \in [Workers -> Statuses] /\ topic \in [Workers -> Topics]
  BY DEF TypeOK
<1>1. CASE Ack(w)
  BY <1>0, <1>1 DEF Ack, Forget, Stages
<1>2. CASE Dedup(w) \/ DedupBlind(w) \/ Verify(w) \/ VerifyFails(w) \/ PublishGivesUp(w)
  BY <1>0, <1>2
     DEF Dedup, DedupBlind, Verify, VerifyFails, PublishGivesUp, Screen, DeadLetter, Goto,
         kafkaVars, Stages
<1>3. CASE Lookup(w) \/ LookupFails(w)
  BY <1>0, <1>3 DEF Lookup, LookupFails, Goto, Again, kafkaVars, Stages
<1>4. CASE Extract(w)
  BY <1>0, <1>4 DEF Extract, Raise, Goto, kafkaVars, Stages
<1>5. CASE Publish(w) \/ PublishRetry(w) \/ PublishRaises(w) \/ Mark(w)
  BY <1>0, <1>5
     DEF Publish, PublishRetry, PublishRaises, Mark, Raise, Goto, Again, kafkaVars, Stages
<1> QED BY <1>1, <1>2, <1>3, <1>4, <1>5 DEF Step

\* Nothing that was sent, lost or given up is ever undone.
LEMMA SentStays ==
    ASSUME TypeOK, [Next]_vars
    PROVE  /\ lost \subseteq lost' /\ abandoned \subseteq abandoned'
           /\ \A k \in Keys : papers[k] > 0 => papers'[k] > 0
           /\ \A k \in Keys, t \in Topics \cup {"dlq"} :
                 Sent(k, t) => Sent(k, t)' \/ k \in lost'
<1>0. /\ papers \in [Keys -> Nat] /\ buffer \in [Workers -> [Outputs -> Nat]]
      /\ \A k \in Keys, t \in Topics \cup {"dlq"} : <<k, t>> \in Outputs
  BY DEF TypeOK, Outputs
<1>1. CASE UNCHANGED sendVars /\ abandoned \subseteq abandoned'
  BY <1>1 DEF sendVars, Sent
<1>2. ASSUME NEW w \in Workers, Crash(w)
      PROVE  /\ UNCHANGED <<out, papers, abandoned>> /\ lost \subseteq lost'
             /\ \A k \in Keys, t \in Topics \cup {"dlq"} :
                   Sent(k, t) => Sent(k, t)' \/ k \in lost'
  BY <1>0, <1>2 DEF Crash, Sent
<1>3. ASSUME NEW w \in Workers, NEW o \in Outputs, Deliver(w, o)
      PROVE  /\ UNCHANGED <<papers, abandoned>> /\ lost \subseteq lost'
             /\ \A k \in Keys, t \in Topics \cup {"dlq"} :
                   Sent(k, t) => Sent(k, t)' \/ k \in lost'
  <2>1. UNCHANGED <<papers, abandoned>> /\ lost \subseteq lost'
    BY <1>3, DeliverType DEF Deliver
  <2>2. /\ \A v \in Workers, o2 \in Outputs :
              v # w \/ o2 # o => buffer'[v][o2] = buffer[v][o2]
        /\ \A o2 \in Outputs : out[o2] > 0 => out'[o2] > 0
        /\ out'[o] > 0 \/ o[1] \in lost'
    BY <1>3, DeliverType
  <2>3. ASSUME NEW k \in Keys, NEW t \in Topics \cup {"dlq"}, Sent(k, t)
        PROVE  Sent(k, t)' \/ k \in lost'
    <3>1. CASE <<k, t>> = o
      BY <2>2, <3>1 DEF Sent
    <3>2. CASE <<k, t>> # o
      BY <1>0, <2>2, <2>3, <3>2 DEF Sent
    <3> QED BY <3>1, <3>2
  <2> QED BY <2>1, <2>3
<1>4. ASSUME out' = out, lost \subseteq lost', buffer' \in [Workers -> [Outputs -> Nat]],
             \A v \in Workers, o \in Outputs : buffer'[v][o] >= buffer[v][o]
      PROVE  \A k \in Keys, t \in Topics \cup {"dlq"} : Sent(k, t) => Sent(k, t)'
  <2>1. \A v \in Workers, o \in Outputs : buffer[v][o] > 0 => buffer'[v][o] > 0
    <3>1. \A v \in Workers, o \in Outputs : buffer[v][o] \in Nat /\ buffer'[v][o] \in Nat
      BY <1>0, <1>4
    <3> QED BY <1>4, <3>1
  <2> QED BY <1>0, <1>4, <2>1 DEF Sent
<1>5. ASSUME NEW w \in Workers, Publish(w)
      PROVE  /\ \A k \in Keys : papers[k] > 0 => papers'[k] > 0
             /\ UNCHANGED <<lost, abandoned>>
             /\ \A k \in Keys, t \in Topics \cup {"dlq"} : Sent(k, t) => Sent(k, t)'
  <2>1. pc[w] # "idle" /\ topic[w] \in Topics /\ KeyOf(w) \in Keys /\ UNCHANGED <<out, lost>>
    BY <1>5, EventType DEF TypeOK, Publish
  <2>2. \A k \in Keys : papers[k] > 0 => papers'[k] > 0
    BY <1>0, <1>5, <2>1 DEF Publish, KeyOf
  <2> QED BY <1>4, <1>5, <2>1, <2>2, ProduceType DEF Publish
<1>6. ASSUME NEW w \in Workers, DeadLetter(w), pc[w] # "idle"
      PROVE  /\ lost \subseteq lost' /\ UNCHANGED papers
             /\ \A k \in Keys, t \in Topics \cup {"dlq"} : Sent(k, t) => Sent(k, t)'
  BY <1>4, <1>6, DeadLetterType
<1>7. ASSUME NEW w \in Workers, Dedup(w) \/ DedupBlind(w) \/ Verify(w) \/ VerifyFails(w)
                                \/ PublishGivesUp(w)
      PROVE  UNCHANGED abandoned /\ (UNCHANGED sendVars \/ (DeadLetter(w) /\ pc[w] # "idle"))
  BY <1>7 DEF Dedup, DedupBlind, Verify, VerifyFails, PublishGivesUp, Screen
<1>8. ASSUME NEW w \in Workers, Lookup(w) \/ LookupFails(w) \/ Extract(w) \/ PublishRetry(w)
                                \/ PublishRaises(w) \/ Mark(w) \/ Ack(w) \/ Poll(w)
                                \/ Rebalance(w) \/ PollNothing(w)
      PROVE  UNCHANGED sendVars /\ abandoned \subseteq abandoned'
  BY <1>8 DEF Lookup, LookupFails, Extract, Raise, PublishRetry, PublishRaises, Mark, Ack,
              Poll, Rebalance, PollNothing, vars, sendVars
<1>9. ASSUME \/ \E e \in Sources : Ingest(e)
             \/ \E k \in Keys : Expire(k)
             \/ UNCHANGED vars
      PROVE  UNCHANGED sendVars /\ abandoned \subseteq abandoned'
  BY <1>9 DEF Ingest, Expire, vars, sendVars
<1>10. CASE \E w \in Workers :
               Dedup(w) \/ DedupBlind(w) \/ Verify(w) \/ VerifyFails(w) \/ PublishGivesUp(w)
  BY <1>1, <1>6, <1>7, <1>10
<1>11. CASE \E w \in Workers : Crash(w)
  BY <1>2, <1>11
<1>12. CASE \E w \in Workers, o \in Outputs : Deliver(w, o)
  BY <1>3, <1>12
<1>13. CASE \E w \in Workers : Publish(w)
  BY <1>5, <1>13
<1> QED BY <1>1, <1>8, <1>9, <1>10, <1>11, <1>12, <1>13, Zenon DEF Next, Step

LEMMA HandledStays ==
    ASSUME TypeOK, [Next]_vars, NEW o \in 1 .. Len(log), Handled(o) PROVE Handled(o)'
<1>1. log'[o] = log[o]
  BY LogGrows
<1>2. log[o].key \in Keys
  BY SourcesAssumption DEF TypeOK, Events
<1> QED BY <1>1, <1>2, SentStays DEF Handled

-----------------------------------------------------------------------------
(***************************************************************************)
(* Offsets and what is handled.                                            *)
(***************************************************************************)

LEMMA NextOffsetInv == TypeOK /\ OffsetInv /\ [Next]_vars => OffsetInv'
<1> SUFFICES ASSUME TypeOK, OffsetInv, [Next]_vars PROVE OffsetInv'
  OBVIOUS
<1>0. /\ committed \in Nat /\ position \in Nat /\ Len(log) \in Nat
      /\ pc \in [Workers -> Stages \cup {"idle"}] /\ cur \in [Workers -> Nat]
      /\ \A w \in Workers : pc[w] # "idle" => cur[w] \in 1 .. Len(log)
      /\ NoWorker \notin Workers
  BY WorkersAssumption DEF TypeOK
<1>1. ASSUME NEW e \in Sources, Ingest(e) PROVE OffsetInv'
  <2>1. Len(log') = Len(log) + 1
    BY <1>1, AppendProperties DEF TypeOK, Ingest
  <2>2. committed <= Len(log') /\ position <= Len(log')
    BY <1>0, <2>1 DEF OffsetInv
  <2> QED BY <1>1, <2>2 DEF OffsetInv, Ingest, workVars
<1>2. CASE UNCHANGED <<kafkaVars, workVars>>
  BY <1>2 DEF OffsetInv, kafkaVars, workVars
<1>3. ASSUME NEW w \in Workers, Rebalance(w) PROVE OffsetInv'
  BY <1>3 DEF OffsetInv, Rebalance, workVars
<1>4. ASSUME NEW w \in Workers, Crash(w) PROVE OffsetInv'
  BY <1>0, <1>4 DEF OffsetInv, Crash, Forget
<1>5. ASSUME NEW w \in Workers, Poll(w) PROVE OffsetInv'
  BY <1>0, <1>5 DEF OffsetInv, Poll
<1>6. ASSUME NEW w \in Workers, Step(w) PROVE OffsetInv'
  <2>1. CASE Ack(w)
    <3>1. pc[w] # "idle" /\ UNCHANGED <<log, owner, position>>
      BY <1>6, StepShape
    <3>2. committed' <= Len(log)
      BY <1>0, <2>1, <3>1 DEF OffsetInv, Ack
    <3>3. \A v \in Workers : pc'[v] # "idle" => pc[v] # "idle" /\ cur'[v] = cur[v]
      BY <1>0, <2>1 DEF Ack, Forget
    <3> QED BY <3>1, <3>2, <3>3 DEF OffsetInv
  <2>2. CASE UNCHANGED <<cur, committed>>
    <3>1. \A v \in Workers : pc'[v] # "idle" => pc[v] # "idle"
      BY <1>6, StepShape
    <3> QED BY <1>6, <2>2, <3>1, StepShape DEF OffsetInv
  <2> QED BY <1>6, <2>1, <2>2, StepShape
<1>7. ASSUME NEW k \in Keys, Expire(k) PROVE OffsetInv'
  BY <1>2, <1>7 DEF Expire
<1>8. ASSUME NEW w \in Workers, NEW o \in Outputs, Deliver(w, o) PROVE OffsetInv'
  BY <1>2, <1>8 DEF Deliver
<1>9. CASE UNCHANGED vars
  BY <1>2, <1>9 DEF vars
<1>10. ASSUME NEW w \in Workers, PollNothing(w) PROVE OffsetInv'
  BY <1>9, <1>10 DEF PollNothing
<1> QED BY <1>1, <1>3, <1>4, <1>5, <1>6, <1>7, <1>8, <1>9, <1>10, Zenon DEF Next

\* A worker is done with its event only when that is handled ...
LEMMA AckReason ==
    ASSUME TypeOK, HandledInv, NEW w \in Workers, Step(w), [Next]_vars, pc'[w] = "ack"
    PROVE  \A o \in 1 .. Len(log) : o = cur[w] => Handled(o)'
<1> SUFFICES ASSUME NEW o \in 1 .. Len(log), o = cur[w] PROVE Handled(o)'
  OBVIOUS
<1>0. /\ pc[w] # "idle" /\ KeyOf(w) \in Keys /\ KeyOf(w) = log[o].key
      /\ log'[o] = log[o]
  BY StepShape, EventType, LogGrows DEF KeyOf, Event
<1>1. CASE KeyOf(w) \in marked
  <2>1. Handled(o)
    BY <1>0, <1>1 DEF HandledInv, MarkedMeansPublished, Handled
  <2> QED BY <2>1, HandledStays
<1>2. CASE DeadLetter(w)
  <2>1. KeyOf(w) \in lost' \/ buffer'[w][<<KeyOf(w), "dlq">>] > 0
    BY <1>0, <1>2, DeadLetterType
  <2> QED BY <1>0, <2>1 DEF Handled, Sent
<1>3. CASE Raise(w)
  BY <1>0, <1>3 DEF Raise, Handled
<1>4. CASE pc[w] = "mark"
  <2>1. Handled(o)
    BY <1>0, <1>4 DEF HandledInv, Handled
  <2> QED BY <2>1, HandledStays
<1>5. \/ KeyOf(w) \in marked \/ DeadLetter(w) \/ Raise(w) \/ pc[w] = "mark"
  <2>1. pc \in [Workers -> Stages \cup {"idle"}]
    BY DEF TypeOK
  <2>2. CASE Dedup(w) \/ DedupBlind(w) \/ Verify(w) \/ VerifyFails(w) \/ PublishGivesUp(w)
    BY <2>1, <2>2
       DEF Dedup, DedupBlind, Verify, VerifyFails, PublishGivesUp, Screen, Goto, KeyOf
  <2>3. CASE Lookup(w) \/ LookupFails(w) \/ Extract(w) \/ Publish(w) \/ PublishRetry(w)
    BY <2>1, <2>3 DEF Lookup, LookupFails, Extract, Publish, PublishRetry, Goto, Again
  <2>4. CASE PublishRaises(w) \/ Mark(w)
    BY <2>4 DEF PublishRaises, Mark
  <2>5. CASE Ack(w)
    BY <2>1, <2>5 DEF Ack, Forget
  <2> QED BY <2>2, <2>3, <2>4, <2>5 DEF Step
<1> QED BY <1>1, <1>2, <1>3, <1>4, <1>5

\* ... and about to write its marker only with a paper.
LEMMA MarkReason ==
    ASSUME TypeOK, HandledInv, NEW w \in Workers, Step(w), pc'[w] = "mark"
    PROVE  Publish(w) /\ papers'[KeyOf(w)] > 0
<1>0. /\ pc \in [Workers -> Stages \cup {"idle"}] /\ papers \in [Keys -> Nat]
  BY DEF TypeOK
<1>1. CASE Dedup(w) \/ DedupBlind(w) \/ Verify(w) \/ VerifyFails(w) \/ PublishGivesUp(w)
  BY <1>0, <1>1
     DEF Dedup, DedupBlind, Verify, VerifyFails, PublishGivesUp, Screen, DeadLetter, Goto
<1>2. CASE Lookup(w) \/ LookupFails(w) \/ Extract(w) \/ PublishRetry(w)
           \/ PublishRaises(w) \/ Mark(w) \/ Ack(w)
  BY <1>0, <1>2 DEF Lookup, LookupFails, Extract, Raise, PublishRetry, PublishRaises, Mark,
                    Ack, Forget, Goto, Again
<1>3. CASE Publish(w)
  <2>1. Event(w).key \in Keys
    BY <1>3, EventType DEF Publish, KeyOf
  <2>2. papers'[Event(w).key] = papers[Event(w).key] + 1 /\ papers[Event(w).key] \in Nat
    BY <1>0, <1>3, <2>1 DEF Publish
  <2> QED BY <1>3, <2>2 DEF KeyOf
<1> QED BY <1>1, <1>2, <1>3 DEF Step

\* The key of an event that stays at hand.
LEMMA KeyStays ==
    ASSUME TypeOK, [Next]_vars, NEW w \in Workers, pc[w] # "idle", cur'[w] = cur[w]
    PROVE  KeyOf(w)' = KeyOf(w) /\ Event(w)' = Event(w)
BY EventType, LogGrows DEF KeyOf, Event

LEMMA NextMarked ==
    TypeOK /\ HandledInv /\ [Next]_vars => MarkedMeansPublished'
<1> SUFFICES ASSUME TypeOK, HandledInv, [Next]_vars PROVE MarkedMeansPublished'
  OBVIOUS
<1>1. /\ marked \in SUBSET Keys /\ \A k \in marked : papers[k] > 0
      /\ \A k \in Keys : papers[k] > 0 => papers'[k] > 0
  BY SentStays DEF TypeOK, HandledInv, MarkedMeansPublished
<1>2. CASE \E w \in Workers : Mark(w)
  <2>1. PICK w \in Workers : Mark(w)
    BY <1>2
  <2>2. marked' \subseteq marked \cup {KeyOf(w)} /\ pc[w] = "mark"
    BY <2>1 DEF Mark, KeyOf
  <2>3. papers[KeyOf(w)] > 0 /\ KeyOf(w) \in Keys
    BY <2>2, EventType DEF HandledInv
  <2> QED BY <1>1, <2>2, <2>3 DEF MarkedMeansPublished
<1>3. CASE marked' \subseteq marked
  BY <1>1, <1>3 DEF MarkedMeansPublished
<1> QED BY <1>2, <1>3
     DEF Next, Step, vars, Ingest, Rebalance, Crash, Expire, Deliver, Poll, PollNothing,
         Dedup, DedupBlind, Verify, VerifyFails, Lookup, LookupFails, Extract, Publish,
         PublishRetry, PublishGivesUp, PublishRaises, Ack

\* A worker that a step leaves at its event.
LEMMA DoneStays ==
    ASSUME TypeOK, HandledInv, [Next]_vars, NEW w \in Workers, pc'[w] = pc[w], cur'[w] = cur[w]
    PROVE  /\ pc'[w] = "mark" => papers'[KeyOf(w)'] > 0
           /\ pc'[w] = "ack" => \A o \in Nat : o = cur'[w] => Handled(o)'
<1>1. ASSUME pc[w] = "mark" PROVE papers'[KeyOf(w)'] > 0
  <2>1. KeyOf(w)' = KeyOf(w) /\ KeyOf(w) \in Keys /\ papers[KeyOf(w)] > 0
    BY <1>1, KeyStays, EventType DEF HandledInv
  <2> QED BY <2>1, SentStays
<1>2. ASSUME pc[w] = "ack", NEW o \in Nat, o = cur'[w] PROVE Handled(o)'
  <2>1. o \in 1 .. Len(log) /\ Handled(o)
    BY <1>2, EventType DEF HandledInv, Handled
  <2> QED BY <2>1, HandledStays
<1> QED BY <1>1, <1>2

LEMMA NextDone ==
    ASSUME TypeOK, TypeOK', HandledInv, [Next]_vars
    PROVE  \A w \in Workers :
              /\ pc'[w] = "mark" => papers'[KeyOf(w)'] > 0
              /\ pc'[w] = "ack" => \A o \in Nat : o = cur'[w] => Handled(o)'
<1> SUFFICES ASSUME NEW w \in Workers
             PROVE  /\ pc'[w] = "mark" => papers'[KeyOf(w)'] > 0
                    /\ pc'[w] = "ack" => \A o \in Nat : o = cur'[w] => Handled(o)'
  OBVIOUS
<1>0. pc \in [Workers -> Stages \cup {"idle"}] /\ cur \in [Workers -> Nat]
  BY DEF TypeOK
<1>1. CASE pc'[w] = pc[w] /\ cur'[w] = cur[w]
  BY <1>1, DoneStays
<1>2. CASE pc'[w] \in {"idle", "dedup"}
  BY <1>2
<1>3. CASE Step(w)
  <2>1. ASSUME pc'[w] = "mark" PROVE papers'[KeyOf(w)'] > 0
    <3>1. papers'[KeyOf(w)] > 0 /\ pc[w] # "idle" /\ cur'[w] = cur[w]
      BY <1>3, <2>1, MarkReason, StepShape
    <3> QED BY <3>1, KeyStays
  <2>2. ASSUME pc'[w] = "ack", NEW o \in Nat, o = cur'[w] PROVE Handled(o)'
    <3>1. cur'[w] = cur[w] /\ pc[w] # "idle"
      BY <1>3, <2>2, StepShape
    <3>2. o \in 1 .. Len(log) /\ o = cur[w]
      BY <2>2, <3>1, EventType
    <3> QED BY <1>3, <2>2, <3>2, AckReason
  <2> QED BY <2>1, <2>2
<1>4. CASE \E v \in Workers \ {w} : Step(v)
  BY <1>1, <1>4, StepShape
<1>5. CASE \E v \in Workers : Crash(v) \/ Poll(v)
  BY <1>0, <1>1, <1>2, <1>5 DEF Crash, Forget, Poll
<1>6. CASE UNCHANGED workVars
  BY <1>1, <1>6 DEF workVars
<1> QED BY <1>3, <1>4, <1>5, <1>6
     DEF Next, vars, Ingest, Rebalance, Expire, Deliver, PollNothing

LEMMA NextOwnerDone ==
    ASSUME TypeOK, TypeOK', OffsetInv, OffsetInv', HandledInv, [Next]_vars,
           owner' \in Workers, NEW o \in 1 .. position'
    PROVE  Handled(o)' \/ (pc'[owner'] # "idle" /\ o = cur'[owner'])
<1>0. /\ committed \in Nat /\ position \in Nat /\ position' \in Nat /\ Len(log) \in Nat
      /\ committed <= Len(log) /\ position <= Len(log)
      /\ pc \in [Workers -> Stages \cup {"idle"}] /\ cur \in [Workers -> Nat]
      /\ NoWorker \notin Workers
  BY SMTT(30), WorkersAssumption DEF TypeOK, OffsetInv
<1>1. \A o2 \in 1 .. Len(log) : Handled(o2) => Handled(o2)'
  BY HandledStays
<1>2. ASSUME position' = position, owner' = owner,
             pc[owner] # "idle" => pc'[owner] # "idle" /\ cur'[owner] = cur[owner]
      PROVE  Handled(o)' \/ (pc'[owner'] # "idle" /\ o = cur'[owner'])
  <2>1. o \in 1 .. position /\ o \in 1 .. Len(log)
    BY <1>0, <1>2
  <2>2. Handled(o) \/ (pc[owner] # "idle" /\ o = cur[owner])
    BY <1>2, <2>1 DEF HandledInv
  <2> QED BY <1>1, <1>2, <2>1, <2>2
<1>3. ASSUME NEW w \in Workers, Rebalance(w)
      PROVE  Handled(o)'
  <2>1. o \in 1 .. committed /\ o \in 1 .. Len(log)
    BY <1>0, <1>3 DEF Rebalance
  <2> QED BY <1>1, <2>1 DEF HandledInv, CommittedHandled
<1>4. ASSUME NEW w \in Workers, Crash(w)
      PROVE  Handled(o)' \/ (pc'[owner'] # "idle" /\ o = cur'[owner'])
  <2>1. owner # w /\ owner' = owner /\ position' = position
    BY <1>0, <1>4 DEF Crash
  <2>2. pc'[owner] = pc[owner] /\ cur'[owner] = cur[owner]
    BY <1>0, <1>4, <2>1 DEF Crash, Forget
  <2> QED BY <1>2, <2>1, <2>2
<1>5. ASSUME NEW w \in Workers, Poll(w)
      PROVE  Handled(o)' \/ (pc'[owner'] # "idle" /\ o = cur'[owner'])
  <2>1. /\ owner = w /\ owner' = w /\ pc[w] = "idle"
        /\ position' = position + 1 /\ cur'[w] = position + 1 /\ pc'[w] = "dedup"
    BY <1>0, <1>5 DEF Poll
  <2>2. CASE o = position + 1
    BY <2>1, <2>2
  <2>3. CASE o # position + 1
    <3>1. o \in 1 .. position /\ o \in 1 .. Len(log)
      BY <1>0, <2>1, <2>3
    <3>2. Handled(o)
      BY <2>1, <3>1 DEF HandledInv
    <3> QED BY <1>1, <3>1, <3>2
  <2> QED BY <2>2, <2>3
<1>6. ASSUME NEW w \in Workers, Step(w)
      PROVE  Handled(o)' \/ (pc'[owner'] # "idle" /\ o = cur'[owner'])
  <2>1. UNCHANGED <<owner, position>> /\ pc[w] # "idle"
    BY <1>6, StepShape
  <2>2. CASE w # owner
    <3>1. pc'[owner] = pc[owner] /\ cur'[owner] = cur[owner]
      BY <1>6, <2>1, <2>2, StepShape
    <3> QED BY <1>2, <2>1, <3>1
  <2>3. CASE w = owner /\ ~Ack(w)
    <3>1. pc'[w] \in Stages /\ cur' = cur
      BY <1>6, <2>3, StepShape
    <3> QED BY <1>2, <2>1, <2>3, <3>1 DEF Stages
  <2>4. CASE w = owner /\ Ack(w)
    <3>1. o \in 1 .. position /\ o \in 1 .. Len(log)
      BY <1>0, <2>1
    <3>2. pc[w] = "ack"
      BY <2>4 DEF Ack
    <3>3. Handled(o) \/ o = cur[w]
      BY <2>1, <2>4, <3>1 DEF HandledInv
    <3>4. o = cur[w] => Handled(o)
      BY <3>2 DEF HandledInv, Handled
    <3> QED BY <1>1, <3>1, <3>3, <3>4
  <2> QED BY <2>2, <2>3, <2>4
<1>7. CASE UNCHANGED <<owner, position, workVars>>
  BY <1>2, <1>7 DEF workVars
<1> QED BY <1>3, <1>4, <1>5, <1>6, <1>7
     DEF Next, vars, Ingest, Expire, Deliver, PollNothing, kafkaVars

LEMMA NextCommitted ==
    ASSUME TypeOK, TypeOK', OffsetInv, HandledInv, [Next]_vars PROVE CommittedHandled'
<1>0. /\ committed \in Nat /\ position \in Nat /\ Len(log) \in Nat
      /\ committed <= Len(log) /\ position <= Len(log) /\ committed' \in Nat
  BY DEF TypeOK, OffsetInv
<1>1. \A o \in 1 .. Len(log) : Handled(o) => Handled(o)'
  BY HandledStays
<1>2. CASE committed' = committed
  BY <1>0, <1>1, <1>2 DEF HandledInv, CommittedHandled
<1>3. ASSUME NEW w \in Workers, Ack(w), committed' # committed PROVE CommittedHandled'
  <2>1. owner = w /\ committed' = cur[w] /\ pc[w] = "ack"
    BY <1>3 DEF Ack
  <2>2. committed' = position
    BY <2>1 DEF OffsetInv
  <2>3. ASSUME NEW o \in 1 .. position PROVE Handled(o)
    <3>1. Handled(o) \/ o = cur[w]
      BY <2>1 DEF HandledInv
    <3>2. o = cur[w] => Handled(o)
      BY <2>1 DEF HandledInv, Handled
    <3> QED BY <3>1, <3>2
  <2>4. \A o \in 1 .. position : o \in 1 .. Len(log)
    BY <1>0
  <2> QED BY <1>1, <2>2, <2>3, <2>4 DEF CommittedHandled
<1> QED BY <1>2, <1>3, StepShape
     DEF Next, Step, vars, Ingest, Rebalance, Crash, Expire, Deliver, Poll, PollNothing,
         kafkaVars

LEMMA NextHandledInv ==
    TypeOK /\ TypeOK' /\ OffsetInv /\ OffsetInv' /\ HandledInv /\ [Next]_vars => HandledInv'
<1> SUFFICES ASSUME TypeOK, TypeOK', OffsetInv, OffsetInv', HandledInv, [Next]_vars
             PROVE  HandledInv'
  OBVIOUS
<1>1. CommittedHandled' /\ MarkedMeansPublished'
  BY NextCommitted, NextMarked
<1>2. \A w \in Workers : pc'[w] = "mark" => papers'[KeyOf(w)'] > 0
  BY NextDone
<1>3. ASSUME NEW w \in Workers, pc'[w] = "ack" PROVE Handled(cur[w])'
  <2>1. PICK o \in Nat : o = cur'[w]
    BY DEF TypeOK
  <2>2. Handled(o)'
    BY <1>3, <2>1, NextDone
  <2> QED BY <2>1, <2>2 DEF Handled
<1>4. owner' \in Workers =>
         \A o \in 1 .. position' : Handled(o)' \/ (pc'[owner'] # "idle" /\ o = cur'[owner'])
  BY NextOwnerDone
<1> QED BY <1>1, <1>2, <1>3, <1>4 DEF HandledInv, KeyOf, Event

-----------------------------------------------------------------------------
(***************************************************************************)
(* Routing.                                                                *)
(***************************************************************************)

LEMMA FaultsGrow == TypeOK /\ [Next]_vars => faults \in Nat /\ faults' \in Nat /\ faults' >= faults
<1> SUFFICES ASSUME TypeOK, [Next]_vars
             PROVE  faults \in Nat /\ faults' \in Nat /\ faults' >= faults
  OBVIOUS
<1>1. faults \in Nat
  BY WorkerBoundsAssumption DEF TypeOK
<1>2. Fault => faults' = faults + 1
  BY DEF Fault
<1>3. CASE faults' = faults \/ Fault
  BY <1>1, <1>2, <1>3
<1>4. ASSUME NEW w \in Workers, NEW o \in Outputs, Deliver(w, o) PROVE faults' = faults \/ Fault
  BY <1>4, DeliverType
<1> QED BY <1>3, <1>4
     DEF Next, Step, vars, Ingest, Rebalance, Crash, Expire, Poll, PollNothing,
         Dedup, DedupBlind, Verify, VerifyFails, Lookup, LookupFails, Extract, Publish,
         PublishRetry, PublishGivesUp, PublishRaises, Mark, Ack

LEMMA TrustStays ==
    ASSUME TypeOK, [Next]_vars, NEW w \in Workers, pc[w] # "idle", cur'[w] = cur[w]
    PROVE  (Valid(w) => Valid(w)') /\ (Blockable(w) => Blockable(w)')
<1>1. KeyOf(w)' = KeyOf(w) /\ faculty' = faculty
  BY KeyStays, LogGrows
<1>2. faults >= LookupAttempts => faults' >= LookupAttempts
  BY FaultsGrow, WorkerBoundsAssumption
<1> QED BY <1>1, <1>2 DEF Valid, Blockable

\* A paper gets to a topic by a Publish only.
LEMMA SentReason ==
    ASSUME TypeOK, TypeOK', [Next]_vars, NEW k \in Keys, NEW t \in Topics, Sent(k, t)'
    PROVE  Sent(k, t) \/ \E w \in Workers : Publish(w) /\ KeyOf(w) = k /\ topic[w] = t
<1>0. /\ buffer \in [Workers -> [Outputs -> Nat]] /\ out \in [Outputs -> Nat]
      /\ <<k, t>> \in Outputs /\ t # "dlq"
  BY DEF TypeOK, Outputs, Topics
<1> DEFINE o == <<k, t>>
<1>1. CASE out' = out /\ \A v \in Workers : buffer'[v][o] = buffer[v][o]
  BY <1>1 DEF Sent
<1>2. ASSUME NEW w \in Workers, Crash(w) PROVE Sent(k, t)
  <2>1. out' = out /\ \A v \in Workers : buffer'[v][o] > 0 => buffer[v][o] > 0
    <3>1. buffer' = [buffer EXCEPT ![w] = [o2 \in Outputs |-> 0]] /\ out' = out
      BY <1>2 DEF Crash
    <3>2. buffer'[w][o] = 0 /\ \A v \in Workers \ {w} : buffer'[v] = buffer[v]
      BY <1>0, <3>1
    <3> QED BY <3>1, <3>2
  <2> QED BY <2>1 DEF Sent
<1>3. ASSUME NEW w \in Workers, NEW o2 \in Outputs, Deliver(w, o2) PROVE Sent(k, t)
  <2>1. /\ \A v \in Workers, o3 \in Outputs :
              v # w \/ o3 # o2 => buffer'[v][o3] = buffer[v][o3]
        /\ \A o3 \in Outputs : out'[o3] > 0 => out[o3] > 0 \/ o3 = o2
        /\ buffer[w][o2] > 0
    BY <1>3, DeliverType DEF Deliver
  <2> QED BY <1>0, <2>1 DEF Sent
<1>4. ASSUME NEW w \in Workers, Publish(w)
      PROVE  Sent(k, t) \/ (KeyOf(w) = k /\ topic[w] = t)
  <2>1. pc[w] # "idle" /\ topic[w] \in Topics /\ Produce(w, topic[w]) /\ out' = out
    BY <1>4 DEF TypeOK, Publish
  <2>2. \A v \in Workers, o2 \in Outputs :
           o2 # <<KeyOf(w), topic[w]>> => buffer'[v][o2] = buffer[v][o2]
    BY <2>1, ProduceType
  <2>3. CASE o # <<KeyOf(w), topic[w]>>
    <3>1. \A v \in Workers : buffer'[v][o] = buffer[v][o]
      BY <1>0, <2>2, <2>3
    <3>2. Sent(k, t)
      BY <2>1, <3>1 DEF Sent
    <3> QED BY <3>2
  <2>4. CASE o = <<KeyOf(w), topic[w]>>
    BY <2>4
  <2> QED BY <2>3, <2>4
<1>5. ASSUME NEW w \in Workers, DeadLetter(w), pc[w] # "idle" PROVE Sent(k, t)
  <2>1. out' = out /\ \A v \in Workers, o2 \in Outputs :
           o2[2] # "dlq" => buffer'[v][o2] = buffer[v][o2]
    BY <1>5, DeadLetterType
  <2>2. o[2] # "dlq"
    BY <1>0
  <2> QED BY <1>0, <2>1, <2>2 DEF Sent
<1>6. CASE \E w \in Workers :
              Dedup(w) \/ DedupBlind(w) \/ Verify(w) \/ VerifyFails(w) \/ PublishGivesUp(w)
  <2>1. PICK w \in Workers :
              Dedup(w) \/ DedupBlind(w) \/ Verify(w) \/ VerifyFails(w) \/ PublishGivesUp(w)
    BY <1>6
  <2>2. UNCHANGED sendVars \/ (DeadLetter(w) /\ pc[w] # "idle")
    BY <2>1 DEF Dedup, DedupBlind, Verify, VerifyFails, PublishGivesUp, Screen
  <2> QED BY <1>1, <1>5, <2>2 DEF sendVars
<1>7. CASE UNCHANGED sendVars
  BY <1>1, <1>7 DEF sendVars
<1>8. ASSUME NEW w \in Workers, Lookup(w) \/ LookupFails(w) \/ Extract(w) \/ PublishRetry(w)
                                \/ PublishRaises(w) \/ Mark(w) \/ Ack(w) \/ Poll(w)
                                \/ Rebalance(w) \/ PollNothing(w)
      PROVE  UNCHANGED sendVars
  BY <1>8 DEF Lookup, LookupFails, Extract, Raise, PublishRetry, PublishRaises, Mark, Ack,
              Poll, Rebalance, PollNothing, vars
<1>9. ASSUME \/ \E e \in Sources : Ingest(e)
             \/ \E k2 \in Keys : Expire(k2)
             \/ UNCHANGED vars
      PROVE  UNCHANGED sendVars
  BY <1>9 DEF Ingest, Expire, vars
<1> HIDE DEF o
<1> QED BY <1>2, <1>3, <1>4, <1>6, <1>7, <1>8, <1>9, Zenon DEF Next, Step

\* What a step of process_message takes the sender for.
LEMMA StepTrust ==
    ASSUME TypeOK, TypeOK', RoutingInv, NEW w \in Workers, Step(w), [Next]_vars
    PROVE  /\ pc'[w] = "lookup" => faults' + 1 >= attempt'[w]
           /\ pc'[w] = "extract" => IF context'[w] = "active" THEN Valid(w)' ELSE Blockable(w)'
           /\ pc'[w] = "publish" => IF topic'[w] = "failed" THEN Blockable(w)' ELSE Valid(w)'
<1>0. /\ pc \in [Workers -> Stages \cup {"idle"}]
      /\ attempt \in [Workers -> 1 .. (LookupAttempts + MaxAttempts)]
      /\ context \in [Workers -> Statuses] /\ topic \in [Workers -> Topics]
      /\ faults \in Nat /\ faults' \in Nat /\ faults' >= faults
      /\ LookupAttempts \in Nat
      /\ pc[w] # "idle"
  BY FaultsGrow, StepShape, WorkerBoundsAssumption DEF TypeOK
<1>a. /\ pc[w] = "lookup" => faults + 1 >= attempt[w]
      /\ pc[w] = "extract" => IF context[w] = "active" THEN Valid(w) ELSE Blockable(w)
      /\ pc[w] = "publish" => IF topic[w] = "failed" THEN Blockable(w) ELSE Valid(w)
  BY DEF RoutingInv
<1>b. attempt[w] \in Nat /\ attempt'[w] \in Nat
  BY SMTT(30), WorkerBoundsAssumption DEF TypeOK
<1>c. cur'[w] = cur[w] => (Valid(w) => Valid(w)') /\ (Blockable(w) => Blockable(w)')
  BY <1>0, TrustStays
<1>1. CASE Ack(w) \/ Mark(w) \/ Publish(w) \/ PublishRaises(w) \/ PublishGivesUp(w)
  <2>1. pc'[w] \in {"idle", "ack", "mark"}
    BY <1>0, <1>1 DEF Ack, Forget, Mark, Publish, PublishRaises, PublishGivesUp, Raise,
                      DeadLetter, Goto
  <2> QED BY <2>1
<1>2. CASE Dedup(w) \/ DedupBlind(w)
  <2>1. pc'[w] \in {"verify", "ack"}
    BY <1>0, <1>2 DEF Dedup, DedupBlind, Screen, DeadLetter, Goto
  <2> QED BY <2>1
<1>3. CASE Verify(w) \/ VerifyFails(w)
  <2>1. pc'[w] = "ack" \/ (pc'[w] = "lookup" /\ attempt'[w] = 1)
    BY <1>0, <1>3 DEF Verify, VerifyFails, DeadLetter, Goto
  <2>2. faults' \in Nat
    BY <1>0
  <2>3. pc'[w] = "lookup" => faults' + 1 >= attempt'[w]
    BY <2>1, <2>2
  <2>4. pc'[w] \notin {"extract", "publish"}
    BY <2>1
  <2> QED BY <2>3, <2>4
<1>4. CASE Lookup(w)
  <2>1. /\ pc'[w] = "extract" /\ context'[w] = faculty[KeyOf(w)] /\ cur'[w] = cur[w]
    BY <1>0, <1>4 DEF Lookup, Goto, KeyOf
  <2>2. IF context'[w] = "active" THEN Valid(w) ELSE Blockable(w)
    BY <2>1 DEF Valid, Blockable
  <2> QED BY <1>c, <2>1, <2>2
<1>5. CASE LookupFails(w)
  <2>0. pc[w] = "lookup" /\ faults' = faults + 1
    BY <1>5 DEF LookupFails, Fault
  <2>1. CASE attempt[w] < LookupAttempts
    <3>1. pc'[w] = "lookup" /\ attempt'[w] = attempt[w] + 1
      BY <1>0, <1>5, <2>1 DEF LookupFails, Again
    <3>2. faults' + 1 >= attempt'[w]
      BY <1>0, <1>a, <1>b, <2>0, <3>1
    <3> QED BY <3>1, <3>2
  <2>2. CASE ~(attempt[w] < LookupAttempts)
    <3>1. pc'[w] = "extract" /\ context'[w] = "invalid" /\ cur'[w] = cur[w]
      BY <1>0, <1>5, <2>2 DEF LookupFails, Goto
    <3>2. faults' >= LookupAttempts
      BY <1>0, <1>a, <1>b, <2>0, <2>2
    <3>3. Blockable(w)'
      BY <3>2 DEF Blockable
    <3> QED BY <3>1, <3>3
  <2> QED BY <2>1, <2>2
<1>6. CASE Extract(w)
  <2>1. CASE pc'[w] = "ack"
    BY <2>1
  <2>2. CASE pc'[w] # "ack"
    <3>1. /\ pc[w] = "extract" /\ pc'[w] = "publish" /\ cur'[w] = cur[w]
          /\ topic'[w] \in Routes(w)
      BY <1>0, <1>6, <2>2 DEF Extract, Raise, Goto
    <3>2. (topic'[w] # "failed") = (context[w] = "active")
      BY <3>1 DEF Routes
    <3> QED BY <1>a, <1>c, <3>1, <3>2
  <2> QED BY <2>1, <2>2
<1>7. CASE PublishRetry(w)
  <2>1. pc[w] = "publish" /\ pc'[w] = "publish" /\ topic'[w] = topic[w] /\ cur'[w] = cur[w]
    BY <1>0, <1>7 DEF PublishRetry, Again
  <2> QED BY <1>a, <1>c, <2>1
<1> QED BY <1>1, <1>2, <1>3, <1>4, <1>5, <1>6, <1>7 DEF Step


LEMMA NextRoutingInv ==
    TypeOK /\ TypeOK' /\ RoutingInv /\ [Next]_vars => RoutingInv'
<1> SUFFICES ASSUME TypeOK, TypeOK', RoutingInv, [Next]_vars PROVE RoutingInv'
  OBVIOUS
<1>0. /\ faculty' = faculty
      /\ faults \in Nat /\ faults' \in Nat /\ faults' >= faults /\ LookupAttempts \in Nat
      /\ pc \in [Workers -> Stages \cup {"idle"}]
  BY FaultsGrow, LogGrows, WorkerBoundsAssumption DEF TypeOK
<1>1. ASSUME NEW k \in Keys, NEW t \in Topics, Sent(k, t)'
      PROVE  IF t = "failed" THEN faculty[k] # "active" \/ faults >= LookupAttempts
             ELSE faculty[k] = "active"
  <2>1. CASE Sent(k, t)
    BY <2>1 DEF RoutingInv, BlockedOrActive, Topics
  <2>2. ASSUME NEW w \in Workers, Publish(w), KeyOf(w) = k, topic[w] = t
        PROVE  IF t = "failed" THEN faculty[k] # "active" \/ faults >= LookupAttempts
               ELSE faculty[k] = "active"
    <3>1. pc[w] = "publish"
      BY <2>2 DEF Publish
    <3>2. IF topic[w] = "failed" THEN Blockable(w) ELSE Valid(w)
      BY <3>1 DEF RoutingInv
    <3> QED BY <2>2, <3>2 DEF Blockable, Valid
  <2> QED BY <1>1, <2>1, <2>2, SentReason
<1>2. BlockedOrActive'
  <2>1. ASSUME NEW k \in Keys, Sent(k, "validated")' \/ Sent(k, "review")'
        PROVE  faculty'[k] = "active"
    BY <1>0, <1>1, <2>1 DEF Topics
  <2>2. ASSUME NEW k \in Keys, Sent(k, "failed")'
        PROVE  faculty'[k] # "active" \/ faults' >= LookupAttempts
    <3>1. faculty[k] # "active" \/ faults >= LookupAttempts
      BY <1>1, <2>2 DEF Topics
    <3> QED BY <1>0, <3>1
  <2> QED BY <2>1, <2>2 DEF BlockedOrActive
<1>3. ASSUME NEW w \in Workers
      PROVE  /\ pc'[w] = "lookup" => faults' + 1 >= attempt'[w]
             /\ pc'[w] = "extract" => IF context'[w] = "active" THEN Valid(w)' ELSE Blockable(w)'
             /\ pc'[w] = "publish" => IF topic'[w] = "failed" THEN Blockable(w)' ELSE Valid(w)'
  <2> DEFINE Inv == /\ pc'[w] = "lookup" => faults' + 1 >= attempt'[w]
                    /\ pc'[w] = "extract" => IF context'[w] = "active"
                                             THEN Valid(w)' ELSE Blockable(w)'
                    /\ pc'[w] = "publish" => IF topic'[w] = "failed"
                                             THEN Blockable(w)' ELSE Valid(w)'
  <2>1. ASSUME pc'[w] = pc[w], cur'[w] = cur[w], attempt'[w] = attempt[w],
               context'[w] = context[w], topic'[w] = topic[w]
        PROVE  Inv
    <3>1. /\ pc[w] = "lookup" => faults + 1 >= attempt[w]
          /\ pc[w] = "extract" => IF context[w] = "active" THEN Valid(w) ELSE Blockable(w)
          /\ pc[w] = "publish" => IF topic[w] = "failed" THEN Blockable(w) ELSE Valid(w)
      BY DEF RoutingInv
    <3>2. attempt[w] \in Nat
      BY WorkerBoundsAssumption DEF TypeOK
    <3>3. pc[w] # "idle" => (Valid(w) => Valid(w)') /\ (Blockable(w) => Blockable(w)')
      BY <2>1, TrustStays
    <3>4. pc'[w] = "lookup" => faults' + 1 >= attempt'[w]
      BY <1>0, <2>1, <3>1, <3>2
    <3>5. pc'[w] = "extract" => IF context'[w] = "active" THEN Valid(w)' ELSE Blockable(w)'
      BY <2>1, <3>1, <3>3
    <3>6. pc'[w] = "publish" => IF topic'[w] = "failed" THEN Blockable(w)' ELSE Valid(w)'
      BY <2>1, <3>1, <3>3
    <3> QED BY <3>4, <3>5, <3>6
  <2>2. ASSUME pc'[w] \in {"idle", "dedup"} PROVE Inv
    BY <2>2
  <2>3. CASE Step(w)
    BY <2>3, StepTrust
  <2>4. CASE \E v \in Workers \ {w} : Step(v)
    BY <2>1, <2>4, StepShape
  <2>5. CASE \E v \in Workers : Crash(v) \/ Poll(v)
    <3>1. PICK v \in Workers : Crash(v) \/ Poll(v)
      BY <2>5
    <3>2. CASE v = w
      <4>1. pc'[w] \in {"idle", "dedup"}
        BY <1>0, <3>1, <3>2 DEF Crash, Forget, Poll
      <4> QED BY <2>2, <4>1
    <3>3. CASE v # w
      <4>1. /\ attempt \in [Workers -> 1 .. (LookupAttempts + MaxAttempts)]
            /\ context \in [Workers -> Statuses] /\ topic \in [Workers -> Topics]
            /\ cur \in [Workers -> Nat]
        BY DEF TypeOK
      <4>2. /\ pc'[w] = pc[w] /\ cur'[w] = cur[w] /\ attempt'[w] = attempt[w]
            /\ context'[w] = context[w] /\ topic'[w] = topic[w]
        BY <1>0, <3>1, <3>3, <4>1 DEF Crash, Forget, Poll
      <4> QED BY <2>1, <4>2
    <3> QED BY <3>2, <3>3
  <2>6. CASE UNCHANGED workVars
    BY <2>1, <2>6 DEF workVars
  <2> QED BY <2>3, <2>4, <2>5, <2>6
       DEF Next, vars, Ingest, Rebalance, Expire, Deliver, PollNothing
<1> QED BY <1>2, <1>3 DEF RoutingInv


-----------------------------------------------------------------------------
(***************************************************************************)
(* Deduplication.                                                          *)
(***************************************************************************)

LEMMA WorkerSets ==
    ASSUME NEW S \in SUBSET Workers, NEW T \in SUBSET S
    PROVE  /\ Cardinality(S) \in Nat /\ Cardinality(T) \in Nat
           /\ Cardinality(T) <= Cardinality(S)
           /\ \A w \in S : Cardinality(S \ {w}) = Cardinality(S) - 1
           /\ \A w \in Workers : Cardinality(S \cup {w}) <= Cardinality(S) + 1
<1>1. IsFiniteSet(S)
  BY FS_Subset, WorkersAssumption
<1>2. IsFiniteSet(T) /\ Cardinality(T) <= Cardinality(S)
  BY <1>1, FS_Subset
<1>3. Cardinality(S) \in Nat /\ Cardinality(T) \in Nat
  BY <1>1, <1>2, FS_CardinalityType
<1>4. ASSUME NEW w \in S PROVE Cardinality(S \ {w}) = Cardinality(S) - 1
  BY <1>1, FS_RemoveElement
<1>5. ASSUME NEW w \in Workers PROVE Cardinality(S \cup {w}) <= Cardinality(S) + 1
  <2>1. Cardinality(S \cup {w}) \in {Cardinality(S), Cardinality(S) + 1}
    BY <1>1, FS_AddElement
  <2> QED BY <1>3, <2>1
<1> QED BY <1>2, <1>3, <1>4, <1>5

LEMMA CountType ==
    ASSUME TypeOK, TypeOK', NEW k \in Keys
    PROVE  /\ papers[k] \in Nat /\ papers'[k] \in Nat /\ faults \in Nat /\ faults' \in Nat
           /\ Cardinality(Stale(k)) \in Nat /\ Cardinality(Stale(k)') \in Nat
           /\ Due(k) = IF Spent(k) THEN 0 ELSE 1
           /\ Due(k)' = IF Spent(k)' THEN 0 ELSE 1
           /\ Stale(k) \in SUBSET Workers /\ Stale(k)' \in SUBSET Workers
<1>1. papers[k] \in Nat /\ papers'[k] \in Nat /\ faults \in Nat /\ faults' \in Nat
  BY WorkerBoundsAssumption DEF TypeOK
<1>2. Stale(k) \in SUBSET Workers /\ Stale(k)' \in SUBSET Workers
  BY DEF Stale
<1>3. Cardinality(Stale(k)) \in Nat /\ Cardinality(Stale(k)') \in Nat
  BY <1>2, WorkerSets
<1> QED BY <1>1, <1>2, <1>3 DEF Due

LEMMA Tally ==
    ASSUME NEW n \in Nat, NEW c \in Nat, NEW c2 \in Nat, NEW d \in Nat, NEW d2 \in Nat,
           NEW f \in Nat, NEW f2 \in Nat, n + c + d <= 1 + f, c2 <= c,
           (f2 >= f /\ d2 <= d) \/ (f2 = f + 1 /\ d2 <= d + 1)
    PROVE  n + c2 + d2 <= 1 + f2
OBVIOUS

\* A step that publishes nothing.
LEMMA CountStays ==
    ASSUME TypeOK, TypeOK', CountInv, NEW k \in Keys, papers'[k] = papers[k],
           Stale(k)' \subseteq Stale(k), faults' = faults \/ faults' = faults + 1,
           Spent(k) => Spent(k)' \/ faults' = faults + 1
    PROVE  papers'[k] + Cardinality(Stale(k)') + Due(k)' <= 1 + faults'
<1>1. Cardinality(Stale(k)') <= Cardinality(Stale(k))
  BY CountType, WorkerSets
<1>2. papers[k] + Cardinality(Stale(k)) + Due(k) <= 1 + faults
  BY DEF CountInv
<1>3. Due(k) \in {0, 1} /\ Due(k)' \in {0, 1}
  BY CountType
<1>4. Due(k)' <= Due(k) \/ (faults' = faults + 1 /\ Due(k)' <= Due(k) + 1)
  BY CountType
<1>5. Cardinality(Stale(k)) \in Nat /\ Cardinality(Stale(k)') \in Nat
  BY CountType
<1>6. papers[k] \in Nat /\ faults \in Nat /\ faults' \in Nat
  BY CountType
<1>7. Due(k) \in Nat /\ Due(k)' \in Nat
  BY <1>3
<1>8. \/ faults' >= faults /\ Due(k)' <= Due(k)
      \/ faults' = faults + 1 /\ Due(k)' <= Due(k) + 1
  BY <1>4, <1>6
<1>9. papers[k] + Cardinality(Stale(k)') + Due(k)' <= 1 + faults'
  BY <1>1, <1>2, <1>5, <1>6, <1>7, <1>8, Tally
<1> QED BY <1>9

LEMMA SpentStays ==
    ASSUME TypeOK, [Next]_vars, NEW k \in Keys, owner' = owner, marked \subseteq marked',
           owner \in Workers => pc'[owner] = pc[owner] /\ cur'[owner] = cur[owner], Spent(k)
    PROVE  Spent(k)'
<1>1. CASE owner \notin Workers
  BY <1>1 DEF Spent
<1>2. CASE owner \in Workers /\ pc[owner] = "idle"
  BY <1>2 DEF Spent, Passed
<1>3. CASE owner \in Workers /\ pc[owner] # "idle"
  <2>1. KeyOf(owner)' = KeyOf(owner)
    BY <1>3, KeyStays
  <2> QED BY <1>3, <2>1 DEF Spent
<1> QED BY <1>1, <1>2, <1>3

LEMMA StaleStays ==
    ASSUME TypeOK, [Next]_vars, NEW k \in Keys, NEW v \in Stale(k)', v # owner,
           pc[v] \in Ahead, cur'[v] = cur[v]
    PROVE  v \in Stale(k)
<1>1. v \in Workers /\ KeyOf(v)' = k /\ pc[v] # "idle"
  BY DEF Stale, Ahead, Passed
<1>2. KeyOf(v)' = KeyOf(v)
  BY <1>1, KeyStays
<1> QED BY <1>1, <1>2 DEF Stale


\* What a step of process_message may change of the count.
LEMMA StepCount ==
    ASSUME TypeOK, NEW w \in Workers, Step(w)
    PROVE  /\ marked \subseteq marked' /\ (faults' = faults \/ faults' = faults + 1)
           /\ pc'[w] \in Ahead => pc[w] \in Ahead /\ cur'[w] = cur[w]
           /\ pc'[w] \in Passed => pc[w] \in Passed \/ Dedup(w) \/ DedupBlind(w)
           /\ papers' = papers \/ Publish(w)
<1>0. pc \in [Workers -> Stages \cup {"idle"}] /\ cur \in [Workers -> Nat]
  BY DEF TypeOK
<1>a. Fault => faults' = faults + 1
  BY DEF Fault
<1>1. CASE Dedup(w) \/ DedupBlind(w)
  BY <1>0, <1>a, <1>1
     DEF Dedup, DedupBlind, Screen, DeadLetter, Goto, sendVars, Passed, Ahead
<1>2. CASE Verify(w) \/ VerifyFails(w) \/ PublishGivesUp(w)
  BY <1>0, <1>a, <1>2
     DEF Verify, VerifyFails, PublishGivesUp, DeadLetter, Goto, sendVars, Passed, Ahead
<1>3. CASE Lookup(w) \/ LookupFails(w)
  BY <1>0, <1>a, <1>3 DEF Lookup, LookupFails, Goto, Again, sendVars, Passed, Ahead
<1>4. CASE Extract(w)
  BY <1>0, <1>a, <1>4 DEF Extract, Raise, Goto, sendVars, Passed, Ahead
<1>5. CASE PublishRetry(w) \/ PublishRaises(w)
  BY <1>0, <1>a, <1>5 DEF PublishRetry, PublishRaises, Raise, Goto, Again, sendVars, Passed, Ahead
<1>6. CASE Publish(w) \/ Mark(w)
  BY <1>0, <1>a, <1>6 DEF Publish, Mark, Goto, sendVars, Passed, Ahead
<1>7. CASE Ack(w)
  BY <1>0, <1>a, <1>7 DEF Ack, Forget, sendVars, Passed, Ahead
<1> QED BY <1>1, <1>2, <1>3, <1>4, <1>5, <1>6, <1>7 DEF Step

\* Without a fault the owner does not get past a marker.
LEMMA OwnerSpent ==
    ASSUME TypeOK, [Next]_vars, NEW k \in Keys, NEW w \in Workers, w = owner, Step(w), Spent(k)
    PROVE  Spent(k)' \/ faults' = faults + 1
<1>0. /\ owner' = owner /\ pc[w] # "idle" /\ marked \subseteq marked'
      /\ pc \in [Workers -> Stages \cup {"idle"}]
  BY StepShape, StepCount DEF TypeOK
<1>1. CASE pc[w] = "mark"
  <2>1. Mark(w)
    BY <1>1 DEF Step, Dedup, DedupBlind, Verify, VerifyFails, Lookup, LookupFails, Extract,
                Publish, PublishRetry, PublishGivesUp, PublishRaises, Ack
  <2>2. pc'[w] = "ack"
    BY <1>0, <2>1 DEF Mark, Goto
  <2>3. CASE faults' = faults + 1
    BY <2>3
  <2>4. CASE marked' = marked \cup {KeyOf(w)}
    <3>1. k \in marked'
      BY <1>1, <2>4 DEF Spent
    <3> QED BY <1>0, <2>2, <3>1 DEF Spent, Passed
  <2> QED BY <2>1, <2>3, <2>4 DEF Mark, Fault, KeyOf
<1>2. CASE pc[w] # "mark"
  <2>1. k \in marked /\ ~(pc[w] \in Passed /\ KeyOf(w) = k)
    BY <1>2 DEF Spent
  <2>2. ASSUME pc'[w] \in Passed, KeyOf(w)' = k PROVE faults' = faults + 1
    <3>1. cur'[w] = cur[w]
      BY <2>2, StepCount DEF Ahead
    <3>2. KeyOf(w) = k
      BY <1>0, <2>2, <3>1, KeyStays
    <3>3. Dedup(w) \/ DedupBlind(w)
      BY <2>1, <2>2, <3>2, StepCount
    <3>4. CASE Dedup(w)
      <4>1. pc'[w] = "ack"
        BY <1>0, <2>1, <3>2, <3>4 DEF Dedup, Goto, KeyOf
      <4> QED BY <2>2, <4>1 DEF Passed
    <3>5. CASE DedupBlind(w)
      BY <3>5 DEF DedupBlind, Fault
    <3> QED BY <3>3, <3>4, <3>5
  <2> QED BY <1>0, <2>1, <2>2 DEF Spent
<1> QED BY <1>1, <1>2

\* Every paper is paid for: by the fault that made its worker a stale one, or
\* because none of its key was due.
LEMMA PublishCount ==
    ASSUME TypeOK, TypeOK', CountInv, [Next]_vars, NEW w \in Workers, Publish(w),
           NEW k \in Keys
    PROVE  papers'[k] + Cardinality(Stale(k)') + Due(k)' <= 1 + faults'
<1>0. /\ owner' = owner /\ marked' = marked /\ faults' = faults /\ cur' = cur
      /\ pc[w] = "publish" /\ pc' = [pc EXCEPT ![w] = "mark"] /\ KeyOf(w) \in Keys
      /\ pc \in [Workers -> Stages \cup {"idle"}] /\ papers \in [Keys -> Nat]
      /\ papers' = [papers EXCEPT ![KeyOf(w)] = @ + 1]
  BY EventType DEF Publish, Goto, TypeOK, KeyOf, kafkaVars
<1>1. KeyOf(w)' = KeyOf(w) /\ pc'[w] = "mark"
  BY <1>0, KeyStays
<1>2. Stale(k)' \subseteq Stale(k) \ {w}
  <2> SUFFICES ASSUME NEW v \in Stale(k)' PROVE v \in Stale(k) /\ v # w
    OBVIOUS
  <2>1. v \in Workers /\ v # owner /\ pc'[v] \in Ahead
    BY <1>0 DEF Stale
  <2>2. v # w
    BY <1>1, <2>1 DEF Ahead, Passed
  <2>3. pc[v] \in Ahead
    BY <1>0, <2>1, <2>2
  <2> QED BY <1>0, <2>1, <2>2, <2>3, StaleStays
<1>3. papers[k] + Cardinality(Stale(k)) + Due(k) <= 1 + faults
  BY DEF CountInv
<1>4. CASE KeyOf(w) # k
  <2>1. papers'[k] = papers[k]
    BY <1>0, <1>4
  <2>2. Spent(k) => Spent(k)'
    <3>1. CASE w = owner
      BY <1>0, <1>1, <1>4, <3>1 DEF Spent
    <3>2. CASE w # owner
      BY <1>0, <3>2, SpentStays
    <3> QED BY <3>1, <3>2
  <2> QED BY <1>0, <1>2, <2>1, <2>2, CountStays
<1>5. CASE KeyOf(w) = k /\ w # owner
  <2>1. w \in Stale(k)
    BY <1>0, <1>5 DEF Stale, Ahead, Passed
  <2>2. Cardinality(Stale(k) \ {w}) = Cardinality(Stale(k)) - 1
    BY <2>1, CountType, WorkerSets
  <2>3. Cardinality(Stale(k)') <= Cardinality(Stale(k) \ {w})
    BY <1>2, CountType, WorkerSets
  <2>4. papers'[k] = papers[k] + 1
    BY <1>0, <1>5
  <2>5. Due(k)' <= Due(k)
    <3>1. Spent(k) => Spent(k)'
      BY <1>0, <1>5, SpentStays
    <3> QED BY <3>1, CountType
  <2>6. Due(k) \in Nat /\ Due(k)' \in Nat
    BY CountType
  <2>7. Cardinality(Stale(k)) \in Nat /\ Cardinality(Stale(k)') \in Nat /\ papers[k] \in Nat
    BY CountType
  <2>8. Cardinality(Stale(k)') <= Cardinality(Stale(k)) - 1
    BY <2>2, <2>3
  <2>9. (papers[k] + 1) + Cardinality(Stale(k)') + Due(k)' <= 1 + faults
    <3>1. faults \in Nat
      BY CountType
    <3>2. papers[k] + (Cardinality(Stale(k)') + 1) + Due(k)' <= 1 + faults
      BY <1>3, <2>5, <2>6, <2>7, <2>8, <3>1, Tally
    <3> QED BY <2>6, <2>7, <3>1, <3>2
  <2> QED BY <1>0, <2>4, <2>9
<1>6. CASE KeyOf(w) = k /\ w = owner
  <2>1. Due(k) = 1 /\ Due(k)' = 0
    BY <1>0, <1>1, <1>6, CountType DEF Spent, Passed
  <2>2. Cardinality(Stale(k)') <= Cardinality(Stale(k))
    BY <1>2, CountType, WorkerSets
  <2>3. papers'[k] = papers[k] + 1
    BY <1>0, <1>6
  <2>4. Cardinality(Stale(k)) \in Nat /\ Cardinality(Stale(k)') \in Nat /\ papers[k] \in Nat
        /\ faults \in Nat
    BY CountType
  <2>5. papers[k] + Cardinality(Stale(k)) + 1 <= 1 + faults
    BY <1>3, <2>1
  <2>6. papers[k] + Cardinality(Stale(k)') + 1 <= 1 + faults
    BY <2>2, <2>4, <2>5, Tally
  <2>7. (papers[k] + 1) + Cardinality(Stale(k)') + 0 <= 1 + faults
    BY <2>4, <2>6
  <2> QED BY <1>0, <2>1, <2>3, <2>7
<1> QED BY <1>4, <1>5, <1>6


\* The partition goes to another worker: the one that loses it becomes a stale
\* one, at the cost of a fault.
LEMMA RebalanceCount ==
    ASSUME TypeOK, TypeOK', CountInv, [Next]_vars, NEW w \in Workers, Rebalance(w),
           NEW k \in Keys
    PROVE  papers'[k] + Cardinality(Stale(k)') + Due(k)' <= 1 + faults'
<1>0. /\ owner' = w /\ pc[w] = "idle" /\ UNCHANGED <<pc, cur, marked, papers>>
      /\ owner \in Workers \cup {NoWorker} /\ NoWorker \notin Workers
  BY WorkersAssumption DEF Rebalance, workVars, sendVars, TypeOK
<1>1. k \in marked => Spent(k)'
  BY <1>0 DEF Spent, Passed
<1>2. \A v \in Stale(k)' : v \in Workers /\ v # w /\ pc[v] \in Ahead /\ KeyOf(v) = k
  <2> SUFFICES ASSUME NEW v \in Stale(k)'
               PROVE  v \in Workers /\ v # w /\ pc[v] \in Ahead /\ KeyOf(v) = k
    OBVIOUS
  <2>1. v \in Workers /\ v # w /\ pc[v] \in Ahead /\ KeyOf(v)' = k
    BY <1>0 DEF Stale
  <2> QED BY <1>0, <2>1, KeyStays DEF Ahead, Passed
<1>3. CASE owner = NoWorker
  <2>1. Stale(k)' \subseteq Stale(k)
    BY <1>0, <1>2, <1>3 DEF Stale
  <2>2. Spent(k) => Spent(k)'
    BY <1>0, <1>1, <1>3 DEF Spent
  <2>3. faults' = faults
    BY <1>3 DEF Rebalance
  <2> QED BY <1>0, <2>1, <2>2, <2>3, CountStays
<1>4. CASE owner # NoWorker
  <2>0. faults' = faults + 1
    BY <1>4 DEF Rebalance, Fault
  <2>1. CASE owner \notin Stale(k)'
    <3>1. Stale(k)' \subseteq Stale(k)
      BY <1>0, <1>2, <2>1 DEF Stale
    <3> QED BY <1>0, <2>0, <3>1, CountStays
  <2>2. CASE owner \in Stale(k)'
    <3>1. owner \in Workers /\ pc[owner] \in Ahead /\ KeyOf(owner) = k
      BY <1>2, <2>2
    <3>2. Stale(k)' \subseteq Stale(k) \cup {owner}
      BY <1>2 DEF Stale
    <3>3. Due(k)' <= Due(k)
      <4>1. Spent(k) => k \in marked
        BY <3>1 DEF Spent, Ahead, Passed
      <4> QED BY <1>1, <4>1, CountType
    <3>4. Stale(k) \cup {owner} \in SUBSET Workers
      BY <3>1, CountType
    <3>5. /\ Cardinality(Stale(k)') <= Cardinality(Stale(k) \cup {owner})
          /\ Cardinality(Stale(k) \cup {owner}) \in Nat
      BY <3>2, <3>4, WorkerSets
    <3>6. Cardinality(Stale(k) \cup {owner}) <= Cardinality(Stale(k)) + 1
      BY <3>1, CountType, WorkerSets
    <3>7. papers[k] + Cardinality(Stale(k)) + Due(k) <= 1 + faults
      BY DEF CountInv
    <3>8. /\ Cardinality(Stale(k)) \in Nat /\ Cardinality(Stale(k)') \in Nat
          /\ papers[k] \in Nat /\ faults \in Nat /\ Due(k) \in Nat /\ Due(k)' \in Nat
      BY CountType
    <3>9. Cardinality(Stale(k)') <= Cardinality(Stale(k)) + 1
      BY <3>5, <3>6, <3>8
    <3>10. papers[k] + (Cardinality(Stale(k)) + 1) + Due(k) <= 1 + (faults + 1)
      BY <3>7, <3>8
    <3>11. Cardinality(Stale(k)) + 1 \in Nat /\ faults + 1 \in Nat
      BY <3>8
    <3>12. faults + 1 >= faults + 1
      BY <3>11
    <3>13. papers[k] + Cardinality(Stale(k)') + Due(k)' <= 1 + (faults + 1)
      BY <3>3, <3>8, <3>9, <3>10, <3>11, <3>12, Tally
    <3> QED BY <1>0, <2>0, <3>13
  <2> QED BY <2>1, <2>2
<1> QED BY <1>3, <1>4

LEMMA NextCountInv ==
    TypeOK /\ TypeOK' /\ CountInv /\ [Next]_vars => CountInv'
<1> SUFFICES ASSUME TypeOK, TypeOK', CountInv, [Next]_vars, NEW k \in Keys
             PROVE  papers'[k] + Cardinality(Stale(k)') + Due(k)' <= 1 + faults'
  BY DEF CountInv
<1> DEFINE Goal == papers'[k] + Cardinality(Stale(k)') + Due(k)' <= 1 + faults'
<1>0. /\ pc \in [Workers -> Stages \cup {"idle"}] /\ cur \in [Workers -> Nat]
      /\ owner \in Workers \cup {NoWorker} /\ NoWorker \notin Workers
  BY WorkersAssumption DEF TypeOK
<1>1. ASSUME UNCHANGED <<owner, workVars, papers>>,
             (marked' = marked /\ faults' = faults) \/ faults' = faults + 1
      PROVE  Goal
  <2>1. Stale(k)' \subseteq Stale(k)
    <3> SUFFICES ASSUME NEW v \in Stale(k)' PROVE v \in Stale(k)
      OBVIOUS
    <3>1. v # owner /\ pc[v] \in Ahead /\ cur' = cur
      BY <1>1 DEF Stale, workVars
    <3> QED BY <3>1, StaleStays
  <2>2. marked' = marked /\ Spent(k) => Spent(k)'
    BY <1>1, SpentStays DEF workVars
  <2> QED BY <1>1, <2>1, <2>2, CountStays
<1>2. ASSUME NEW w \in Workers, Rebalance(w) PROVE Goal
  BY <1>2, RebalanceCount
<1>3. ASSUME NEW w \in Workers, Crash(w) PROVE Goal
  <2>1. /\ faults' = faults + 1 /\ papers' = papers
        /\ pc'[w] = "idle" /\ (owner' = owner \/ (owner' = NoWorker /\ owner = w))
        /\ \A v \in Workers \ {w} : pc'[v] = pc[v] /\ cur'[v] = cur[v]
    BY <1>0, <1>3 DEF Crash, Forget, Fault
  <2>2. Stale(k)' \subseteq Stale(k)
    <3> SUFFICES ASSUME NEW v \in Stale(k)' PROVE v \in Stale(k)
      OBVIOUS
    <3>1. v \in Workers /\ v # owner' /\ pc'[v] \in Ahead
      BY DEF Stale
    <3>2. v # w
      BY <2>1, <3>1 DEF Ahead, Passed
    <3>3. v # owner /\ pc[v] \in Ahead /\ cur'[v] = cur[v]
      BY <1>0, <2>1, <3>1, <3>2
    <3> QED BY <3>3, StaleStays
  <2> QED BY <2>1, <2>2, CountStays
<1>4. ASSUME NEW w \in Workers, Poll(w) PROVE Goal
  <2>1. /\ owner = w /\ owner' = w /\ pc[w] = "idle" /\ pc'[w] = "dedup"
        /\ \A v \in Workers \ {w} : pc'[v] = pc[v] /\ cur'[v] = cur[v]
        /\ UNCHANGED <<marked, papers, faults>>
    BY <1>0, <1>4 DEF Poll, sendVars
  <2>2. Stale(k)' \subseteq Stale(k)
    <3> SUFFICES ASSUME NEW v \in Stale(k)' PROVE v \in Stale(k)
      OBVIOUS
    <3>1. v \in Workers /\ v # w /\ pc'[v] \in Ahead
      BY <2>1 DEF Stale
    <3> QED BY <2>1, <3>1, StaleStays
  <2>3. Spent(k) => Spent(k)'
    BY <2>1 DEF Spent, Passed
  <2> QED BY <2>1, <2>2, <2>3, CountStays
<1>5. ASSUME NEW w \in Workers, Step(w) PROVE Goal
  <2>0. /\ owner' = owner /\ marked \subseteq marked'
        /\ faults' = faults \/ faults' = faults + 1
        /\ \A v \in Workers \ {w} : pc'[v] = pc[v] /\ cur'[v] = cur[v]
    BY <1>5, StepShape, StepCount
  <2>1. CASE Publish(w)
    BY <2>1, PublishCount
  <2>2. CASE papers' = papers
    <3>1. Stale(k)' \subseteq Stale(k)
      <4> SUFFICES ASSUME NEW v \in Stale(k)' PROVE v \in Stale(k)
        OBVIOUS
      <4>1. v \in Workers /\ v # owner /\ pc'[v] \in Ahead
        BY <2>0 DEF Stale
      <4>2. pc[v] \in Ahead /\ cur'[v] = cur[v]
        BY <1>5, <2>0, <4>1, StepCount
      <4> QED BY <4>1, <4>2, StaleStays
    <3>2. Spent(k) => Spent(k)' \/ faults' = faults + 1
      <4>1. CASE w = owner
        BY <1>5, <4>1, OwnerSpent
      <4>2. CASE w # owner
        BY <2>0, <4>2, SpentStays
      <4> QED BY <4>1, <4>2
    <3> QED BY <2>0, <2>2, <3>1, <3>2, CountStays
  <2> QED BY <1>5, <2>1, <2>2, StepCount
<1>6. ASSUME NEW w \in Workers, NEW o \in Outputs, Deliver(w, o) PROVE Goal
  <2>1. UNCHANGED <<owner, workVars, papers, marked>>
    BY <1>6 DEF Deliver, kafkaVars
  <2>2. faults' = faults \/ faults' = faults + 1
    BY <1>6 DEF Deliver, Fault
  <2> QED BY <1>1, <2>1, <2>2
<1>7. ASSUME NEW j \in Keys, Expire(j) PROVE Goal
  BY <1>1, <1>7 DEF Expire, Fault, kafkaVars, sendVars
<1>8. ASSUME (\E e \in Sources : Ingest(e)) \/ UNCHANGED vars PROVE Goal
  BY <1>1, <1>8 DEF Ingest, sendVars, vars, kafkaVars
<1> HIDE DEF Goal
<1>9. Goal
  BY <1>2, <1>3, <1>4, <1>5, <1>6, <1>7, <1>8, Zenon DEF Next, PollNothing
<1> QED BY <1>9 DEF Goal

-----------------------------------------------------------------------------
(***************************************************************************)
(* The theorems.                                                           *)
(***************************************************************************)

LEMMA InitInv == Init => IndInv
<1> SUFFICES ASSUME Init PROVE IndInv
  OBVIOUS
<1>1. TypeOK
  BY InitTypeOK
<1>2. log = <<>> /\ Len(log) = 0
  BY DEF Init
<1>3. OffsetInv /\ HandledInv
  BY <1>2, WorkersAssumption
     DEF Init, OffsetInv, HandledInv, CommittedHandled, MarkedMeansPublished
<1>4. \A k \in Keys, t \in Topics : ~Sent(k, t)
  BY DEF Init, Sent, Outputs, Topics
<1>5. RoutingInv
  BY <1>4 DEF Init, RoutingInv, BlockedOrActive, Topics
<1>6. ASSUME NEW k \in Keys PROVE papers[k] + Cardinality(Stale(k)) + Due(k) <= 1 + faults
  <2>1. Stale(k) = {} /\ ~Spent(k)
    BY WorkersAssumption DEF Init, Stale, Spent, Ahead, Passed
  <2>2. Cardinality(Stale(k)) = 0
    BY <2>1, FS_EmptySet
  <2>3. Due(k) = 1 /\ papers[k] = 0 /\ faults = 0
    BY <2>1 DEF Due, Init
  <2> QED BY <2>2, <2>3
<1> QED BY <1>1, <1>3, <1>5, <1>6 DEF IndInv, CountInv

LEMMA SpecInv == Spec => []IndInv
<1>1. IndInv /\ [Next]_vars => IndInv'
  <2> SUFFICES ASSUME IndInv, [Next]_vars PROVE IndInv'
    OBVIOUS
  <2>1. TypeOK'
    BY NextTypeOK DEF IndInv
  <2>2. OffsetInv'
    BY NextOffsetInv DEF IndInv
  <2>3. HandledInv' /\ RoutingInv' /\ CountInv'
    BY <2>1, <2>2, NextHandledInv, NextRoutingInv, NextCountInv DEF IndInv
  <2> QED BY <2>1, <2>2, <2>3 DEF IndInv
<1> QED BY <1>1, InitInv, PTL DEF Spec

\* Every variable keeps its type: the retries stay within their budgets and a
\* worker at work has an event of the partition.
THEOREM TypeCorrectness == Spec => []TypeOK
<1>1. IndInv => TypeOK
  BY DEF IndInv
<1> QED BY <1>1, SpecInv, PTL

\* The group's offset never passes an event of ingest.raw that is still to be
\* handled (run_worker_loop commits after process_message only).
THEOREM CommitSoundness == Spec => []CommittedHandled
<1>1. IndInv => CommittedHandled
  BY DEF IndInv, HandledInv
<1> QED BY <1>1, SpecInv, PTL

\* A key's marker in Redis is there only after a paper of it was handed to a
\* producer (mark_processed follows publish_to_topic).
THEOREM MarkerSoundness == Spec => []MarkedMeansPublished
<1>1. IndInv => MarkedMeansPublished
  BY DEF IndInv, HandledInv
<1> QED BY <1>1, SpecInv, PTL

\* Only an active faculty's paper reaches papers.validated or papers.review, and
\* only LookupAttempts failing calls block it (get_faculty, compute_routing).
THEOREM RoutingSoundness == Spec => []BlockedOrActive
<1>1. IndInv => BlockedOrActive
  BY DEF IndInv, RoutingInv
<1> QED BY <1>1, SpecInv, PTL

\* Every paper of a key after its first takes a fault of its own, however many
\* workers take the partition over and however often module 2 sends the event.
THEOREM DeduplicationSoundness == Spec => []PapersNeedFaults
<1>1. IndInv => PapersNeedFaults
  <2> SUFFICES ASSUME IndInv, NEW k \in Keys PROVE papers[k] <= 1 + faults
    BY DEF PapersNeedFaults
  <2>1. Stale(k) \in SUBSET Workers
    BY DEF Stale
  <2>2. Cardinality(Stale(k)) \in Nat /\ Due(k) \in {0, 1}
    BY <2>1, WorkerSets DEF Due
  <2>3. papers[k] \in Nat /\ faults \in Nat
    BY WorkerBoundsAssumption DEF IndInv, TypeOK
  <2>4. papers[k] + Cardinality(Stale(k)) + Due(k) <= 1 + faults
    BY DEF IndInv, CountInv
  <2> QED BY <2>2, <2>3, <2>4
<1> QED BY <1>1, SpecInv, PTL

-----------------------------------------------------------------------------
(***************************************************************************)
(* The group implements PaperIntake.                                       *)
(***************************************************************************)

\* What the stages an event has come to say of its form.
Sound(w) ==
    /\ pc[w] \in {"verify", "lookup", "extract", "publish"} => Event(w).form # "invalid"
    /\ pc[w] \in {"lookup", "extract", "publish"} => Event(w).form # "tampered"
    /\ pc[w] = "publish" => Event(w).form # "poison"

FormInv == \A w \in Workers : Sound(w)

\* A step takes an event on only if its form lets it.
LEMMA StepSound ==
    ASSUME TypeOK, NEW w \in Workers, Sound(w), Step(w), [Next]_vars
    PROVE  Sound(w)'
<1>1. CASE pc'[w] \in {"idle", "dedup", "mark", "ack"}
  BY <1>1 DEF Sound
<1>2. CASE pc'[w] \notin {"idle", "dedup", "mark", "ack"}
  <2>0. pc \in [Workers -> Stages \cup {"idle"}]
    BY DEF TypeOK
  <2>1. cur'[w] = cur[w] /\ pc[w] # "idle"
    BY <1>2, StepShape
  <2>2. Event(w)' = Event(w)
    BY <2>1, KeyStays
  <2>3. CASE Dedup(w) \/ DedupBlind(w)
    <3>1. Event(w).form # "invalid" /\ pc'[w] = "verify"
      BY <1>2, <2>0, <2>3 DEF Dedup, DedupBlind, Screen, DeadLetter, Goto
    <3> QED BY <2>2, <3>1 DEF Sound
  <2>4. CASE Verify(w) \/ VerifyFails(w)
    <3>1. Event(w).form # "tampered" /\ pc'[w] = "lookup" /\ pc[w] = "verify"
      BY <1>2, <2>0, <2>4 DEF Verify, VerifyFails, DeadLetter, Goto
    <3> QED BY <2>2, <3>1 DEF Sound
  <2>5. CASE Lookup(w) \/ LookupFails(w)
    <3>1. pc'[w] \in {"lookup", "extract"} /\ pc[w] = "lookup"
      BY <2>0, <2>5 DEF Lookup, LookupFails, Goto, Again
    <3> QED BY <2>2, <3>1 DEF Sound
  <2>6. CASE Extract(w)
    <3>1. Event(w).form # "poison" /\ pc'[w] = "publish" /\ pc[w] = "extract"
      BY <1>2, <2>0, <2>6 DEF Extract, Raise, Goto
    <3> QED BY <2>2, <3>1 DEF Sound
  <2>7. CASE PublishRetry(w)
    <3>1. pc'[w] = "publish" /\ pc[w] = "publish"
      BY <2>0, <2>7 DEF PublishRetry, Again
    <3> QED BY <2>2, <3>1 DEF Sound
  <2>8. CASE Publish(w) \/ PublishGivesUp(w) \/ PublishRaises(w) \/ Mark(w) \/ Ack(w)
    BY <1>2, <2>0, <2>8
       DEF Publish, PublishGivesUp, DeadLetter, PublishRaises, Raise, Mark, Ack, Forget, Goto
  <2> QED BY <2>3, <2>4, <2>5, <2>6, <2>7, <2>8 DEF Step
<1> QED BY <1>1, <1>2

\* What a step leaves to a worker that does not take it: its event and its
\* stage, or nothing.
LEMMA OthersStay ==
    ASSUME TypeOK, [Next]_vars, NEW w \in Workers, ~Step(w)
    PROVE  \/ pc'[w] \in {"idle", "dedup"}
           \/ /\ pc'[w] = pc[w] /\ cur'[w] = cur[w] /\ attempt'[w] = attempt[w]
<1>0. pc \in [Workers -> Stages \cup {"idle"}] /\ cur \in [Workers -> Nat]
      /\ attempt \in [Workers -> 1 .. (LookupAttempts + MaxAttempts)]
  BY DEF TypeOK
<1> DEFINE Same == pc'[w] = pc[w] /\ cur'[w] = cur[w] /\ attempt'[w] = attempt[w]
           Goal == pc'[w] \in {"idle", "dedup"} \/ Same
<1>1. ASSUME NEW v \in Workers, Step(v) PROVE Goal
  BY <1>1, StepShape
<1>2. ASSUME NEW v \in Workers, Crash(v) PROVE Goal
  BY <1>0, <1>2 DEF Crash, Forget
<1>3. ASSUME NEW v \in Workers, Poll(v) PROVE Goal
  BY <1>0, <1>3 DEF Poll
<1>4. CASE UNCHANGED <<pc, cur, attempt>>
  BY <1>4
<1>5. ASSUME \/ \E e \in Sources : Ingest(e)
             \/ \E k \in Keys : Expire(k)
             \/ \E v \in Workers : Rebalance(v) \/ PollNothing(v)
             \/ \E v \in Workers, o \in Outputs : Deliver(v, o)
             \/ UNCHANGED vars
      PROVE  UNCHANGED <<pc, cur, attempt>>
  BY <1>5 DEF Ingest, Expire, Rebalance, PollNothing, Deliver, vars, workVars
<1> QED BY <1>1, <1>2, <1>3, <1>4, <1>5 DEF Next

LEMMA FormsSound == Spec => []FormInv
<1>1. Init => FormInv
  BY DEF Init, FormInv, Sound
<1>2. IndInv /\ FormInv /\ [Next]_vars => FormInv'
  <2> SUFFICES ASSUME TypeOK, FormInv, [Next]_vars, NEW w \in Workers PROVE Sound(w)'
    BY DEF FormInv, IndInv
  <2>1. CASE Step(w)
    BY <2>1, StepSound DEF FormInv
  <2>2. CASE ~Step(w)
    <3>1. CASE pc'[w] \in {"idle", "dedup"}
      BY <3>1 DEF Sound
    <3>2. CASE pc'[w] = pc[w] /\ cur'[w] = cur[w] /\ pc[w] # "idle"
      <4>1. Event(w)' = Event(w)
        BY <3>2, KeyStays
      <4> QED BY <3>2, <4>1 DEF FormInv, Sound
    <3> QED BY <2>2, <3>1, <3>2, OthersStay
  <2> QED BY <2>1, <2>2
<1> QED BY <1>1, <1>2, SpecInv, PTL DEF Spec

\* A paper comes by Publish only.
LEMMA PapersStay ==
    ASSUME [Next]_vars, ~ \E w \in Workers : Publish(w)
    PROVE  papers' = papers
BY DEF Next, Step, vars, sendVars, Ingest, Rebalance, Crash, Expire, Deliver, Poll, PollNothing,
       Dedup, DedupBlind, Screen, DeadLetter, Verify, VerifyFails, Lookup, LookupFails, Extract,
       PublishRetry, PublishGivesUp, PublishRaises, Mark, Ack

\* The keys offered are those of the log, which grows at its end.
LEMMA OfferedGrows ==
    ASSUME TypeOK, [Next]_vars
    PROVE  \/ Offered' = Offered
           \/ papers' = papers /\ \E k \in Keys : Offered' = Offered \cup {k}
<1>0. log \in Seq(Sources) /\ Len(log) \in Nat
  BY DEF TypeOK
<1>1. ASSUME NEW e \in Sources, Ingest(e)
      PROVE  papers' = papers /\ \E k \in Keys : Offered' = Offered \/ Offered' = Offered \cup {k}
  <2>1. /\ e.key \in Keys /\ papers' = papers
        /\ Len(log') = Len(log) + 1 /\ log'[Len(log) + 1] = e
        /\ \A o \in 1 .. Len(log) : log'[o] = log[o]
    BY <1>0, <1>1, AppendProperties, SourcesAssumption DEF Ingest, sendVars, Events
  <2>2. 1 .. Len(log') = (1 .. Len(log)) \cup {Len(log) + 1}
    BY <1>0, <2>1
  <2>3. CASE e.form \in {"text", "paper"}
    <3>1. Offered' = Offered \cup {e.key}
      BY <2>1, <2>2, <2>3 DEF Offered
    <3> QED BY <2>1, <3>1
  <2>4. CASE e.form \notin {"text", "paper"}
    <3>1. Offered' = Offered
      BY <2>1, <2>2, <2>4 DEF Offered
    <3> QED BY <2>1, <3>1
  <2> QED BY <2>3, <2>4
<1>2. CASE log' = log
  BY <1>2 DEF Offered
<1>3. ASSUME ~ \E e \in Sources : Ingest(e) PROVE log' = log
  BY <1>3, StepShape
     DEF Next, vars, kafkaVars, Rebalance, Crash, Expire, Deliver, Poll, PollNothing
<1> QED BY <1>1, <1>2, <1>3

LEMMA StepRefines ==
    ASSUME IndInv, FormInv, PapersNeedFaults', [Next]_vars
    PROVE  [Intake!Next]_(Intake!vars)
<1>0. TypeOK /\ TypeOK' /\ papers \in [Keys -> Nat]
  BY NextTypeOK DEF IndInv, TypeOK
<1>1. ASSUME NEW w \in Workers, Publish(w)
      PROVE  Intake!Next
  <2> DEFINE k == KeyOf(w)
  <2>1. /\ k \in Keys /\ cur[w] \in 1 .. Len(log) /\ Event(w) = log[cur[w]]
        /\ Event(w).form \in {"text", "paper"}
    BY <1>0, <1>1, EventType DEF FormInv, Sound, Publish, Forms, Event
  <2>2. k \in Offered
    BY <2>1 DEF Offered, KeyOf
  <2>3. papers' = [papers EXCEPT ![k] = @ + 1] /\ log' = log
    BY <1>1 DEF Publish, KeyOf, kafkaVars
  <2>4. Offered' = Offered
    BY <2>3 DEF Offered
  <2>5. papers[k] < 1 + MaxFaults
    <3>1. papers'[k] = papers[k] + 1 /\ papers[k] \in Nat
      BY <1>0, <2>1, <2>3
    <3>2. papers'[k] <= 1 + faults' /\ faults' \in 0 .. MaxFaults
      BY <1>0, <2>1 DEF PapersNeedFaults, TypeOK
    <3> QED BY <3>1, <3>2, WorkerBoundsAssumption
  <2>6. papers[k] < 1 + MaxFaults + [x \in Keys |-> 0][k]
    BY <1>0, <2>1, <2>5, WorkerBoundsAssumption
  <2>7. Intake!Accept(k)
    BY <2>2, <2>3, <2>4, <2>6 DEF Intake!Accept
  <2> QED BY <2>1, <2>7 DEF Intake!Next
<1>2. CASE ~ \E w \in Workers : Publish(w)
  <2>1. papers' = papers
    BY <1>2, PapersStay
  <2>2. Offered' = Offered \/ \E k \in Keys : Offered' = Offered \cup {k}
    BY <1>0, OfferedGrows
  <2> QED BY <2>1, <2>2 DEF Intake!Next, Intake!Offer, Intake!vars
<1> QED BY <1>1, <1>2

\* The papers module 3 makes of an event keep the promise of PaperIntake: none of
\* an event that fails a check, and no second one of a key without a fault.
THEOREM Refinement == Spec => ImplementsIntake
<1>1. Init => Intake!Init
  BY DEF Init, Intake!Init, Offered
<1>2. IndInv /\ FormInv /\ PapersNeedFaults' /\ [Next]_vars => [Intake!Next]_(Intake!vars)
  BY StepRefines
<1> QED BY <1>1, <1>2, SpecInv, FormsSound, DeduplicationSoundness, PTL
        DEF Spec, ImplementsIntake, Intake!Spec

-----------------------------------------------------------------------------
(***************************************************************************)
(* What EventuallyHandled rests on.                                        *)
(***************************************************************************)

\* Event o is the one its partition's owner has at hand.
InHand(o) == owner \in Workers /\ pc[owner] # "idle" /\ o = cur[owner]

\* Where delivery goes on: a new owner starts from the group's offset.
Resume == IF owner = NoWorker THEN committed ELSE position

\* An event that is not handled is with the owner of the partition, or will be
\* delivered, whatever was committed late, lost or by a worker that is not the
\* owner any more.
NothingForgotten == \A o \in 1 .. Len(log) : Handled(o) \/ InHand(o) \/ Resume < o

\* As long as an event is not handled, the owner has something to do, or the
\* coordinator has the partition to assign: to a worker that is in poll(), or
\* that comes back to it.
NothingStalls ==
    \A o \in 1 .. Len(log) :
        \/ Handled(o)
        \/ owner = NoWorker
        \/ pc[owner] # "idle" \/ position < Len(log)

\* No event of ingest.raw is passed over before it is handled.
THEOREM DeliverySoundness == Spec => []NothingForgotten
<1>1. IndInv => NothingForgotten
  <2> SUFFICES ASSUME IndInv, NEW o \in 1 .. Len(log), ~(Resume < o)
               PROVE  Handled(o) \/ InHand(o)
    BY DEF NothingForgotten
  <2>1. committed \in Nat /\ position \in Nat /\ owner \in Workers \cup {NoWorker}
    BY DEF IndInv, TypeOK
  <2>2. CASE owner = NoWorker
    <3>1. o \in 1 .. committed
      BY <2>1, <2>2 DEF Resume
    <3> QED BY <3>1 DEF IndInv, HandledInv, CommittedHandled
  <2>3. CASE owner # NoWorker
    <3>1. o \in 1 .. position /\ owner \in Workers
      BY <2>1, <2>3 DEF Resume
    <3> QED BY <3>1 DEF IndInv, HandledInv, InHand
  <2> QED BY <2>2, <2>3
<1> QED BY <1>1, SpecInv, PTL

\* While an event is not handled, the owner of the partition is at work or has
\* it to poll.
THEOREM StallFreedom == Spec => []NothingStalls
<1>1. IndInv /\ NothingForgotten => NothingStalls
  <2> SUFFICES ASSUME IndInv, NothingForgotten, NEW o \in 1 .. Len(log), ~Handled(o),
                      owner # NoWorker, pc[owner] = "idle"
               PROVE  position < Len(log)
    BY DEF NothingStalls
  <2>1. position \in Nat /\ Len(log) \in Nat
    BY DEF IndInv, TypeOK
  <2>2. position < o
    BY DEF NothingForgotten, InHand, Resume
  <2> QED BY <2>1, <2>2
<1> QED BY <1>1, SpecInv, DeliverySoundness, PTL

\* The stages an event may still go through, the attempts of its calls included.
Left(stage, n) ==
    CASE stage = "idle"    -> 0
      [] stage = "ack"     -> 1
      [] stage = "mark"    -> 2
      [] stage = "publish" -> 3 + MaxAttempts - n
      [] stage = "extract" -> 3 + MaxAttempts
      [] stage = "lookup"  -> 4 + MaxAttempts + LookupAttempts - n
      [] stage = "verify"  -> 4 + MaxAttempts + LookupAttempts
      [] stage = "dedup"   -> 5 + MaxAttempts + LookupAttempts

Remaining(w) == Left(pc[w], attempt[w])

\* process_message comes to an end: every stage and every attempt uses up a part
\* of what remains, and nobody else's step adds to it.
WorkEnds ==
    \A w \in Workers : pc[w] # "idle" =>
        /\ Remaining(w)' <= Remaining(w)
        /\ Step(w) => Remaining(w)' < Remaining(w)

LEMMA LeftType ==
    ASSUME NEW stage \in Stages \cup {"idle"}, NEW n \in Nat,
           stage = "lookup" => n <= LookupAttempts,
           stage = "publish" => n <= MaxAttempts
    PROVE  Left(stage, n) \in Nat
BY WorkerBoundsAssumption DEF Left, Stages

\* Every stage leaves less than those before it.
LEMMA LeftShrinks ==
    ASSUME NEW n \in Nat, NEW m \in Nat
    PROVE  /\ \A stage \in Stages \ {"ack"} :
                 (stage = "lookup" => n <= LookupAttempts) /\ (stage = "publish" => n <= MaxAttempts)
                    => Left("ack", m) < Left(stage, n)
           /\ Left("idle", m) < Left("ack", n)
           /\ n <= MaxAttempts => Left("mark", m) < Left("publish", n)
           /\ Left("publish", 1) < Left("extract", n)
           /\ n <= LookupAttempts => Left("extract", m) < Left("lookup", n)
           /\ Left("lookup", 1) < Left("verify", n)
           /\ Left("verify", m) < Left("dedup", n)
           /\ Left("lookup", n + 1) < Left("lookup", n)
           /\ Left("publish", n + 1) < Left("publish", n)
<1>1. /\ Left("idle", m) = 0 /\ \A i \in Nat : Left("ack", i) = 1
      /\ \A i \in Nat : Left("mark", i) = 2 /\ Left("extract", i) = 3 + MaxAttempts
      /\ \A i \in Nat : Left("publish", i) = 3 + MaxAttempts - i
      /\ \A i \in Nat : Left("lookup", i) = 4 + MaxAttempts + LookupAttempts - i
      /\ \A i \in Nat : Left("verify", i) = 4 + MaxAttempts + LookupAttempts
      /\ \A i \in Nat : Left("dedup", i) = 5 + MaxAttempts + LookupAttempts
  BY DEF Left
<1>2. LookupAttempts \in Nat \ {0} /\ MaxAttempts \in Nat \ {0} /\ n + 1 \in Nat /\ 1 \in Nat
  BY WorkerBoundsAssumption
<1> QED BY <1>1, <1>2 DEF Stages

LEMMA StepShortens ==
    ASSUME TypeOK, NEW w \in Workers, Step(w) PROVE Remaining(w)' < Remaining(w)
<1>0. /\ pc \in [Workers -> Stages \cup {"idle"}]
      /\ attempt \in [Workers -> 1 .. (LookupAttempts + MaxAttempts)]
      /\ attempt[w] \in Nat /\ pc[w] \in Stages
      /\ pc[w] = "lookup" => attempt[w] <= LookupAttempts
      /\ pc[w] = "publish" => attempt[w] <= MaxAttempts
      /\ Remaining(w) = Left(pc[w], attempt[w])
      /\ Remaining(w)' = Left(pc'[w], attempt'[w])
  BY StepShape, WorkerBoundsAssumption DEF TypeOK, Remaining
<1>b. attempt'[w] \in Nat
  BY <1>0 DEF Step, Dedup, DedupBlind, Screen, DeadLetter, Verify, VerifyFails, Lookup, LookupFails,
     Extract, Raise, Publish, PublishRetry, PublishGivesUp, PublishRaises, Mark, Ack, Forget, Goto,
     Again
<1>1. ASSUME Goto(w, "ack"), pc[w] # "ack" PROVE Remaining(w)' < Remaining(w)
  <2>1. pc'[w] = "ack"
    BY <1>0, <1>1 DEF Goto
  <2> QED BY <1>0, <1>b, <1>1, <2>1, LeftShrinks
<1>2. CASE Dedup(w) \/ DedupBlind(w)
  <2>1. pc[w] = "dedup" /\ (Goto(w, "ack") \/ pc'[w] = "verify")
    BY <1>0, <1>2 DEF Dedup, DedupBlind, Screen, DeadLetter, Goto
  <2> QED BY <1>0, <1>b, <1>1, <2>1, LeftShrinks
<1>3. CASE Verify(w) \/ VerifyFails(w)
  <2>1. pc[w] = "verify" /\ (Goto(w, "ack") \/ (pc'[w] = "lookup" /\ attempt'[w] = 1))
    BY <1>0, <1>3 DEF Verify, VerifyFails, DeadLetter, Goto
  <2> QED BY <1>0, <1>b, <1>1, <2>1, LeftShrinks
<1>4. CASE Lookup(w) \/ LookupFails(w)
  <2>1. /\ pc[w] = "lookup"
        /\ pc'[w] = "extract" \/ (pc'[w] = "lookup" /\ attempt'[w] = attempt[w] + 1)
    BY <1>0, <1>4 DEF Lookup, LookupFails, Goto, Again
  <2> QED BY <1>0, <1>b, <2>1, LeftShrinks
<1>5. CASE Extract(w)
  <2>1. pc[w] = "extract" /\ (Goto(w, "ack") \/ (pc'[w] = "publish" /\ attempt'[w] = 1))
    BY <1>0, <1>5 DEF Extract, Raise, Goto
  <2> QED BY <1>0, <1>b, <1>1, <2>1, LeftShrinks
<1>6. CASE Publish(w) \/ PublishRetry(w) \/ PublishGivesUp(w) \/ PublishRaises(w)
  <2>1. /\ pc[w] = "publish"
        /\ \/ Goto(w, "ack")
           \/ pc'[w] = "mark"
           \/ pc'[w] = "publish" /\ attempt'[w] = attempt[w] + 1
    BY <1>0, <1>6
       DEF Publish, PublishRetry, PublishGivesUp, PublishRaises, Raise, DeadLetter, Goto, Again
  <2> QED BY <1>0, <1>b, <1>1, <2>1, LeftShrinks
<1>7. CASE Mark(w)
  BY <1>1, <1>7 DEF Mark
<1>8. CASE Ack(w)
  <2>1. pc[w] = "ack" /\ pc'[w] = "idle"
    BY <1>0, <1>8 DEF Ack, Forget
  <2> QED BY <1>0, <1>b, <2>1, LeftShrinks
<1> QED BY <1>2, <1>3, <1>4, <1>5, <1>6, <1>7, <1>8 DEF Step

\* No event keeps a worker for ever: it is done with it after five stages more
\* than module 1's and Kafka's calls have attempts.
THEOREM WorkTermination == Spec => [][WorkEnds]_vars
<1>1. IndInv /\ [Next]_vars => [WorkEnds]_vars
  <2> SUFFICES ASSUME TypeOK, [Next]_vars, NEW w \in Workers, pc[w] # "idle"
               PROVE  /\ Remaining(w)' <= Remaining(w)
                      /\ Step(w) => Remaining(w)' < Remaining(w)
    BY DEF WorkEnds, IndInv
  <2>1. Remaining(w) \in Nat /\ Remaining(w)' \in Nat
    <3>1. /\ pc[w] \in Stages \cup {"idle"} /\ attempt[w] \in Nat
          /\ pc[w] = "lookup" => attempt[w] <= LookupAttempts
          /\ pc[w] = "publish" => attempt[w] <= MaxAttempts
      BY DEF TypeOK
    <3>2. /\ pc'[w] \in Stages \cup {"idle"} /\ attempt'[w] \in Nat
          /\ pc'[w] = "lookup" => attempt'[w] <= LookupAttempts
          /\ pc'[w] = "publish" => attempt'[w] <= MaxAttempts
      BY NextTypeOK DEF TypeOK
    <3> QED BY <3>1, <3>2, LeftType DEF Remaining
  <2>2. CASE Step(w)
    BY <2>1, <2>2, StepShortens
  <2>3. CASE ~Step(w)
    <3>1. pc'[w] # "dedup" \/ (pc'[w] = pc[w] /\ attempt'[w] = attempt[w])
      <4>1. pc \in [Workers -> Stages \cup {"idle"}]
        BY DEF TypeOK
      <4>2. ASSUME NEW v \in Workers, Poll(v) PROVE pc'[w] = pc[w] /\ attempt'[w] = attempt[w]
        BY <4>1, <4>2 DEF Poll
      <4>3. ASSUME NEW v \in Workers, Crash(v)
            PROVE  pc'[w] # "dedup" \/ (pc'[w] = pc[w] /\ attempt'[w] = attempt[w])
        BY <4>1, <4>3 DEF Crash, Forget, TypeOK
      <4>4. ASSUME NEW v \in Workers, Step(v) PROVE pc'[w] = pc[w] /\ attempt'[w] = attempt[w]
        BY <2>3, <4>4, StepShape
      <4> QED BY <4>2, <4>3, <4>4
              DEF Next, vars, workVars, Ingest, Expire, Rebalance, PollNothing, Deliver
    <3>2. \/ pc'[w] = "idle"
          \/ pc'[w] = pc[w] /\ attempt'[w] = attempt[w]
      BY <2>3, <3>1, OthersStay
    <3>3. Remaining(w)' = 0 \/ Remaining(w)' = Remaining(w)
      BY <3>2 DEF Remaining, Left
    <3> QED BY <2>1, <2>3, <3>3
  <2> QED BY <2>2, <2>3
<1> QED BY <1>1, SpecInv, PTL DEF Spec

=============================================================================
