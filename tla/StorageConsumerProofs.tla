------------------------ MODULE StorageConsumerProofs ------------------------
(***************************************************************************)
(* Theorems about StorageConsumer, for any number of keys, partitions,     *)
(* processes, attempts, messages and faults.                               *)
(***************************************************************************)
EXTENDS StorageConsumer, FiniteSetTheorems, TLAPS

-----------------------------------------------------------------------------
(***************************************************************************)
(* The inductive invariant.                                                *)
(***************************************************************************)

\* A process holds a message exactly when it is not in poll(), and the
\* message exists.
WorkInv ==
    \A c \in Consumers :
        IF pc[c] = "idle" THEN cur[c] = NoWork
        ELSE cur[c] \in Work /\ cur[c].off <= Len(log[cur[c].part])

\* A message that is about to be marked or acknowledged has its row.
StageInv ==
    \A c \in Consumers : pc[c] \in {"mark", "ack"} => HasRow(Msg(c).key)

\* Offsets lie within the log.
PositionInv ==
    \A p \in Partitions :
        committed[p] <= Len(log[p]) /\ position[p] <= Len(log[p])

InHand(p, o) ==
    \E c \in Consumers :
        owner[p] = c /\ pc[c] # "idle" /\ cur[c] = [part |-> p, off |-> o]

\* What has been delivered to the present owner of a partition is settled, or
\* is the message that owner is working on.
DeliveredInv ==
    \A p \in Partitions :
        owner[p] # NoConsumer =>
            \A o \in 1 .. position[p] : Settled(p, o) \/ InHand(p, o)

\* The rows that are a DRAFT have been one, and are rows.
DraftInv ==
    \A x \in Slots : drafts[x] <= drafted[x] /\ drafted[x] <= rows[x]

IndInv ==
    /\ TypeOK
    /\ WorkInv
    /\ StageInv
    /\ PositionInv
    /\ MarkerImpliesStored
    /\ CommittedSettled
    /\ DeliveredInv
    /\ DraftInv

-----------------------------------------------------------------------------
(***************************************************************************)
(* Type correctness.                                                       *)
(***************************************************************************)

LEMMA InitTypeOK == Init => TypeOK
BY BoundsAssumption DEF Init, TypeOK

\* The message a busy process holds.
LEMMA HandMessage ==
    ASSUME NEW c \in Consumers, TypeOK, WorkInv, pc[c] # "idle"
    PROVE  cur[c] \in Work /\ cur[c].off \in 1 .. Len(log[cur[c].part])
           /\ Msg(c) \in Messages
<1>1. cur[c] \in Work /\ cur[c].off <= Len(log[cur[c].part])
  BY DEF WorkInv
<1>2. cur[c].part \in Partitions /\ cur[c].off \in Nat \ {0}
  BY <1>1 DEF Work
<1>3. log[cur[c].part] \in Seq(Messages)
  BY <1>2 DEF TypeOK
<1>4. cur[c].off \in 1 .. Len(log[cur[c].part])
  BY <1>1, <1>2, <1>3
<1>5. Msg(c) \in Messages
  BY <1>3, <1>4 DEF Msg
<1> QED BY <1>1, <1>4, <1>5

\* What Raise does to the variables it changes.
LEMMA RaiseType ==
    ASSUME NEW c \in Consumers, TypeOK, cur[c] \in Work, Raise(c)
    PROVE  /\ pc' \in [Consumers -> Stages \cup {"idle"}]
           /\ cur' \in [Consumers -> Work \cup {NoWork}]
           /\ attempt' \in [Consumers -> 0 .. MaxAttempts]
           /\ gaveUp' \in SUBSET Work
<1>1. /\ pc \in [Consumers -> Stages \cup {"idle"}]
      /\ cur \in [Consumers -> Work \cup {NoWork}]
      /\ attempt \in [Consumers -> 0 .. MaxAttempts]
      /\ gaveUp \in SUBSET Work
      /\ MaxAttempts \in Nat
  BY BoundsAssumption DEF TypeOK
<1>2. CASE attempt[c] < MaxAttempts
  BY <1>1, <1>2 DEF Raise, Stages
<1>3. CASE ~(attempt[c] < MaxAttempts)
  BY <1>1, <1>3 DEF Raise, Release, Stages
<1> QED BY <1>2, <1>3

\* No step leaves the types.
LEMMA NextTypeOK == TypeOK /\ WorkInv /\ [Next]_vars => TypeOK'
<1> SUFFICES ASSUME TypeOK, WorkInv, [Next]_vars PROVE TypeOK'
  OBVIOUS
<1> USE BoundsAssumption
<1>1. ASSUME NEW p \in Partitions, NEW m \in Messages, Publish(p, m) PROVE TypeOK'
  BY <1>1 DEF TypeOK, Publish, storeVars, workVars
<1>2. ASSUME NEW a \in [Partitions -> Idle], Rebalance(a) PROVE TypeOK'
  <2>1. owner' = a /\ a \in [Partitions -> Consumers \cup {NoConsumer}]
    BY <1>2 DEF Rebalance, Idle
  <2>2. position' \in [Partitions -> Nat]
    BY <1>2 DEF TypeOK, Rebalance
  <2>3. faults' \in 0 .. MaxFaults
    <3>1. CASE faults' = faults
      BY <3>1 DEF TypeOK
    <3>2. CASE faults < MaxFaults /\ faults' = faults + 1
      BY <3>2 DEF TypeOK
    <3> QED BY <1>2, <3>1, <3>2, Zenon DEF Rebalance
  <2>4. UNCHANGED <<log, committed, storeVars, workVars, gaveUp, published>>
    BY <1>2, Zenon DEF Rebalance
  <2> QED BY <2>1, <2>2, <2>3, <2>4 DEF TypeOK, storeVars, workVars
<1>3. ASSUME NEW k \in Keys, Expire(k) PROVE TypeOK'
  BY <1>3 DEF TypeOK, Expire, kafkaVars, workVars, tableVars
<1>8. ASSUME NEW x \in Slots, Withdraw(x) PROVE TypeOK'
  <2>1. drafts' \in [Slots -> Nat] /\ drafted' \in [Slots -> Nat]
    <3>1. drafts \in [Slots -> Nat] /\ drafted \in [Slots -> Nat]
      BY DEF TypeOK
    <3>2. drafts' = [drafts EXCEPT ![x] = @ + 1]
      BY <1>8 DEF Withdraw
    <3>3. drafted' = [drafted EXCEPT ![x] = @ + 1] \/ drafted' = drafted
      BY <1>8 DEF Withdraw
    <3> QED BY <3>1, <3>2, <3>3
  <2>2. faults' \in 0 .. MaxFaults
    BY <1>8 DEF TypeOK, Withdraw
  <2> QED BY <1>8, <2>1, <2>2 DEF TypeOK, Withdraw, kafkaVars, workVars
<1>9. ASSUME NEW x \in Slots, Restore(x) PROVE TypeOK'
  <2>1. drafts' \in [Slots -> Nat]
    BY <1>9 DEF TypeOK, Restore
  <2> QED BY <1>9, <2>1 DEF TypeOK, Restore, kafkaVars, workVars
<1>4. ASSUME NEW c \in Consumers, Crash(c) PROVE TypeOK'
  BY <1>4 DEF TypeOK, Crash, storeVars
<1>5. ASSUME NEW c \in Consumers, NEW p \in Partitions, Poll(c, p) PROVE TypeOK'
  <2>1. [part |-> p, off |-> position[p] + 1] \in Work
    BY DEF TypeOK, Work
  <2> QED BY <1>5, <2>1 DEF TypeOK, Poll, storeVars, Stages
<1>6. ASSUME NEW c \in Consumers, Step(c) PROVE TypeOK'
  <2>1. pc[c] # "idle"
    BY <1>6 DEF Step, Dedup, Fence, Store, Mark, Ack
  <2>2. cur[c] \in Work /\ Msg(c) \in Messages
    BY <2>1, HandMessage
  <2>7. CASE Dedup(c)
    BY <2>2, <2>7, RaiseType DEF TypeOK, Dedup, Goto, Stages, kafkaVars, storeVars
  <2>3. CASE Fence(c)
    BY <2>2, <2>3, RaiseType DEF TypeOK, Fence, Goto, Stages, kafkaVars, storeVars
  <2>4. CASE Store(c)
    <3>1. rows' \in [Slots -> Nat]
      <4>1. rows \in [Slots -> Nat]
        BY <2>2 DEF TypeOK, Messages, Slot, Slots
      <4>2. \/ rows' = [rows EXCEPT ![Slot(Msg(c))] = @ + 1]
            \/ rows' = rows
        BY <2>4 DEF Store
      <4> QED BY <4>1, <4>2
    <3>2. /\ pc' \in [Consumers -> Stages \cup {"idle"}]
          /\ cur' \in [Consumers -> Work \cup {NoWork}]
          /\ attempt' \in [Consumers -> 0 .. MaxAttempts]
          /\ gaveUp' \in SUBSET Work
      BY <2>2, <2>4, RaiseType DEF TypeOK, Store, Goto, Stages
    <3> QED BY <2>4, <3>1, <3>2 DEF TypeOK, Store, kafkaVars
  <2>5. CASE Mark(c)
    BY <2>2, <2>5, RaiseType DEF TypeOK, Mark, Goto, Stages, kafkaVars, tableVars, Messages
  <2>6. CASE Ack(c)
    <3>1. committed' \in [Partitions -> Nat]
      BY <2>6 DEF TypeOK, Ack
    <3>2. /\ pc' \in [Consumers -> Stages \cup {"idle"}]
          /\ cur' \in [Consumers -> Work \cup {NoWork}]
          /\ attempt' \in [Consumers -> 0 .. MaxAttempts]
      BY <2>6 DEF TypeOK, Ack, Release, Stages
    <3> QED BY <2>6, <3>1, <3>2 DEF TypeOK, Ack, storeVars
  <2> QED BY <1>6, <2>7, <2>3, <2>4, <2>5, <2>6 DEF Step
<1>7. CASE UNCHANGED vars
  BY <1>7 DEF TypeOK, vars, kafkaVars, storeVars, workVars
<1> QED BY <1>1, <1>2, <1>3, <1>4, <1>5, <1>6, <1>7, <1>8, <1>9 DEF Next, PollNothing

-----------------------------------------------------------------------------
(***************************************************************************)
(* What one step of a process does.                                        *)
(***************************************************************************)

\* Raise puts the process back at "dedup" with the same message, or abandons
\* the message.  Other processes are not concerned.
LEMMA RaiseEffect ==
    ASSUME NEW c \in Consumers, TypeOK, Raise(c)
    PROVE  /\ \A d \in Consumers \ {c} : pc'[d] = pc[d] /\ cur'[d] = cur[d]
           /\ gaveUp \subseteq gaveUp'
           /\ \/ pc'[c] = "dedup" /\ cur'[c] = cur[c]
              \/ pc'[c] = "idle" /\ cur'[c] = NoWork /\ cur[c] \in gaveUp'
<1>1. pc \in [Consumers -> Stages \cup {"idle"}] /\ cur \in [Consumers -> Work \cup {NoWork}]
  BY DEF TypeOK
<1>2. CASE attempt[c] < MaxAttempts
  BY <1>1, <1>2 DEF Raise
<1>3. CASE ~(attempt[c] < MaxAttempts)
  BY <1>1, <1>3 DEF Raise, Release
<1> QED BY <1>2, <1>3

LEMMA GotoEffect ==
    ASSUME NEW c \in Consumers, NEW stage, TypeOK, Goto(c, stage)
    PROVE  /\ \A d \in Consumers \ {c} : pc'[d] = pc[d] /\ cur'[d] = cur[d]
           /\ pc'[c] = stage /\ cur'[c] = cur[c]
BY DEF TypeOK, Goto

\* A step keeps the message or lets go of it after "ack" or by abandoning it;
\* rows are never removed.
LEMMA StepEffect ==
    ASSUME NEW c \in Consumers, TypeOK, WorkInv, Step(c)
    PROVE  /\ UNCHANGED <<log, owner, position>>
           /\ pc[c] \in Stages
           /\ \A d \in Consumers \ {c} : pc'[d] = pc[d] /\ cur'[d] = cur[d]
           /\ gaveUp \subseteq gaveUp'
           /\ \A x \in Slots : rows'[x] >= rows[x]
           /\ \/ pc'[c] \in Stages /\ cur'[c] = cur[c]
              \/ /\ pc'[c] = "idle" /\ cur'[c] = NoWork
                 /\ pc[c] = "ack" \/ cur[c] \in gaveUp'
<1>1. rows \in [Slots -> Nat]
  BY DEF TypeOK
<1>2. CASE Dedup(c)
  BY <1>1, <1>2, RaiseEffect, GotoEffect DEF Dedup, Stages, kafkaVars, storeVars
<1>3. CASE Fence(c)
  BY <1>1, <1>3, RaiseEffect, GotoEffect DEF Fence, Stages, kafkaVars, storeVars
<1>4. CASE Store(c)
  <2>1. \A x \in Slots : rows'[x] >= rows[x]
    <3>1. \/ rows' = [rows EXCEPT ![Slot(Msg(c))] = @ + 1]
          \/ rows' = rows
      BY <1>4 DEF Store
    <3> QED BY <1>1, <3>1
  <2>2. (Goto(c, "mark") /\ UNCHANGED gaveUp) \/ Raise(c)
    BY <1>4 DEF Store
  <2> QED BY <1>4, <2>1, <2>2, RaiseEffect, GotoEffect DEF Store, Stages, kafkaVars
<1>5. CASE Mark(c)
  BY <1>1, <1>5, RaiseEffect, GotoEffect DEF Mark, Stages, kafkaVars, tableVars
<1>6. CASE Ack(c)
  <2>1. pc \in [Consumers -> Stages \cup {"idle"}] /\ cur \in [Consumers -> Work \cup {NoWork}]
    BY DEF TypeOK
  <2> QED BY <1>1, <1>6, <2>1 DEF Ack, Release, Stages, storeVars
<1> QED BY <1>2, <1>3, <1>4, <1>5, <1>6 DEF Step

-----------------------------------------------------------------------------
(***************************************************************************)
(* The parts of the invariant, one at a time.                              *)
(***************************************************************************)

LEMMA NextWorkInv == TypeOK /\ WorkInv /\ [Next]_vars => WorkInv'
<1> SUFFICES ASSUME TypeOK, WorkInv, [Next]_vars, NEW d \in Consumers
             PROVE  IF pc'[d] = "idle" THEN cur'[d] = NoWork
                    ELSE cur'[d] \in Work /\ cur'[d].off <= Len(log'[cur'[d].part])
  BY DEF WorkInv, Work
<1>1. IF pc[d] = "idle" THEN cur[d] = NoWork
      ELSE cur[d] \in Work /\ cur[d].off <= Len(log[cur[d].part])
  BY DEF WorkInv
<1>2. ASSUME NEW p \in Partitions, NEW m \in Messages, Publish(p, m)
      PROVE  /\ log' \in [Partitions -> Seq(Messages)]
             /\ \A q \in Partitions : Len(log'[q]) >= Len(log[q])
             /\ UNCHANGED <<pc, cur>>
  BY <1>2 DEF TypeOK, Publish, workVars
<1>3. ASSUME NEW p \in Partitions, NEW m \in Messages, Publish(p, m)
      PROVE  IF pc'[d] = "idle" THEN cur'[d] = NoWork
             ELSE cur'[d] \in Work /\ cur'[d].off <= Len(log'[cur'[d].part])
  <2>1. ASSUME cur[d] \in Work PROVE cur[d].part \in Partitions /\ cur[d].off \in Nat
    BY <2>1 DEF Work
  <2>2. \A q \in Partitions : Len(log[q]) \in Nat /\ Len(log'[q]) \in Nat
    BY <1>2, <1>3 DEF TypeOK
  <2> QED BY <1>1, <1>2, <1>3, <2>1, <2>2
<1>4. ASSUME NEW c \in Consumers, Crash(c)
      PROVE  IF pc'[d] = "idle" THEN cur'[d] = NoWork
             ELSE cur'[d] \in Work /\ cur'[d].off <= Len(log'[cur'[d].part])
  BY <1>1, <1>4 DEF Crash, TypeOK
<1>5. ASSUME NEW c \in Consumers, NEW p \in Partitions, Poll(c, p)
      PROVE  IF pc'[d] = "idle" THEN cur'[d] = NoWork
             ELSE cur'[d] \in Work /\ cur'[d].off <= Len(log'[cur'[d].part])
  <2>1. position[p] + 1 \in Nat \ {0} /\ position[p] + 1 <= Len(log[p])
    BY <1>5 DEF Poll, TypeOK
  <2> QED BY <1>1, <1>5, <2>1 DEF Poll, TypeOK, Work
<1>6. ASSUME NEW c \in Consumers, Step(c)
      PROVE  IF pc'[d] = "idle" THEN cur'[d] = NoWork
             ELSE cur'[d] \in Work /\ cur'[d].off <= Len(log'[cur'[d].part])
  BY <1>1, <1>6, StepEffect DEF Stages
<1>7. CASE UNCHANGED <<log, pc, cur>>
  BY <1>1, <1>7
<1>8. ASSUME NEW a \in [Partitions -> Idle], Rebalance(a) PROVE UNCHANGED <<log, pc, cur>>
  BY <1>8 DEF Rebalance, workVars
<1>9. ASSUME NEW k \in Keys, Expire(k) PROVE UNCHANGED <<log, pc, cur>>
  BY <1>9 DEF Expire, workVars, kafkaVars
<1>11. ASSUME NEW x \in Slots, Withdraw(x) \/ Restore(x) PROVE UNCHANGED <<log, pc, cur>>
  BY <1>11 DEF Withdraw, Restore, workVars, kafkaVars
<1>10. (UNCHANGED vars) => UNCHANGED <<log, pc, cur>>
  BY DEF vars, kafkaVars, workVars
<1> QED BY <1>3, <1>4, <1>5, <1>6, <1>7, <1>8, <1>9, <1>10, <1>11 DEF Next, PollNothing

\* Messages are only appended.
LEMMA LogGrows ==
    ASSUME TypeOK, WorkInv, [Next]_vars, NEW p \in Partitions
    PROVE  /\ Len(log'[p]) >= Len(log[p])
           /\ \A o \in 1 .. Len(log[p]) : log'[p][o] = log[p][o]
<1>1. log[p] \in Seq(Messages)
  BY DEF TypeOK
<1>2. ASSUME NEW q \in Partitions, NEW m \in Messages, Publish(q, m)
      PROVE  log'[p] = log[p] \/ log'[p] = Append(log[p], m)
  BY <1>2 DEF Publish, TypeOK
<1>3. ASSUME NEW q \in Partitions, NEW m \in Messages, Publish(q, m)
      PROVE  /\ Len(log'[p]) >= Len(log[p])
             /\ \A o \in 1 .. Len(log[p]) : log'[p][o] = log[p][o]
  BY <1>1, <1>2, <1>3
<1>4. (\A q \in Partitions, m \in Messages : ~Publish(q, m)) => UNCHANGED log
  <2>1. ASSUME NEW c \in Consumers, Step(c) PROVE UNCHANGED log
    BY <2>1, StepEffect
  <2> QED BY <2>1
             DEF Next, Rebalance, Expire, Withdraw, Restore, Crash, Poll,
                 PollNothing, kafkaVars, vars
<1> QED BY <1>1, <1>3, <1>4

\* Rows and the record of abandoned messages only grow.
LEMMA RowsGrow ==
    ASSUME TypeOK, WorkInv, [Next]_vars
    PROVE  (\A x \in Slots : rows'[x] >= rows[x]) /\ gaveUp \subseteq gaveUp'
<1>1. rows \in [Slots -> Nat]
  BY DEF TypeOK
<1>2. ASSUME NEW c \in Consumers, Step(c)
      PROVE  (\A x \in Slots : rows'[x] >= rows[x]) /\ gaveUp \subseteq gaveUp'
  BY <1>2, StepEffect
<1>3. (\A c \in Consumers : ~Step(c)) => UNCHANGED <<rows, gaveUp>>
  BY
     DEF Next, Publish, Rebalance, Expire, Withdraw, Restore, Crash, Poll,
         PollNothing, storeVars, tableVars, vars
<1> QED BY <1>1, <1>2, <1>3

LEMMA HasRowStable ==
    ASSUME TypeOK, WorkInv, [Next]_vars, NEW k \in Keys, HasRow(k)
    PROVE  HasRow(k)'
<1>1. PICK d \in Departments : rows[<<k, d>>] >= 1
  BY DEF HasRow
<1>2. <<k, d>> \in Slots
  BY DEF Slots
<1>3. rows[<<k, d>>] \in Nat /\ rows'[<<k, d>>] \in Nat /\ rows'[<<k, d>>] >= rows[<<k, d>>]
  BY <1>2, RowsGrow, NextTypeOK DEF TypeOK
<1>4. rows'[<<k, d>>] >= 1
  BY <1>1, <1>3
<1> QED BY <1>4 DEF HasRow

\* A message that is settled stays settled.
LEMMA SettledStable ==
    ASSUME TypeOK, WorkInv, [Next]_vars,
           NEW p \in Partitions, NEW o \in 1 .. Len(log[p]), Settled(p, o)
    PROVE  Settled(p, o)'
<1>1. log[p] \in Seq(Messages)
  BY DEF TypeOK
<1>2. log[p][o].key \in Keys
  <2>1. log[p][o] \in Messages
    BY <1>1
  <2> QED BY <2>1 DEF Messages
<1>3. log'[p][o] = log[p][o]
  BY LogGrows
<1>4. HasRow(log[p][o].key) => HasRow(log[p][o].key)'
  <2>1. HasRow(log[p][o].key) => \E d \in Departments : rows[<<log[p][o].key, d>>] >= 1
    BY DEF HasRow
  <2>2. ASSUME NEW k \in Keys, HasRow(k) PROVE HasRow(k)'
    BY <2>2, HasRowStable
  <2> QED BY <1>2, <1>3, <2>2 DEF HasRow
<1> QED BY <1>2, <1>3, <1>4, RowsGrow DEF Settled

\* A process that keeps its message keeps its key.
LEMMA MsgStable ==
    ASSUME TypeOK, WorkInv, [Next]_vars, NEW c \in Consumers,
           pc[c] # "idle", cur'[c] = cur[c]
    PROVE  Msg(c)' = Msg(c)
<1>1. cur[c] \in Work /\ cur[c].off \in 1 .. Len(log[cur[c].part])
  BY HandMessage
<1>2. cur[c].part \in Partitions
  BY <1>1 DEF Work
<1> QED BY <1>1, <1>2, LogGrows DEF Msg

\* Only a process that has seen the row, or written it, reaches mark and ack.
LEMMA NextStageInv ==
    TypeOK /\ WorkInv /\ StageInv /\ MarkerImpliesStored /\ [Next]_vars => StageInv'
<1> SUFFICES ASSUME TypeOK, WorkInv, StageInv, MarkerImpliesStored, [Next]_vars,
                    NEW d \in Consumers, pc'[d] \in {"mark", "ack"}
             PROVE  HasRow(Msg(d).key)'
  BY DEF StageInv
<1>1. ASSUME pc[d] # "idle", cur'[d] = cur[d], HasRow(Msg(d).key)
      PROVE  HasRow(Msg(d).key)'
  <2>1. Msg(d)' = Msg(d) /\ Msg(d).key \in Keys
    BY <1>1, MsgStable, HandMessage DEF Messages
  <2>2. ASSUME NEW k \in Keys, HasRow(k) PROVE HasRow(k)'
    BY <2>2, HasRowStable
  <2> QED BY <1>1, <2>1, <2>2 DEF HasRow
<1>2. CASE pc[d] \in {"mark", "ack"} /\ cur'[d] = cur[d]
  BY <1>1, <1>2 DEF StageInv
<1>3. ASSUME Step(d) PROVE HasRow(Msg(d).key)'
  <2>1. pc[d] # "idle" /\ cur'[d] = cur[d]
    BY <1>3, StepEffect DEF Stages
  <2>2. Msg(d)' = Msg(d) /\ Msg(d) \in Messages /\ Slot(Msg(d)) \in Slots
    BY <2>1, MsgStable, HandMessage DEF Messages, Slot, Slots
  <2>3. rows \in [Slots -> Nat] /\ rows' \in [Slots -> Nat]
    BY NextTypeOK DEF TypeOK
  <2>4. CASE Dedup(d)
    <3>1. pc'[d] = "ack" /\ Msg(d).key \in processed
      BY <2>4, RaiseEffect, GotoEffect DEF Dedup
    <3>2. HasRow(Msg(d).key)
      BY <3>1 DEF MarkerImpliesStored
    <3> QED BY <1>1, <2>1, <3>2
  <2>5. CASE Fence(d)
    <3>1. Seen(Slot(Msg(d))) = 1
      BY <2>5, RaiseEffect, GotoEffect DEF Fence
    <3>2. drafts[Slot(Msg(d))] \in Nat /\ rows[Slot(Msg(d))] \in Nat
      BY <2>2 DEF TypeOK
    <3>3. rows[Slot(Msg(d))] >= 1
      BY <3>1, <3>2 DEF Seen
    <3>4. HasRow(Msg(d).key)
      BY <2>2, <3>3 DEF HasRow, Slot, Messages
    <3> QED BY <1>1, <2>1, <3>4
  <2>6. CASE Store(d)
    <3>1. rows' = [rows EXCEPT ![Slot(Msg(d))] = @ + 1]
      BY <2>6, RaiseEffect DEF Store
    <3>2. rows'[Slot(Msg(d))] >= 1
      BY <2>2, <2>3, <3>1
    <3> QED BY <2>2, <3>2 DEF HasRow, Slot, Messages
  <2>7. CASE Mark(d) \/ Ack(d)
    BY <1>2, <2>1, <2>7 DEF Mark, Ack
  <2> QED BY <1>3, <2>4, <2>5, <2>6, <2>7 DEF Step
<1>4. ASSUME NEW c \in Consumers, Step(c), c # d
      PROVE  pc'[d] = pc[d] /\ cur'[d] = cur[d]
  BY <1>4, StepEffect
<1>5. ASSUME NEW c \in Consumers, Crash(c) PROVE pc'[d] = pc[d] /\ cur'[d] = cur[d]
  BY <1>5 DEF Crash, TypeOK
<1>6. ASSUME NEW c \in Consumers, NEW p \in Partitions, Poll(c, p)
      PROVE  pc'[d] = pc[d] /\ cur'[d] = cur[d]
  BY <1>6 DEF Poll, TypeOK
<1>7. \/ Step(d)
      \/ pc'[d] = pc[d] /\ cur'[d] = cur[d]
  BY <1>4, <1>5, <1>6
     DEF Next, Publish, Rebalance, Expire, Withdraw, Restore, PollNothing, workVars, vars
<1> QED BY <1>2, <1>3, <1>7

\* A marker is set by a process whose message has its row.
LEMMA NextMarkerImpliesStored ==
    TypeOK /\ WorkInv /\ StageInv /\ MarkerImpliesStored /\ [Next]_vars
        => MarkerImpliesStored'
<1> SUFFICES ASSUME TypeOK, WorkInv, StageInv, MarkerImpliesStored, [Next]_vars,
                    NEW k \in processed'
             PROVE  HasRow(k)'
  BY DEF MarkerImpliesStored
<1>1. k \in Keys
  BY NextTypeOK DEF TypeOK
<1>2. CASE k \in processed
  BY <1>1, <1>2, HasRowStable DEF MarkerImpliesStored
<1>3. CASE \E c \in Consumers : Mark(c) /\ processed' = processed \cup {Msg(c).key}
  <2>1. PICK c \in Consumers : Mark(c) /\ processed' = processed \cup {Msg(c).key}
    BY <1>3
  <2>2. HasRow(Msg(c).key) /\ UNCHANGED rows
    BY <2>1 DEF Mark, StageInv, tableVars
  <2>3. k = Msg(c).key \/ k \in processed
    BY <2>1
  <2> QED BY <1>2, <2>2, <2>3 DEF HasRow
<1>4. \/ processed' \subseteq processed
      \/ \E c \in Consumers : Mark(c) /\ processed' = processed \cup {Msg(c).key}
  <2>1. ASSUME NEW c \in Consumers, Step(c)
        PROVE  \/ processed' = processed
               \/ Mark(c) /\ processed' = processed \cup {Msg(c).key}
    BY <2>1 DEF Step, Dedup, Fence, Store, Mark, Ack, storeVars
  <2> QED BY <2>1
     DEF Next, Publish, Rebalance, Expire, Withdraw, Restore, Crash, Poll,
         PollNothing, storeVars, tableVars, vars
<1> QED BY <1>2, <1>3, <1>4

\* Offsets stay within the log.
LEMMA NextPositionInv ==
    TypeOK /\ WorkInv /\ PositionInv /\ [Next]_vars => PositionInv'
<1> SUFFICES ASSUME TypeOK, WorkInv, PositionInv, [Next]_vars, NEW p \in Partitions
             PROVE  committed'[p] <= Len(log'[p]) /\ position'[p] <= Len(log'[p])
  BY DEF PositionInv
<1>1. /\ committed[p] \in Nat /\ position[p] \in Nat
      /\ committed[p] <= Len(log[p]) /\ position[p] <= Len(log[p])
      /\ Len(log[p]) \in Nat /\ Len(log'[p]) \in Nat /\ Len(log'[p]) >= Len(log[p])
  <2>1. log[p] \in Seq(Messages) /\ log'[p] \in Seq(Messages)
    BY NextTypeOK DEF TypeOK
  <2> QED BY <2>1, LogGrows DEF TypeOK, PositionInv
<1>2. ASSUME NEW a \in [Partitions -> Idle], Rebalance(a)
      PROVE  committed'[p] = committed[p] /\ position'[p] = committed[p]
  BY <1>2 DEF Rebalance
<1>3. ASSUME NEW c \in Consumers, NEW q \in Partitions, Poll(c, q)
      PROVE  /\ committed'[p] = committed[p]
             /\ position'[p] <= Len(log[p])
  BY <1>1, <1>3 DEF Poll, TypeOK
<1>4. ASSUME NEW c \in Consumers, Step(c)
      PROVE  /\ position'[p] = position[p]
             /\ committed'[p] = committed[p] \/ committed'[p] = position[p]
  <2>1. position'[p] = position[p]
    BY <1>4, StepEffect
  <2>2. committed'[p] = committed[p] \/ committed'[p] = position[p]
    BY <1>4 DEF Step, Dedup, Fence, Store, Mark, Ack, kafkaVars, TypeOK
  <2> QED BY <2>1, <2>2
<1>5. \/ \E a \in [Partitions -> Idle] : Rebalance(a)
      \/ \E c \in Consumers, q \in Partitions : Poll(c, q)
      \/ \E c \in Consumers : Step(c)
      \/ UNCHANGED <<committed, position>>
  BY DEF Next, Publish, Expire, Withdraw, Restore, Crash, PollNothing, kafkaVars, vars
<1>6. CASE \E a \in [Partitions -> Idle] : Rebalance(a)
  BY <1>1, <1>2, <1>6
<1>7. CASE \E c \in Consumers, q \in Partitions : Poll(c, q)
  <2>1. committed'[p] = committed[p] /\ position'[p] <= Len(log[p])
    BY <1>3, <1>7
  <2>2. position'[p] \in Nat
    BY NextTypeOK DEF TypeOK
  <2> QED BY <1>1, <2>1, <2>2
<1>8. CASE \E c \in Consumers : Step(c)
  <2>1. /\ position'[p] = position[p]
        /\ committed'[p] = committed[p] \/ committed'[p] = position[p]
    BY <1>4, <1>8
  <2> QED BY <1>1, <2>1
<1>9. CASE UNCHANGED <<committed, position>>
  BY <1>1, <1>9
<1> QED BY <1>5, <1>6, <1>7, <1>8, <1>9

\* The commit of one process covers what has been delivered to it, and all
\* of that is settled.
LEMMA NextCommittedSettled == IndInv /\ [Next]_vars => CommittedSettled'
<1> SUFFICES ASSUME IndInv, [Next]_vars,
                    NEW p \in Partitions, NEW o \in 1 .. committed'[p]
             PROVE  Settled(p, o)'
  BY DEF CommittedSettled
<1>1. /\ TypeOK /\ WorkInv /\ StageInv /\ PositionInv /\ CommittedSettled /\ DeliveredInv
  BY DEF IndInv
<1>2. /\ committed[p] \in Nat /\ position[p] \in Nat /\ Len(log[p]) \in Nat
      /\ committed[p] <= Len(log[p]) /\ position[p] <= Len(log[p])
  <2>1. log[p] \in Seq(Messages)
    BY <1>1 DEF TypeOK
  <2> QED BY <1>1, <2>1 DEF TypeOK, PositionInv
<1>3. CASE committed'[p] = committed[p]
  <2>1. o \in 1 .. Len(log[p]) /\ Settled(p, o)
    BY <1>1, <1>2, <1>3 DEF CommittedSettled
  <2> QED BY <1>1, <2>1, SettledStable
<1>4. ASSUME NEW c \in Consumers, Ack(c), owner[p] = c, committed'[p] = position[p]
      PROVE  Settled(p, o)'
  <2>1. o \in 1 .. Len(log[p])
    BY <1>2, <1>4
  <2>2. owner[p] # NoConsumer
    BY <1>4, NoConsumerAssumption
  <2>3. Settled(p, o) \/ InHand(p, o)
    BY <1>1, <1>4, <2>2 DEF DeliveredInv
  <2>4. ASSUME InHand(p, o) PROVE Settled(p, o)
    <3>1. cur[c] = [part |-> p, off |-> o] /\ pc[c] = "ack"
      <4>1. pc[c] = "ack"
        BY <1>4 DEF Ack
      <4>2. cur[c] = [part |-> p, off |-> o]
        BY <1>4, <2>4 DEF InHand
      <4> QED BY <4>1, <4>2
    <3>2. HasRow(Msg(c).key)
      BY <1>1, <3>1 DEF StageInv
    <3> QED BY <3>1, <3>2 DEF Settled, Msg
  <2> QED BY <1>1, <2>1, <2>3, <2>4, SettledStable
<1>5. \/ committed'[p] = committed[p]
      \/ \E c \in Consumers : Ack(c) /\ owner[p] = c /\ committed'[p] = position[p]
  <2>1. ASSUME NEW c \in Consumers, Step(c)
        PROVE  \/ committed'[p] = committed[p]
               \/ Ack(c) /\ owner[p] = c /\ committed'[p] = position[p]
    BY <2>1 DEF Step, Dedup, Fence, Store, Mark, Ack, kafkaVars
  <2> QED BY <2>1
     DEF Next, Publish, Rebalance, Expire, Withdraw, Restore, Crash, Poll,
         PollNothing, kafkaVars, vars
<1> QED BY <1>3, <1>4, <1>5

\* Delivery: poll() puts the next message in the owner's hand; a step lets go
\* of it only when it is settled; a rebalance starts again from the committed
\* offset.
LEMMA NextDeliveredInv == IndInv /\ [Next]_vars => DeliveredInv'
<1> SUFFICES ASSUME IndInv, [Next]_vars, NEW p \in Partitions,
                    owner'[p] # NoConsumer, NEW o \in 1 .. position'[p]
             PROVE  Settled(p, o)' \/ InHand(p, o)'
  BY DEF DeliveredInv
<1>1. TypeOK /\ WorkInv /\ StageInv /\ PositionInv /\ CommittedSettled /\ DeliveredInv
  BY DEF IndInv
<1>2. /\ committed[p] \in Nat /\ position[p] \in Nat /\ Len(log[p]) \in Nat
      /\ committed[p] <= Len(log[p]) /\ position[p] <= Len(log[p])
  <2>1. log[p] \in Seq(Messages)
    BY <1>1 DEF TypeOK
  <2> QED BY <1>1, <2>1 DEF TypeOK, PositionInv
<1>3. CASE owner'[p] = owner[p] /\ o \in 1 .. position[p]
  <2>1. Settled(p, o) => Settled(p, o)'
    BY <1>1, <1>2, <1>3, SettledStable
  <2>2. SUFFICES ASSUME InHand(p, o) PROVE Settled(p, o)' \/ InHand(p, o)'
    BY <1>1, <1>3, <2>1 DEF DeliveredInv
  <2>3. PICK d \in Consumers :
            owner[p] = d /\ pc[d] # "idle" /\ cur[d] = [part |-> p, off |-> o]
    BY <2>2 DEF InHand
  <2>4. CASE pc'[d] # "idle" /\ cur'[d] = cur[d]
    BY <1>3, <2>3, <2>4 DEF InHand
  <2>5. CASE Step(d)
    <3>1. CASE pc[d] = "ack"
      <4>1. HasRow(Msg(d).key)
        BY <1>1, <3>1 DEF StageInv
      <4> QED BY <2>1, <2>3, <4>1 DEF Settled, Msg
    <3>2. CASE cur[d] \in gaveUp'
      BY <2>3, <3>2 DEF Settled
    <3> QED BY <1>1, <2>4, <2>5, <3>1, <3>2, StepEffect DEF Stages
  <2>6. ASSUME NEW c \in Consumers, Step(c), c # d
        PROVE  pc'[d] # "idle" /\ cur'[d] = cur[d]
    BY <1>1, <2>3, <2>6, StepEffect
  <2>7. ASSUME NEW c \in Consumers, Crash(c)
        PROVE  pc'[d] # "idle" /\ cur'[d] = cur[d]
    <3>1. c # d
      BY <1>3, <2>3, <2>7, NoConsumerAssumption DEF Crash
    <3> QED BY <1>1, <2>3, <2>7, <3>1 DEF Crash, TypeOK
  <2>8. ASSUME NEW c \in Consumers, NEW q \in Partitions, Poll(c, q)
        PROVE  pc'[d] # "idle" /\ cur'[d] = cur[d]
    BY <1>1, <2>3, <2>8 DEF Poll, TypeOK
  <2>9. \/ Step(d)
        \/ pc'[d] # "idle" /\ cur'[d] = cur[d]
    BY <2>3, <2>6, <2>7, <2>8
       DEF Next, Publish, Rebalance, Expire, Withdraw, Restore, PollNothing,
           workVars, vars
  <2> QED BY <2>4, <2>5, <2>9
<1>4. ASSUME NEW a \in [Partitions -> Idle], Rebalance(a) PROVE Settled(p, o)'
  <2>1. o \in 1 .. committed[p]
    BY <1>4 DEF Rebalance
  <2> QED BY <1>1, <1>2, <2>1, SettledStable DEF CommittedSettled
<1>5. ASSUME NEW c \in Consumers, NEW q \in Partitions, Poll(c, q)
      PROVE  Settled(p, o)' \/ InHand(p, o)'
  <2>1. owner'[p] = owner[p]
    BY <1>5 DEF Poll
  <2>2. CASE o \in 1 .. position[p]
    BY <1>3, <2>1, <2>2
  <2>3. CASE o \notin 1 .. position[p]
    <3>1. q = p /\ o = position[p] + 1
      BY <1>1, <1>2, <1>5, <2>3 DEF Poll, TypeOK
    <3>2. /\ owner'[p] = c
          /\ pc'[c] = "dedup"
          /\ cur'[c] = [part |-> p, off |-> o]
      BY <1>1, <1>5, <3>1 DEF Poll, TypeOK
    <3> QED BY <3>2 DEF InHand
  <2> QED BY <2>2, <2>3
<1>6. \/ \E a \in [Partitions -> Idle] : Rebalance(a)
      \/ \E c \in Consumers, q \in Partitions : Poll(c, q)
      \/ owner'[p] = owner[p] /\ o \in 1 .. position[p]
  <2>1. ASSUME NEW c \in Consumers, Crash(c)
        PROVE  owner'[p] = owner[p] /\ o \in 1 .. position[p]
    BY <2>1 DEF Crash
  <2>2. ASSUME NEW c \in Consumers, Step(c)
        PROVE  owner'[p] = owner[p] /\ o \in 1 .. position[p]
    BY <1>1, <2>2, StepEffect
  <2> QED BY <2>1, <2>2
             DEF Next, Publish, Expire, Withdraw, Restore, PollNothing,
                 kafkaVars, vars
<1> QED BY <1>3, <1>4, <1>5, <1>6

-----------------------------------------------------------------------------
(***************************************************************************)
(* The theorems.                                                           *)
(***************************************************************************)

\* PATCH makes a DRAFT of a row that is none.
LEMMA NextDraftInv == TypeOK /\ WorkInv /\ DraftInv /\ [Next]_vars => DraftInv'
<1> SUFFICES ASSUME TypeOK, WorkInv, DraftInv, [Next]_vars, NEW x \in Slots
             PROVE  drafts'[x] <= drafted'[x] /\ drafted'[x] <= rows'[x]
  BY DEF DraftInv
<1>1. /\ drafts \in [Slots -> Nat] /\ drafted \in [Slots -> Nat] /\ rows[x] \in Nat
      /\ drafts[x] \in Nat /\ drafted[x] \in Nat /\ rows'[x] \in Nat
      /\ drafts[x] <= drafted[x] /\ drafted[x] <= rows[x] /\ rows[x] <= rows'[x]
  BY NextTypeOK, RowsGrow DEF TypeOK, DraftInv
<1>2. ASSUME NEW y \in Slots, Withdraw(y)
      PROVE  drafts'[x] <= drafted'[x] /\ drafted'[x] <= rows'[x]
  <2>1. /\ drafts' = [drafts EXCEPT ![y] = @ + 1]
        /\ drafts[y] < rows[y]
        /\ UNCHANGED rows
    BY <1>2 DEF Withdraw
  <2>2. \/ drafted' = [drafted EXCEPT ![y] = @ + 1] /\ drafted[y] < rows[y]
        \/ drafted' = drafted /\ drafts[y] < drafted[y]
    BY <1>2 DEF Withdraw
  <2>3. CASE x = y
    BY <1>1, <2>1, <2>2, <2>3
  <2>4. CASE x # y
    BY <1>1, <2>1, <2>2, <2>4
  <2> QED BY <2>3, <2>4
<1>3. ASSUME NEW y \in Slots, Restore(y)
      PROVE  drafts'[x] <= drafted'[x] /\ drafted'[x] <= rows'[x]
  <2>1. drafts' = [drafts EXCEPT ![y] = @ - 1] /\ drafts[y] > 0 /\ UNCHANGED <<rows, drafted>>
    BY <1>3 DEF Restore
  <2> QED BY <1>1, <2>1
<1>4. CASE UNCHANGED <<drafts, drafted>>
  BY <1>1, <1>4
<1>5. ASSUME NEW c \in Consumers, Step(c) PROVE UNCHANGED <<drafts, drafted>>
  BY <1>5 DEF Step, Dedup, Fence, Store, Mark, Ack, storeVars, tableVars
<1> QED BY <1>2, <1>3, <1>4, <1>5
    DEF Next, Publish, Rebalance, Expire, Crash, Poll, PollNothing, storeVars,
        tableVars, vars

LEMMA InitIndInv == Init => IndInv
<1> SUFFICES ASSUME Init PROVE IndInv
  OBVIOUS
<1>1. TypeOK
  BY InitTypeOK
<1>2. WorkInv /\ StageInv /\ MarkerImpliesStored /\ CommittedSettled
  BY DEF Init, WorkInv, StageInv, MarkerImpliesStored, CommittedSettled
<1>3. PositionInv /\ DeliveredInv /\ DraftInv
  BY DEF Init, PositionInv, DeliveredInv, DraftInv
<1> QED BY <1>1, <1>2, <1>3 DEF IndInv

LEMMA NextIndInv == IndInv /\ [Next]_vars => IndInv'
BY NextTypeOK, NextWorkInv, NextStageInv, NextMarkerImpliesStored, NextPositionInv,
   NextCommittedSettled, NextDeliveredInv, NextDraftInv DEF IndInv

\* The invariant holds of every behaviour of the group.
THEOREM Invariance == Spec => []IndInv
BY InitIndInv, NextIndInv, PTL DEF Spec

\* Every variable keeps its type.
THEOREM TypeCorrectness == Spec => []TypeOK
<1>1. IndInv => TypeOK
  BY DEF IndInv
<1> QED BY <1>1, Invariance, PTL

\* A Redis marker never stands for a paper that is not in the database.
THEOREM MarkerSoundness == Spec => []MarkerImpliesStored
<1>1. IndInv => MarkerImpliesStored
  BY DEF IndInv
<1> QED BY <1>1, Invariance, PTL

\* The committed offset never passes a message that is still to be handled.
THEOREM CommitSoundness == Spec => []CommittedSettled
<1>1. IndInv => CommittedSettled
  BY DEF IndInv
<1> QED BY <1>1, Invariance, PTL

-----------------------------------------------------------------------------
(***************************************************************************)
(* How many rows a key can get in a department.  Between the fence and the *)
(* commit a process is about to write a row it has not seen; each process  *)
(* can be there once, and nobody gets there while a row is in sight.       *)
(***************************************************************************)

AtStore(x) == {c \in Consumers : pc[c] = "store" /\ Slot(Msg(c)) = x}

RowsInv ==
    \A x \in Slots :
        rows[x] - drafted[x] + Cardinality(AtStore(x)) <= Cardinality(Consumers)

LEMMA AtStoreFinite ==
    ASSUME NEW x
    PROVE  /\ IsFiniteSet(AtStore(x)) /\ Cardinality(AtStore(x)) \in Nat
           /\ IsFiniteSet(AtStore(x)') /\ Cardinality(AtStore(x)') \in Nat
           /\ Cardinality(Consumers) \in Nat
           /\ Cardinality(AtStore(x)') <= Cardinality(Consumers)
<1>1. AtStore(x) \subseteq Consumers /\ AtStore(x)' \subseteq Consumers
  BY DEF AtStore
<1> QED BY <1>1, ConsumersAssumption, FS_Subset, FS_CardinalityType

\* Only Fence brings a process to "store", and only when no row is in sight:
\* all there are have been a DRAFT.
LEMMA StoreEntry ==
    ASSUME TypeOK, WorkInv, DraftInv, [Next]_vars, NEW x \in Slots, NEW d \in AtStore(x)'
    PROVE  d \in AtStore(x) \/ (rows[x] <= drafted[x] /\ UNCHANGED <<rows, drafted>>)
<1>1. d \in Consumers /\ pc'[d] = "store" /\ Slot(Msg(d)') = x
  BY DEF AtStore, Slot
<1>2. CASE pc[d] = "store" /\ cur'[d] = cur[d]
  <2>1. Msg(d)' = Msg(d)
    BY <1>1, <1>2, MsgStable
  <2> QED BY <1>1, <1>2, <2>1 DEF AtStore
<1>3. CASE Step(d)
  <2>1. pc[d] # "idle" /\ cur'[d] = cur[d]
    BY <1>1, <1>3, StepEffect DEF Stages
  <2>2. Msg(d)' = Msg(d)
    BY <1>1, <2>1, MsgStable
  <2>3. CASE Fence(d)
    <3>1. Seen(x) <= 1 /\ Seen(x) # 1 /\ UNCHANGED <<rows, drafted>>
      BY <1>1, <2>2, <2>3, RaiseEffect, GotoEffect DEF Fence, storeVars
    <3>2. /\ rows[x] \in Nat /\ drafts[x] \in Nat /\ drafted[x] \in Nat
          /\ drafts[x] <= drafted[x] /\ drafted[x] <= rows[x]
      BY DEF TypeOK, DraftInv
    <3>3. rows[x] <= drafted[x]
      BY <3>1, <3>2 DEF Seen
    <3> QED BY <3>1, <3>3
  <2>4. CASE Dedup(d) \/ Store(d) \/ Mark(d) \/ Ack(d)
    <3>1. CASE Ack(d)
      BY <1>1, <3>1 DEF Ack, Release, TypeOK
    <3>2. CASE Dedup(d)
      BY <1>1, <3>2, RaiseEffect, GotoEffect DEF Dedup
    <3>3. CASE Store(d)
      BY <1>1, <3>3, RaiseEffect, GotoEffect DEF Store
    <3>4. CASE Mark(d)
      BY <1>1, <3>4, RaiseEffect, GotoEffect DEF Mark
    <3> QED BY <2>4, <3>1, <3>2, <3>3, <3>4
  <2> QED BY <1>3, <2>3, <2>4 DEF Step
<1>4. ASSUME NEW c \in Consumers, Step(c), c # d
      PROVE  pc'[d] = pc[d] /\ cur'[d] = cur[d]
  BY <1>1, <1>4, StepEffect
<1>5. ASSUME NEW c \in Consumers, Crash(c) PROVE pc'[d] = pc[d] /\ cur'[d] = cur[d]
  BY <1>1, <1>5 DEF Crash, TypeOK
<1>6. ASSUME NEW c \in Consumers, NEW p \in Partitions, Poll(c, p)
      PROVE  pc'[d] = pc[d] /\ cur'[d] = cur[d]
  BY <1>1, <1>6 DEF Poll, TypeOK
<1>7. Step(d) \/ (pc'[d] = pc[d] /\ cur'[d] = cur[d])
  BY <1>1, <1>4, <1>5, <1>6
     DEF Next, Publish, Rebalance, Expire, Withdraw, Restore, PollNothing, workVars, vars
<1> QED BY <1>1, <1>2, <1>3, <1>7

\* Only Store writes a row, and the process that does leaves "store".
LEMMA RowWritten ==
    ASSUME TypeOK, WorkInv, [Next]_vars, NEW x \in Slots, rows'[x] # rows[x]
    PROVE  /\ rows' = [rows EXCEPT ![x] = @ + 1]
           /\ \E c \in AtStore(x) : c \notin AtStore(x)' /\ Msg(c).kind = "storable"
           /\ UNCHANGED <<log, drafted>>
<1>1. PICK c \in Consumers : Store(c)
  BY DEF Next, Publish, Rebalance, Expire, Withdraw, Restore, Crash, Poll, PollNothing,
         Step, Dedup, Fence, Mark, Ack, storeVars, tableVars, vars
<1>2. /\ Msg(c).kind = "storable"
      /\ rows' = [rows EXCEPT ![Slot(Msg(c))] = @ + 1]
      /\ pc[c] = "store"
      /\ UNCHANGED drafted
  BY <1>1 DEF Store
<1>3. rows \in [Slots -> Nat]
  BY DEF TypeOK
<1>4. Slot(Msg(c)) = x
  BY <1>2, <1>3
<1>5. pc'[c] # "store"
  BY <1>1, RaiseEffect, GotoEffect DEF Store
<1>6. UNCHANGED log
  BY <1>1, StepEffect DEF Step
<1> QED BY <1>2, <1>4, <1>5, <1>6 DEF AtStore

LEMMA DraftedGrows ==
    ASSUME TypeOK, [Next]_vars, NEW x \in Slots
    PROVE  drafted[x] \in Nat /\ drafted'[x] \in Nat /\ drafted'[x] >= drafted[x]
<1>1. drafted \in [Slots -> Nat]
  BY DEF TypeOK
<1>2. ASSUME NEW y \in Slots, Withdraw(y)
      PROVE  drafted' = drafted \/ drafted' = [drafted EXCEPT ![y] = @ + 1]
  BY <1>2 DEF Withdraw
<1>3. (\A y \in Slots : ~Withdraw(y)) => drafted' = drafted
  BY DEF Next, Publish, Rebalance, Expire, Restore, Crash, Poll, PollNothing,
         Step, Dedup, Fence, Store, Mark, Ack, storeVars, tableVars, vars
<1> QED BY <1>1, <1>2, <1>3

LEMMA NextRowsInv == TypeOK /\ WorkInv /\ DraftInv /\ RowsInv /\ [Next]_vars => RowsInv'
<1> SUFFICES ASSUME TypeOK, WorkInv, DraftInv, RowsInv, [Next]_vars, NEW x \in Slots
             PROVE  rows'[x] - drafted'[x] + Cardinality(AtStore(x)') <= Cardinality(Consumers)
  BY DEF RowsInv
<1>1. /\ rows[x] \in Nat /\ rows'[x] \in Nat
      /\ rows[x] - drafted[x] + Cardinality(AtStore(x)) <= Cardinality(Consumers)
  BY NextTypeOK DEF TypeOK, RowsInv
<1>5. drafted[x] \in Nat /\ drafted'[x] \in Nat /\ drafted'[x] >= drafted[x]
  BY DraftedGrows
<1>2. CASE rows'[x] # rows[x]
  <2>1. rows'[x] = rows[x] + 1 /\ drafted' = drafted
    BY <1>2, RowWritten DEF TypeOK
  <2>2. PICK c \in AtStore(x) : c \notin AtStore(x)'
    BY <1>2, RowWritten
  <2>3. AtStore(x)' \subseteq AtStore(x) \ {c}
    BY <1>2, <2>2, StoreEntry
  <2>4. Cardinality(AtStore(x) \ {c}) = Cardinality(AtStore(x)) - 1
    BY <2>2, AtStoreFinite, FS_RemoveElement
  <2>5. Cardinality(AtStore(x)') <= Cardinality(AtStore(x) \ {c})
    BY <2>3, AtStoreFinite, FS_RemoveElement, FS_Subset
  <2> QED BY <1>1, <1>5, <2>1, <2>4, <2>5, AtStoreFinite
<1>3. CASE rows'[x] = rows[x] /\ rows[x] <= drafted[x]
  BY <1>1, <1>3, <1>5, AtStoreFinite
<1>4. CASE rows'[x] = rows[x] /\ ~(rows[x] <= drafted[x])
  <2>1. AtStore(x)' \subseteq AtStore(x)
    BY <1>4, StoreEntry
  <2>2. Cardinality(AtStore(x)') <= Cardinality(AtStore(x))
    BY <2>1, AtStoreFinite, FS_Subset
  <2> QED BY <1>1, <1>4, <1>5, <2>2, AtStoreFinite
<1> QED BY <1>2, <1>3, <1>4

LEMMA InitRowsInv == Init => RowsInv
<1> SUFFICES ASSUME Init, NEW x \in Slots
             PROVE  rows[x] - drafted[x] + Cardinality(AtStore(x)) <= Cardinality(Consumers)
  BY DEF RowsInv
<1>1. rows[x] = 0 /\ drafted[x] = 0 /\ AtStore(x) = {}
  BY DEF Init, AtStore
<1> QED BY <1>1, FS_EmptySet, ConsumersAssumption, FS_CardinalityType

LEMMA RowsInvariance == Spec => []RowsInv
<1>1. IndInv => TypeOK /\ WorkInv /\ DraftInv
  BY DEF IndInv
<1> QED BY <1>1, InitRowsInv, NextRowsInv, Invariance, PTL DEF Spec

\* Besides the rows that have been a DRAFT, a key never has more rows in a
\* department than the group has processes.
THEOREM RowBound == Spec => []RowsBounded
<1>1. TypeOK /\ RowsInv => RowsBounded
  BY SMTT(30), AtStoreFinite DEF TypeOK, RowsInv, RowsBounded
<1> QED BY <1>1, TypeCorrectness, RowsInvariance, PTL

-----------------------------------------------------------------------------
(***************************************************************************)
(* Refinement.                                                             *)
(***************************************************************************)

\* What is about to be stored has been offered.
LEMMA OfferedMessage ==
    ASSUME NEW c \in Consumers, TypeOK, WorkInv, pc[c] # "idle", Msg(c).kind = "storable"
    PROVE  Slot(Msg(c)) \in Offered
<1>1. /\ cur[c].part \in Partitions /\ cur[c].off \in 1 .. Len(log[cur[c].part])
      /\ Msg(c) \in Messages
  BY HandMessage DEF Work
<1>2. Slot(Msg(c)) \in Slots
  BY <1>1 DEF Messages, Slot, Slots
<1> QED BY <1>1, <1>2 DEF Offered, Msg

\* Publishing offers at most one more key in a department.
LEMMA PublishOffers ==
    ASSUME TypeOK, NEW p \in Partitions, NEW m \in Messages, Publish(p, m)
    PROVE  Offered' = Offered \/ Offered' = Offered \cup {Slot(m)}
<1>1. log[p] \in Seq(Messages) /\ log \in [Partitions -> Seq(Messages)]
  BY DEF TypeOK
<1>2. log' = [log EXCEPT ![p] = Append(log[p], m)]
  BY DEF Publish
<1>3. /\ Len(Append(log[p], m)) = Len(log[p]) + 1 /\ Len(log[p]) \in Nat
      /\ \A o \in 1 .. Len(log[p]) : Append(log[p], m)[o] = log[p][o]
      /\ Append(log[p], m)[Len(log[p]) + 1] = m
  BY <1>1
<1>4. \A q \in Partitions : q # p => log'[q] = log[q]
  BY <1>1, <1>2
<1>5. log'[p] = Append(log[p], m)
  BY <1>1, <1>2
<1>6. Offered \subseteq Offered'
  BY SMTT(30), <1>3, <1>4, <1>5 DEF Offered
<1>7. ASSUME NEW x \in Offered', x \notin Offered PROVE x = Slot(m)
  <2>5. PICK q \in Partitions : \E o \in 1 .. Len(log'[q]) :
            Slot(log'[q][o]) = x /\ log'[q][o].kind = "storable"
    BY DEF Offered
  <2>1. PICK o \in 1 .. Len(log'[q]) :
            Slot(log'[q][o]) = x /\ log'[q][o].kind = "storable"
    BY <2>5
  <2>2. x \in Slots
    BY DEF Offered
  <2>3. q = p
    BY <1>4, <1>7, <2>1, <2>2 DEF Offered
  <2>4. o = Len(log[p]) + 1
    BY SMTT(30), <1>3, <1>5, <1>7, <2>1, <2>2, <2>3 DEF Offered
  <2> QED BY <1>3, <1>5, <2>1, <2>3, <2>4
<1>8. ASSUME NEW x \in Offered', x \notin Offered PROVE Slot(m) \in Offered'
  BY <1>7, <1>8
<1> QED BY <1>6, <1>7, <1>8

LEMMA StepRefines ==
    ASSUME TypeOK, WorkInv, DraftInv, RowsInv, [Next]_vars
    PROVE  [Intake!Next]_(Intake!vars)
<1>1. ASSUME NEW x \in Slots, rows'[x] # rows[x] PROVE Intake!Accept(x)
  <2>1. PICK c \in AtStore(x) : Msg(c).kind = "storable"
    BY <1>1, RowWritten
  <2>2. x \in Offered
    BY <2>1, OfferedMessage DEF AtStore
  <2>3. Cardinality(AtStore(x)) # 0
    BY <2>1, AtStoreFinite, FS_EmptySet
  <2>4. rows[x] < Cardinality(Consumers) + drafted[x]
    BY <2>3, AtStoreFinite DEF TypeOK, RowsInv
  <2>5. rows' = [rows EXCEPT ![x] = @ + 1] /\ Offered' = Offered /\ drafted' = drafted
    BY <1>1, RowWritten DEF Offered
  <2> QED BY <2>2, <2>4, <2>5 DEF Intake!Accept
<1>3. ASSUME NEW x \in Slots, Withdraw(x), drafted' # drafted PROVE Intake!Withdraw(x)
  <2>1. drafted[x] < rows[x] /\ drafted' = [drafted EXCEPT ![x] = @ + 1]
        /\ UNCHANGED <<rows, log>>
    BY <1>3 DEF Withdraw, kafkaVars
  <2> QED BY <2>1 DEF Intake!Withdraw, Offered
<1>4. (\A x \in Slots : ~Withdraw(x)) => drafted' = drafted
  BY DEF Next, Publish, Rebalance, Expire, Restore, Crash, Poll, PollNothing,
         Step, Dedup, Fence, Store, Mark, Ack, storeVars, tableVars, vars
<1>2. CASE (\A x \in Slots : rows'[x] = rows[x]) /\ drafted' = drafted
  <2>1. rows' = rows
    BY <1>2, NextTypeOK DEF TypeOK
  <2>2. ASSUME NEW p \in Partitions, NEW m \in Messages, Publish(p, m)
        PROVE  Offered' = Offered \/ \E x \in Slots : Offered' = Offered \cup {x}
    BY <2>2, PublishOffers DEF Messages, Slot, Slots
  <2>3. (\A p \in Partitions, m \in Messages : ~Publish(p, m)) => UNCHANGED log
    <3>1. ASSUME NEW c \in Consumers, Step(c) PROVE UNCHANGED log
      BY <3>1, StepEffect
    <3> QED BY <3>1
        DEF Next, Rebalance, Expire, Withdraw, Restore, Crash, Poll, PollNothing,
            kafkaVars, vars
  <2>4. UNCHANGED log => Offered' = Offered
    BY DEF Offered
  <2> QED BY <1>2, <2>1, <2>2, <2>3, <2>4 DEF Intake!Next, Intake!Offer, Intake!vars
<1> QED BY <1>1, <1>2, <1>3, <1>4 DEF Intake!Next

\* The group keeps the promise of PaperIntake, whatever the faults.
THEOREM Refinement == Spec => ImplementsIntake
<1>1. Init => Intake!Init
  BY DEF Init, Intake!Init, Offered
<1>2. IndInv /\ RowsInv /\ [Next]_vars => [Intake!Next]_(Intake!vars)
  BY StepRefines DEF IndInv
<1> QED BY <1>1, <1>2, Invariance, RowsInvariance, PTL DEF Spec, ImplementsIntake, Intake!Spec

-----------------------------------------------------------------------------
(***************************************************************************)
(* What EventuallySettled rests on.                                        *)
(***************************************************************************)

\* Where delivery goes on: a partition without an owner restarts from the
\* committed offset.
Resume(p) == IF owner[p] = NoConsumer THEN committed[p] ELSE position[p]

\* A message that is not decided is with the owner of its partition, or will
\* be delivered: none is passed over, by whatever commits and rebalances.
NothingForgotten ==
    \A p \in Partitions : \A o \in 1 .. Len(log[p]) :
        Settled(p, o) \/ InHand(p, o) \/ Resume(p) < o

\* The guards of Step and of Poll.
CanAct(c) ==
    \/ pc[c] \in Stages
    \/ pc[c] = "idle" /\ \E p \in Owned(c) : position[p] < Len(log[p])

\* As long as a message is undecided, the owner of its partition has something
\* to do, or the coordinator has the partition to assign.
NothingStalls ==
    \A p \in Partitions : \A o \in 1 .. Len(log[p]) :
        Settled(p, o) \/ owner[p] = NoConsumer \/ CanAct(owner[p])

\* Redelivery and commits never lose sight of an undecided message, for any
\* number of processes and partitions.
THEOREM DeliverySoundness == Spec => []NothingForgotten
<1>1. IndInv => NothingForgotten
  <2> SUFFICES ASSUME IndInv, NEW p \in Partitions, NEW o \in 1 .. Len(log[p]),
                      ~(Resume(p) < o)
               PROVE  Settled(p, o) \/ InHand(p, o)
    BY DEF NothingForgotten
  <2>1. committed[p] \in Nat /\ position[p] \in Nat /\ log[p] \in Seq(Messages)
    BY DEF IndInv, TypeOK
  <2>2. CASE owner[p] = NoConsumer
    <3>1. o \in 1 .. committed[p]
      BY <2>1, <2>2 DEF Resume
    <3> QED BY <3>1 DEF IndInv, CommittedSettled
  <2>3. CASE owner[p] # NoConsumer
    <3>1. o \in 1 .. position[p]
      BY <2>1, <2>3 DEF Resume
    <3> QED BY <2>3, <3>1 DEF IndInv, DeliveredInv
  <2> QED BY <2>2, <2>3
<1> QED BY <1>1, Invariance, PTL

\* While a message is undecided, its partition's owner is busy or has it to poll.
THEOREM StallFreedom == Spec => []NothingStalls
<1>1. IndInv /\ NothingForgotten => NothingStalls
  <2> SUFFICES ASSUME IndInv, NothingForgotten, NEW p \in Partitions,
                      NEW o \in 1 .. Len(log[p]), ~Settled(p, o), owner[p] # NoConsumer
               PROVE  CanAct(owner[p])
    BY DEF NothingStalls
  <2>1. /\ owner[p] \in Consumers
        /\ pc \in [Consumers -> Stages \cup {"idle"}]
        /\ position[p] \in Nat /\ log[p] \in Seq(Messages)
    BY DEF IndInv, TypeOK
  <2>2. CASE pc[owner[p]] \in Stages
    BY <2>2 DEF CanAct
  <2>3. CASE pc[owner[p]] = "idle"
    <3>1. ~InHand(p, o)
      BY <2>3 DEF InHand
    <3>2. position[p] < Len(log[p])
      BY <2>1, <3>1 DEF NothingForgotten, Resume
    <3> QED BY <2>1, <2>3, <3>2 DEF CanAct, Owned
  <2> QED BY <2>1, <2>2, <2>3
<1> QED BY <1>1, Invariance, DeliverySoundness, PTL

\* The stages a message may still go through, its retries included.
StagesLeft(stage) ==
    CASE stage = "dedup" -> 5
      [] stage = "fence" -> 4
      [] stage = "store" -> 3
      [] stage = "mark"  -> 2
      [] stage = "ack"   -> 1

Remaining(c) ==
    IF pc[c] = "idle" THEN 0
    ELSE (MaxAttempts - attempt[c]) * 5 + StagesLeft(pc[c])

\* _process_message comes to an end: every stage and every retry uses up a part
\* of what remains, and nobody else's step adds to it.
WorkEnds ==
    \A c \in Consumers : pc[c] # "idle" =>
        /\ Remaining(c)' <= Remaining(c)
        /\ Step(c) => Remaining(c)' < Remaining(c)

LEMMA RaiseShortens ==
    ASSUME TypeOK, NEW c \in Consumers, pc[c] \in Stages, Raise(c)
    PROVE  Remaining(c)' < Remaining(c)
<1>1. /\ pc \in [Consumers -> Stages \cup {"idle"}]
      /\ attempt \in [Consumers -> 0 .. MaxAttempts]
      /\ MaxAttempts \in Nat
  BY BoundsAssumption DEF TypeOK
<1>2. StagesLeft(pc[c]) \in 1 .. 5 /\ Remaining(c) = (MaxAttempts - attempt[c]) * 5 + StagesLeft(pc[c])
  BY DEF Stages, StagesLeft, Remaining
<1>3. CASE attempt[c] < MaxAttempts
  <2>1. pc'[c] = "dedup" /\ attempt'[c] = attempt[c] + 1
    BY <1>1, <1>3 DEF Raise
  <2>2. Remaining(c)' = (MaxAttempts - (attempt[c] + 1)) * 5 + 5
    BY <2>1 DEF Remaining, StagesLeft
  <2> QED BY <1>1, <1>2, <1>3, <2>2
<1>4. CASE ~(attempt[c] < MaxAttempts)
  <2>1. Remaining(c)' = 0
    BY <1>1, <1>4 DEF Raise, Release, Remaining
  <2> QED BY <1>1, <1>2, <2>1
<1> QED BY <1>3, <1>4

LEMMA StepShortens ==
    ASSUME TypeOK, NEW c \in Consumers, Step(c)
    PROVE  Remaining(c)' < Remaining(c) /\ pc[c] \in Stages
<1>1. /\ pc \in [Consumers -> Stages \cup {"idle"}]
      /\ attempt \in [Consumers -> 0 .. MaxAttempts]
      /\ MaxAttempts \in Nat
  BY BoundsAssumption DEF TypeOK
<1>2. pc[c] \in Stages
  BY DEF Step, Dedup, Fence, Store, Mark, Ack, Stages
<1>3. ASSUME NEW stage \in Stages, Goto(c, stage), StagesLeft(stage) < StagesLeft(pc[c])
      PROVE  Remaining(c)' < Remaining(c)
  <2>1. pc'[c] = stage /\ attempt'[c] = attempt[c] /\ stage # "idle"
    BY <1>1, <1>3 DEF Goto, Stages
  <2>2. /\ Remaining(c) = (MaxAttempts - attempt[c]) * 5 + StagesLeft(pc[c])
        /\ Remaining(c)' = (MaxAttempts - attempt[c]) * 5 + StagesLeft(stage)
    BY <1>2, <2>1 DEF Remaining, Stages
  <2>3. StagesLeft(pc[c]) \in Nat /\ StagesLeft(stage) \in Nat
    BY <1>2 DEF Stages, StagesLeft
  <2> QED BY <1>1, <1>3, <2>2, <2>3
<1>4. CASE Raise(c)
  BY <1>2, <1>4, RaiseShortens
<1>5. CASE Ack(c)
  <2>1. Remaining(c)' = 0 /\ pc[c] = "ack"
    BY <1>1, <1>5 DEF Ack, Release, Remaining
  <2>2. Remaining(c) = (MaxAttempts - attempt[c]) * 5 + 1
    BY <2>1 DEF Remaining, StagesLeft
  <2> QED BY <1>1, <2>1, <2>2
<1>6. CASE Dedup(c)
  BY <1>3, <1>4, <1>6 DEF Dedup, Stages, StagesLeft
<1>7. CASE Fence(c)
  BY <1>3, <1>4, <1>7 DEF Fence, Stages, StagesLeft
<1>8. CASE Store(c)
  BY <1>3, <1>4, <1>8 DEF Store, Stages, StagesLeft
<1>9. CASE Mark(c)
  BY <1>3, <1>4, <1>9 DEF Mark, Stages, StagesLeft
<1> QED BY <1>2, <1>5, <1>6, <1>7, <1>8, <1>9 DEF Step

\* No message keeps a process for ever: it is done, or given up, after at most
\* five stages for each of its attempts.
THEOREM WorkTermination == Spec => [][WorkEnds]_vars
<1>1. IndInv /\ [Next]_vars => [WorkEnds]_vars
  <2> SUFFICES ASSUME IndInv, [Next]_vars, NEW c \in Consumers, pc[c] # "idle"
               PROVE  /\ Remaining(c)' <= Remaining(c)
                      /\ Step(c) => Remaining(c)' < Remaining(c)
    BY DEF WorkEnds
  <2>1. /\ TypeOK /\ WorkInv
        /\ pc \in [Consumers -> Stages \cup {"idle"}]
        /\ attempt \in [Consumers -> 0 .. MaxAttempts]
        /\ MaxAttempts \in Nat
    BY BoundsAssumption DEF IndInv, TypeOK
  <2>2. Step(c) => Remaining(c)' < Remaining(c)
    BY <2>1, StepShortens
  <2>3. Remaining(c) \in Nat
    <3>1. StagesLeft(pc[c]) \in Nat
      BY <2>1 DEF Stages, StagesLeft
    <3> QED BY <2>1, <3>1 DEF Remaining
  <2>4. CASE Step(c)
    <3>1. Remaining(c)' \in Nat
      <4>1. TypeOK'
        BY NextTypeOK, <2>1
      <4>2. /\ pc'[c] \in Stages \cup {"idle"}
            /\ attempt'[c] \in 0 .. MaxAttempts
        BY <4>1 DEF TypeOK
      <4>3. pc'[c] # "idle" => StagesLeft(pc'[c]) \in Nat
        BY <4>2 DEF Stages, StagesLeft
      <4> QED BY <2>1, <4>2, <4>3 DEF Remaining
    <3> QED BY <2>2, <2>3, <2>4, <3>1
  <2>5. CASE ~Step(c)
    <3>1. \/ pc'[c] = pc[c] /\ attempt'[c] = attempt[c]
          \/ pc'[c] = "idle"
      <4>1. ASSUME NEW d \in Consumers, Step(d), d # c
            PROVE  pc'[c] = pc[c] /\ attempt'[c] = attempt[c]
        BY <2>1, <4>1
           DEF Step, Dedup, Fence, Store, Mark, Ack, Goto, Raise, Release
      <4>2. ASSUME NEW d \in Consumers, Crash(d)
            PROVE  \/ pc'[c] = pc[c] /\ attempt'[c] = attempt[c]
                   \/ pc'[c] = "idle"
        BY <2>1, <4>2 DEF Crash
      <4>3. ASSUME NEW d \in Consumers, NEW p \in Partitions, Poll(d, p)
            PROVE  pc'[c] = pc[c] /\ attempt'[c] = attempt[c]
        BY <2>1, <4>3 DEF Poll
      <4> QED BY <2>5, <4>1, <4>2, <4>3
              DEF Next, Publish, Rebalance, Expire, Withdraw, Restore,
                  PollNothing, workVars, vars
    <3>2. Remaining(c)' = Remaining(c) \/ Remaining(c)' = 0
      BY <3>1 DEF Remaining
    <3> QED BY <2>3, <2>5, <3>2
  <2> QED BY <2>4, <2>5, <2>2
<1> QED BY <1>1, Invariance, PTL DEF Spec

=============================================================================
