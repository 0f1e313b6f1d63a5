------------------------ MODULE IngestionWorkerProofs ------------------------
(***************************************************************************)
(* Theorems about IngestionWorker, for any mailbox, contents of the mails, *)
(* size of a batch, number of attempts and number of faults.               *)
(***************************************************************************)
EXTENDS IngestionWorker, FiniteSetTheorems, SequenceTheorems, TLAPS

-----------------------------------------------------------------------------
(***************************************************************************)
(* The inductive invariant.                                                *)
(***************************************************************************)

\* Only mails that have arrived are unread, fetched or at hand, and the mail at
\* hand is not waiting in the batch as well.
PlaceInv ==
    /\ unread \subseteq Arrived
    /\ batch \subseteq Arrived
    /\ pc \in Stages => cur \in Arrived \ batch

\* The reason ReadIsJustified asks for.
Justified(m) ==
    \/ Rejected(content[m])
    \/ m \in Sent
    \/ \E n \in Sent : CheckKeys(content[m]) \cap MarkKeys(content[n]) # {}

\* The worker is about to mark a mail read only with a reason, and a key in
\* Redis is the key of a mail whose event reached the producer.
ReadInv ==
    /\ pc = "mark" => cur \in Sent
    /\ pc = "read" => Justified(cur)
    /\ \A k \in keys : \E n \in Sent : k \in MarkKeys(content[n])
    /\ ReadIsJustified

Events(m) == buffer[m] + topic[m]

\* The worker may still publish the mail, without a further fault.
Pending(m) ==
    \/ m \notin Arrived
    \/ m \in unread /\ ~(cur = m /\ pc \in {"mark", "read"})
    \/ m \in batch
    \/ cur = m /\ pc \in {"dedup", "files", "publish"}

\* A mail still to be published has an event for every fault at the most.
CountInv ==
    \A m \in Mails :
        /\ Events(m) <= 1 + faults
        /\ Pending(m) => Events(m) <= faults

\* The attachment is a file of the mail that was found clean, under its key, and
\* its object is what the event says.
Sound(m, a) ==
    /\ a.file \in DOMAIN content[m].files
    /\ content[m].files[a.file].kind = "clean"
    /\ a.key.prefix = Prefix[IdemKey(content[m])]
    /\ a.key.name = content[m].files[a.file].name
    /\ objects[a.key] = content[m].files[a.file].data \/ Shared(m, a)

\* The attachments e of a mail: those of its files before the n-th that are not
\* too large, none of which is infected.
Complete(m, e, n) ==
    \A i \in DOMAIN content[m].files : i < n =>
        \/ content[m].files[i].kind = "oversize"
        \/ \E a \in e : a.file = i

Unharmed(m) == \A i \in DOMAIN content[m].files : content[m].files[i].kind # "infected"

\* A mail comes to be published with all of its files done.
FilesInv ==
    /\ pc = "files" =>
          /\ Complete(cur, infos, idx)
          /\ \A a \in infos : Sound(cur, a)
    /\ pc = "publish" => Unharmed(cur)
    /\ \A m \in Sent \cup dlq : Unharmed(m)
    /\ \A m \in Mails : \A e \in events[m] :
          /\ Complete(m, e, Len(content[m].files) + 1)
          /\ \A a \in e : Sound(m, a)

IndInv == TypeOK /\ PlaceInv /\ ReadInv /\ CountInv /\ FilesInv

-----------------------------------------------------------------------------
(***************************************************************************)
(* Type correctness.                                                       *)
(***************************************************************************)

LEMMA ContentType ==
    ASSUME TypeOK, NEW m \in Mails PROVE content[m] \in MailRecords
BY ContentsAssumption DEF TypeOK

LEMMA PrimaryNameType ==
    ASSUME NEW c \in MailRecords PROVE PrimaryName(c) \in Names \cup {NoAttachment}
<1>1. c.files \in Seq(Files)
  BY DEF MailRecords
<1>2. ASSUME c.files # <<>> PROVE c.files[1] \in Files
  BY <1>1, <1>2
<1>3. ASSUME NEW f \in Files PROVE f.name \in Names
  BY DEF Files
<1> QED BY <1>2, <1>3 DEF PrimaryName

LEMMA MarkKeysType ==
    ASSUME NEW c \in MailRecords PROVE MarkKeys(c) \in SUBSET DedupKeys
<1>1. PrimaryName(c) \in Names \cup {NoAttachment}
  BY PrimaryNameType
<1>2. c.mid \in Headers /\ c.parent \in Headers
  BY DEF MailRecords
<1> QED BY <1>1, <1>2 DEF MarkKeys, IdemKey, DedupKeys

LEMMA ObjectKeyType ==
    ASSUME NEW c \in MailRecords, NEW f \in Files, TypeOK PROVE ObjectKey(c, f) \in ObjectKeys
<1>1. PrimaryName(c) \in Names \cup {NoAttachment}
  BY PrimaryNameType
<1>2. c.mid \in Headers /\ f.name \in Names /\ day \in 1 .. MaxDays
  BY DEF MailRecords, Files, TypeOK
<1>3. Prefix[IdemKey(c)] \in Prefixes
  BY <1>1, <1>2, PrefixAssumption DEF IdemKey
<1> QED BY <1>2, <1>3 DEF ObjectKey, ObjectKeys

LEMMA FaultType ==
    ASSUME faults \in 0 .. MaxFaults, Fault
    PROVE  faults' \in 0 .. MaxFaults /\ faults' = faults + 1
BY MailBoundsAssumption DEF Fault

\* The file at hand is a file of a mail.
LEMMA FileType ==
    ASSUME TypeOK, HasFile
    PROVE  /\ cur \in Mails /\ content[cur] \in MailRecords
           /\ Len(content[cur].files) \in Nat
           /\ DOMAIN content[cur].files = 1 .. Len(content[cur].files)
           /\ idx \in DOMAIN content[cur].files
           /\ File = content[cur].files[idx] /\ File \in Files
<1>1. cur \in Mails /\ idx \in Nat \ {0}
  BY DEF TypeOK, HasFile, Stages
<1>2. content[cur] \in MailRecords
  BY <1>1, ContentType
<1>3. content[cur].files \in Seq(Files)
  BY <1>2 DEF MailRecords
<1>4. idx \in 1 .. Len(content[cur].files)
  BY <1>1, <1>3 DEF HasFile
<1>5. content[cur].files[idx] \in Files
  BY <1>3, <1>4
<1> QED BY <1>1, <1>2, <1>3, <1>4, <1>5 DEF File

LEMMA InitTypeOK == Init => TypeOK
BY MailBoundsAssumption DEF Init, TypeOK, Stages

LEMMA NextTypeOK == TypeOK /\ [Next]_vars => TypeOK'
<1> SUFFICES ASSUME TypeOK, [Next]_vars PROVE TypeOK'
  OBVIOUS
<1> USE MailBoundsAssumption
<1>0. /\ faults \in 0 .. MaxFaults
      /\ pc \in Stages => cur \in Mails
      /\ cur \in Mails \cup {NoMail}
      /\ \A m \in Mails : content[m] \in MailRecords
  BY ContentType DEF TypeOK
<1>1. ASSUME NEW m \in Mails, Arrive(m) PROVE TypeOK'
  <2>1. arrived' \in Seq(Mails) /\ unread' \in SUBSET Mails
    BY <1>1, AppendProperties DEF TypeOK, Arrive
  <2> QED BY <1>1, <2>1 DEF TypeOK, Arrive, storeVars, kafkaVars, workVars
<1>2. ASSUME NEW m \in Mails, Reopen(m) PROVE TypeOK'
  BY <1>0, <1>2, FaultType DEF TypeOK, Reopen, storeVars, kafkaVars, workVars
<1>3. ASSUME NEW m \in Mails, Deliver(m) PROVE TypeOK'
  <2>1. buffer' \in [Mails -> Nat] /\ topic' \in [Mails -> Nat]
    BY <1>3 DEF TypeOK, Deliver
  <2> QED BY <1>3, <2>1 DEF TypeOK, Deliver, mailVars, storeVars, workVars
<1>4. ASSUME NEW m \in Mails, DeliveryFails(m) PROVE TypeOK'
  <2>1. buffer' \in [Mails -> Nat]
    BY <1>4 DEF TypeOK, DeliveryFails
  <2>2. faults' \in 0 .. MaxFaults
    BY <1>0, <1>4, FaultType DEF DeliveryFails
  <2> QED BY <1>4, <2>1, <2>2 DEF TypeOK, DeliveryFails, mailVars, storeVars, workVars
<1>5. ASSUME NEW k \in keys, Expire(k) PROVE TypeOK'
  BY <1>5 DEF TypeOK, Expire, mailVars, kafkaVars, workVars
<1>23. CASE Midnight
  <2>1. day' \in 1 .. MaxDays
    BY <1>23 DEF TypeOK, Midnight
  <2> QED BY <1>23, <2>1 DEF TypeOK, Midnight, storeVars, kafkaVars, workVars
<1>6. CASE Crash
  <2>1. faults' \in 0 .. MaxFaults
    BY <1>0, <1>6, FaultType DEF Crash
  <2> QED BY <1>6, <2>1 DEF TypeOK, Crash, mailVars, storeVars, Stages
<1>7. CASE Abort
  <2>1. faults' \in 0 .. MaxFaults
    BY <1>0, <1>7, FaultType DEF Abort
  <2> QED BY <1>7, <2>1 DEF TypeOK, Abort, Sleep, mailVars, storeVars, kafkaVars, Stages
<1>8. CASE Fetch
  BY <1>8 DEF TypeOK, Fetch, mailVars, storeVars, kafkaVars, Stages
<1>9. CASE EndBatch
  BY <1>9 DEF TypeOK, EndBatch, mailVars, storeVars, kafkaVars, Stages
<1>10. ASSUME NEW m \in Mails, Take(m) PROVE TypeOK'
  BY <1>10 DEF TypeOK, Take, mailVars, storeVars, kafkaVars, Stages
<1>11. CASE Dedup
  BY <1>11 DEF TypeOK, Dedup, Goto, mailVars, storeVars, kafkaVars, Stages
<1>12. CASE SkipFile
  BY <1>12 DEF TypeOK, SkipFile, NextFile, mailVars, storeVars, kafkaVars
<1>13. CASE RefuseCopy
  BY <1>13 DEF TypeOK, RefuseCopy, Return, Goto, mailVars, storeVars, kafkaVars, Stages
<1>14. CASE Quarantine
  <2>1. faults' \in 0 .. MaxFaults
    BY <1>0, <1>14, FaultType DEF Quarantine
  <2>2. quarantine' \in SUBSET Data
    BY <1>14, FileType DEF TypeOK, Quarantine, Files
  <2> QED BY <1>14, <2>1, <2>2
       DEF TypeOK, Quarantine, Return, Goto, mailVars, kafkaVars, Stages
<1>15. CASE Upload
  <2>1. ObjectKey(content[cur], File) \in ObjectKeys /\ File.data \in Data
    BY <1>15, FileType, ObjectKeyType DEF Upload, Files
  <2>2. objects' \in [ObjectKeys -> Data \cup {NoMail}]
    BY <1>15, <2>1 DEF TypeOK, Upload
  <2>3. infos' \in SUBSET Infos
    <3>1. [file |-> idx, key |-> ObjectKey(content[cur], File)] \in Infos
      BY <2>1 DEF TypeOK, Infos
    <3> QED BY <1>15, <3>1 DEF TypeOK, Upload
  <2> QED BY <1>15, <2>2, <2>3 DEF TypeOK, Upload, NextFile, mailVars, kafkaVars
<1>24. CASE FileRaises
  BY <1>24 DEF TypeOK, FileRaises, Sleep, mailVars, storeVars, kafkaVars, Stages
<1>16. CASE Build
  <2>1. events' \in [Mails -> SUBSET SUBSET Infos]
    BY <1>0, <1>16 DEF TypeOK, Build, Stages
  <2> QED BY <1>16, <2>1 DEF TypeOK, Build, Goto, mailVars, storeVars, Stages
<1>17. CASE Publish
  <2>1. buffer' \in [Mails -> Nat]
    BY <1>17 DEF TypeOK, Publish
  <2> QED BY <1>17, <2>1 DEF TypeOK, Publish, Goto, mailVars, storeVars, Stages
<1>18. CASE PublishRetry
  <2>1. faults' \in 0 .. MaxFaults
    BY <1>0, <1>18, FaultType DEF PublishRetry
  <2>2. attempt' \in 1 .. MaxAttempts
    BY <1>18 DEF TypeOK, PublishRetry
  <2> QED BY <1>18, <2>1, <2>2 DEF TypeOK, PublishRetry, mailVars, storeVars, kafkaVars
<1>19. CASE PublishGivesUp
  <2>1. faults' \in 0 .. MaxFaults
    BY <1>0, <1>19, FaultType DEF PublishGivesUp
  <2>2. dlq' \in SUBSET Mails
    BY <1>0, <1>19 DEF TypeOK, PublishGivesUp, Stages
  <2> QED BY <1>19, <2>1, <2>2
       DEF TypeOK, PublishGivesUp, Return, Goto, mailVars, storeVars, Stages
<1>20. CASE Mark
  <2>1. keys' \in SUBSET DedupKeys
    BY <1>0, <1>20, MarkKeysType DEF TypeOK, Mark, Stages
  <2> QED BY <1>20, <2>1 DEF TypeOK, Mark, Goto, mailVars, kafkaVars, Stages
<1>21. CASE Read
  <2>1. faults' \in 0 .. MaxFaults
    BY <1>0, <1>21, FaultType DEF Read
  <2>2. unread' \in SUBSET Mails
    BY <1>21 DEF TypeOK, Read
  <2> QED BY <1>21, <2>1, <2>2
       DEF TypeOK, Read, Return, Goto, storeVars, kafkaVars, Stages
<1>22. CASE UNCHANGED vars
  BY <1>22 DEF TypeOK, vars, mailVars, storeVars, kafkaVars, workVars
<1> QED BY <1>1, <1>2, <1>3, <1>4, <1>5, <1>6, <1>7, <1>8, <1>9, <1>10, <1>11, <1>12,
           <1>13, <1>14, <1>15, <1>16, <1>17, <1>18, <1>19, <1>20, <1>21, <1>22, <1>23,
           <1>24, Zenon
        DEF Next, Work

LEMMA ArrivedAppends ==
    ASSUME arrived \in Seq(Mails), NEW m \in Mails, arrived' = Append(arrived, m)
    PROVE  Arrived' = Arrived \cup {m}
<1>1. /\ Len(arrived) \in Nat /\ DOMAIN arrived = 1 .. Len(arrived)
      /\ DOMAIN arrived' = 1 .. Len(arrived) + 1
      /\ \A i \in 1 .. Len(arrived) : arrived'[i] = arrived[i]
      /\ arrived'[Len(arrived) + 1] = m
  BY AppendProperties
<1>2. \A i : i \in DOMAIN arrived' <=> i \in DOMAIN arrived \/ i = Len(arrived) + 1
  BY <1>1
<1> QED BY <1>1, <1>2 DEF Arrived

-----------------------------------------------------------------------------
(***************************************************************************)
(* What every step does to the mails' contents, events and arrivals.       *)
(***************************************************************************)

LEMMA ContentStays == [Next]_vars => content' = content
BY DEF Next, Work, vars, mailVars, storeVars, kafkaVars, workVars, Arrive, Reopen, Deliver,
       DeliveryFails, Expire, Midnight, Crash, Abort, Fetch, EndBatch, Take, Dedup, SkipFile,
       RefuseCopy, Quarantine, Upload, FileRaises, Build, Publish, PublishRetry, PublishGivesUp, Mark,
       Read

\* An event that reached the producer is in its buffer, on the topic, or lost.
LEMMA SentGrows == TypeOK /\ [Next]_vars => Sent \subseteq Sent'
<1> SUFFICES ASSUME TypeOK, [Next]_vars PROVE Sent \subseteq Sent'
  OBVIOUS
<1>1. /\ buffer \in [Mails -> Nat] /\ topic \in [Mails -> Nat]
      /\ pc \in Stages => cur \in Mails
  BY DEF TypeOK
<1>2. ASSUME NEW m \in Mails, Deliver(m) PROVE Sent \subseteq Sent'
  BY <1>1, <1>2 DEF Deliver, Sent
<1>3. ASSUME NEW m \in Mails, DeliveryFails(m) PROVE Sent \subseteq Sent'
  BY <1>1, <1>3 DEF DeliveryFails, Sent
<1>4. CASE Crash
  <2>1. /\ lost' = lost \cup {m \in Mails : buffer[m] > 0}
        /\ buffer' = [m \in Mails |-> 0] /\ topic' = topic
    BY <1>4 DEF Crash
  <2>2. ASSUME NEW m \in Mails, buffer[m] + topic[m] > 0, m \notin lost'
        PROVE  buffer'[m] + topic'[m] > 0
    BY <1>1, <2>1, <2>2
  <2> QED BY <2>1, <2>2 DEF Sent
<1>5. CASE Publish
  BY <1>1, <1>5 DEF Publish, Sent, Stages
<1>6. CASE UNCHANGED <<buffer, topic, lost>>
  BY <1>6 DEF Sent
<1> QED BY <1>2, <1>3, <1>4, <1>5, <1>6
     DEF Next, Work, vars, mailVars, storeVars, kafkaVars, workVars, Arrive, Reopen,
         Expire, Midnight, Abort, Fetch, EndBatch, Take, Dedup, SkipFile, RefuseCopy,
         Quarantine, Upload, FileRaises, Build, PublishRetry, PublishGivesUp, Mark, Read

LEMMA ArrivedStays == UNCHANGED arrived => Arrived' = Arrived
BY DEF Arrived

-----------------------------------------------------------------------------
(***************************************************************************)
(* The places of the mails.                                                *)
(***************************************************************************)

LEMMA NextPlaceInv == TypeOK /\ PlaceInv /\ [Next]_vars => PlaceInv'
<1> SUFFICES ASSUME TypeOK, PlaceInv, [Next]_vars PROVE PlaceInv'
  OBVIOUS
<1>1. ASSUME NEW m \in Mails, Arrive(m) PROVE PlaceInv'
  <2>1. Arrived' = Arrived \cup {m}
    BY <1>1, ArrivedAppends DEF TypeOK, Arrive
  <2> QED BY <1>1, <2>1 DEF PlaceInv, Arrive, workVars
<1>2. ASSUME NEW m \in Mails, Reopen(m) PROVE PlaceInv'
  BY <1>2, ArrivedStays DEF PlaceInv, Reopen, workVars
<1>3. ASSUME NEW m \in Mails, Take(m) PROVE PlaceInv'
  BY <1>3, ArrivedStays DEF PlaceInv, Take, mailVars
<1>4. CASE Fetch
  BY <1>4, ArrivedStays DEF PlaceInv, Fetch, mailVars, Stages
<1>5. CASE Crash \/ Abort \/ FileRaises
  BY <1>5, ArrivedStays DEF PlaceInv, Crash, Abort, FileRaises, Sleep, mailVars, Stages
<1>6. CASE Read
  BY <1>6, ArrivedStays DEF PlaceInv, Read, Return, Goto, Stages
<1>7. ASSUME UNCHANGED <<arrived, unread, batch, cur>>, pc' \in Stages => pc \in Stages
      PROVE  PlaceInv'
  BY <1>7, ArrivedStays DEF PlaceInv
<1>8. ASSUME NEW m \in Mails, Deliver(m) \/ DeliveryFails(m) PROVE PlaceInv'
  BY <1>7, <1>8 DEF Deliver, DeliveryFails, mailVars, workVars
<1>9. ASSUME NEW k \in keys, Expire(k) PROVE PlaceInv'
  BY <1>7, <1>9 DEF Expire, mailVars, workVars
<1>10. CASE UNCHANGED vars
  BY <1>7, <1>10 DEF vars, mailVars, workVars
<1>11. CASE EndBatch
  BY <1>11, ArrivedStays DEF PlaceInv, EndBatch, mailVars, Stages
<1>12. CASE Dedup \/ SkipFile \/ RefuseCopy \/ Quarantine \/ Upload \/ Build
  BY <1>7, <1>12
     DEF Dedup, SkipFile, RefuseCopy, Quarantine, Upload, Build, HasFile, NextFile, Return,
         Goto, mailVars, Stages
<1>13. CASE Publish \/ PublishRetry \/ PublishGivesUp \/ Mark
  BY <1>7, <1>13
     DEF Publish, PublishRetry, PublishGivesUp, Mark, Return, Goto, mailVars, Stages
<1>14. CASE Midnight
  BY <1>7, <1>14 DEF Midnight, workVars
<1> QED BY <1>1, <1>2, <1>3, <1>4, <1>5, <1>6, <1>8, <1>9, <1>10, <1>11, <1>12, <1>13,
           <1>14, Zenon DEF Next, Work

-----------------------------------------------------------------------------
(***************************************************************************)
(* Mails marked read.                                                      *)
(***************************************************************************)

LEMMA JustifiedStays ==
    ASSUME TypeOK, [Next]_vars, NEW m \in Mails, Justified(m) PROVE Justified(m)'
<1>1. content' = content /\ Sent \subseteq Sent'
  BY ContentStays, SentGrows
<1> QED BY <1>1 DEF Justified

LEMMA ReadKeeps ==
    ASSUME TypeOK, PlaceInv, PlaceInv', TypeOK', ReadInv, [Next]_vars,
           \A m \in Arrived' \ unread' : m \in Arrived \ unread \/ Justified(m),
           \A k \in keys' : k \in keys \/ \E n \in Sent : k \in MarkKeys(content[n]),
           pc' = "mark" => cur' \in Sent',
           \A m \in Mails :
              pc' = "read" /\ cur' = m => Justified(m) \/ Rejected(content[m])
    PROVE  ReadInv'
<1>1. content' = content /\ Sent \subseteq Sent'
  BY ContentStays, SentGrows
<1>2. \A m \in Arrived' : m \in Mails
  <2>1. arrived' \in Seq(Mails)
    BY DEF TypeOK
  <2> QED BY <2>1 DEF Arrived
<1>3. ReadIsJustified'
  <2>1. \A m \in Arrived \ unread : Justified(m)
    BY DEF ReadInv, ReadIsJustified, Justified
  <2>2. \A m \in Arrived' \ unread' : Justified(m)'
    BY <1>2, <2>1, JustifiedStays
  <2> QED BY <2>2 DEF ReadIsJustified, Justified
<1>4. \A k \in keys' : \E n \in Sent' : k \in MarkKeys(content'[n])
  BY <1>1 DEF ReadInv
<1>5. pc' = "read" => Justified(cur)'
  <2> SUFFICES ASSUME pc' = "read" PROVE Justified(cur)'
    OBVIOUS
  <2>1. PICK m \in Mails : m = cur'
    BY DEF TypeOK, Stages
  <2>2. Justified(m) => Justified(m)'
    BY JustifiedStays
  <2>3. Rejected(content[m]) => Justified(m)'
    BY <1>1 DEF Justified, Rejected, ValidDomain
  <2>4. Justified(m)'
    BY <2>1, <2>2, <2>3
  <2> QED BY <2>1, <2>4 DEF Justified
<1> QED BY <1>3, <1>4, <1>5 DEF ReadInv, MarkKeys, IdemKey, PrimaryName

LEMMA NextReadInv ==
    TypeOK /\ TypeOK' /\ PlaceInv /\ PlaceInv' /\ ReadInv /\ [Next]_vars => ReadInv'
<1> SUFFICES ASSUME TypeOK, TypeOK', PlaceInv, PlaceInv', ReadInv, [Next]_vars
             PROVE  ReadInv'
  OBVIOUS
<1>0. /\ pc \in Stages => cur \in Mails
      /\ pc = "mark" => cur \in Sent
      /\ pc = "read" => Justified(cur)
      /\ Sent \subseteq Sent'
      /\ buffer \in [Mails -> Nat] /\ topic \in [Mails -> Nat]
  BY SentGrows DEF TypeOK, ReadInv
<1>1. ASSUME NEW m \in Mails, Arrive(m) PROVE ReadInv'
  <2>1. Arrived' = Arrived \cup {m}
    BY <1>1, ArrivedAppends DEF TypeOK, Arrive
  <2> QED BY <1>0, <1>1, <2>1, ReadKeeps DEF Arrive, storeVars, workVars, Stages
<1>2. ASSUME NEW m \in Mails, Reopen(m) PROVE ReadInv'
  BY <1>0, <1>2, ArrivedStays, ReadKeeps DEF Reopen, storeVars, workVars, Stages
<1>3. ASSUME NEW m \in Mails, Deliver(m) \/ DeliveryFails(m) PROVE ReadInv'
  BY <1>0, <1>3, ArrivedStays, ReadKeeps
     DEF Deliver, DeliveryFails, mailVars, storeVars, workVars, Stages
<1>4. ASSUME NEW k \in keys, Expire(k) PROVE ReadInv'
  BY <1>0, <1>4, ArrivedStays, ReadKeeps DEF Expire, mailVars, workVars, Stages
<1>5. CASE Crash \/ Abort \/ FileRaises \/ Fetch \/ EndBatch
  BY <1>0, <1>5, ArrivedStays, ReadKeeps
     DEF Crash, Abort, FileRaises, Sleep, Fetch, EndBatch, mailVars, storeVars, Stages
<1>14. CASE Midnight
  BY <1>0, <1>14, ArrivedStays, ReadKeeps DEF Midnight, storeVars, workVars, Stages
<1>6. ASSUME NEW m \in Mails, Take(m) PROVE ReadInv'
  <2>1. pc' = "read" => Rejected(content[m])
    BY <1>6 DEF Take, Rejected
  <2> QED BY <1>0, <1>6, <2>1, ArrivedStays, ReadKeeps DEF Take, mailVars, storeVars
<1>7. CASE Dedup
  <2>1. cur \in Mails /\ cur' = cur /\ pc' # "mark"
    BY <1>0, <1>7 DEF Dedup, Goto, Stages
  <2>2. ASSUME pc' = "read" PROVE Justified(cur) \/ Rejected(content[cur])
    <3>1. CASE content[cur].flaw = "short"
      BY <3>1 DEF Rejected
    <3>2. CASE CheckKeys(content[cur]) \cap keys # {}
      <4>1. PICK k \in keys : k \in CheckKeys(content[cur])
        BY <3>2
      <4>2. PICK n \in Sent : k \in MarkKeys(content[n])
        BY DEF ReadInv
      <4> QED BY <4>1, <4>2 DEF Justified
    <3> QED BY <1>7, <2>2, <3>1, <3>2 DEF Dedup
  <2> QED BY <1>7, <2>1, <2>2, ArrivedStays, ReadKeeps DEF Dedup, mailVars, storeVars
<1>8. CASE SkipFile \/ RefuseCopy \/ Quarantine \/ Upload \/ Build
  BY <1>0, <1>8, ArrivedStays, ReadKeeps
     DEF SkipFile, RefuseCopy, Quarantine, Upload, Build, HasFile, NextFile, Return, Goto,
         mailVars, storeVars, Stages
<1>9. CASE Publish
  <2>1. cur \in Sent'
    BY <1>0, <1>9 DEF Publish, Sent, Stages
  <2> QED BY <1>0, <1>9, <2>1, ArrivedStays, ReadKeeps DEF Publish, Goto, mailVars, storeVars
<1>10. CASE PublishRetry \/ PublishGivesUp
  BY <1>0, <1>10, ArrivedStays, ReadKeeps
     DEF PublishRetry, PublishGivesUp, Return, Goto, mailVars, storeVars
<1>11. CASE Mark
  <2>1. cur \in Mails /\ cur \in Sent
    BY <1>0, <1>11 DEF Mark, Stages
  <2>2. Justified(cur)
    BY <2>1 DEF Justified
  <2> QED BY <1>11, <2>1, <2>2, ArrivedStays, ReadKeeps DEF Mark, Goto, mailVars
<1>12. CASE Read
  BY <1>0, <1>12, ArrivedStays, ReadKeeps DEF Read, Return, Goto, storeVars, Stages
<1>13. CASE UNCHANGED vars
  BY <1>0, <1>13, ArrivedStays, ReadKeeps DEF vars, mailVars, storeVars, workVars, Stages
<1> QED BY <1>1, <1>2, <1>3, <1>4, <1>5, <1>6, <1>7, <1>8, <1>9, <1>10, <1>11, <1>12,
           <1>13, <1>14, Zenon DEF Next, Work

-----------------------------------------------------------------------------
(***************************************************************************)
(* Duplicates.                                                             *)
(***************************************************************************)

\* A step keeps the bound when every mail's events stay, and it is not pending
\* anew, or a fault pays for it, or it has just been published.
LEMMA CountKeeps ==
    ASSUME TypeOK, TypeOK', CountInv,
           \A m \in Mails :
              \/ /\ Events(m)' <= Events(m)
                 /\ faults' >= faults
                 /\ Pending(m)' => Pending(m)
              \/ Events(m)' <= Events(m) /\ faults' = faults + 1
              \/ /\ Events(m)' = Events(m) + 1
                 /\ faults' = faults
                 /\ Pending(m) /\ ~Pending(m)'
    PROVE  CountInv'
<1> SUFFICES ASSUME NEW m \in Mails
             PROVE  Events(m)' <= 1 + faults' /\ (Pending(m)' => Events(m)' <= faults')
  BY DEF CountInv
<1>1. Events(m) \in Nat /\ Events(m)' \in Nat /\ faults \in Nat /\ faults' \in Nat
  <2>1. buffer[m] \in Nat /\ topic[m] \in Nat /\ faults \in Nat
    BY MailBoundsAssumption DEF TypeOK
  <2>2. buffer'[m] \in Nat /\ topic'[m] \in Nat /\ faults' \in Nat
    BY MailBoundsAssumption DEF TypeOK
  <2> QED BY <2>1, <2>2 DEF Events
<1>2. Events(m) <= 1 + faults /\ (Pending(m) => Events(m) <= faults)
  BY DEF CountInv
<1>3. PICK e \in Nat, e2 \in Nat, f \in Nat, f2 \in Nat :
         e = Events(m) /\ e2 = Events(m)' /\ f = faults /\ f2 = faults'
  BY <1>1
<1>4. /\ e <= 1 + f /\ (Pending(m) => e <= f)
      /\ \/ e2 <= e /\ f2 >= f /\ (Pending(m)' => Pending(m))
         \/ e2 <= e /\ f2 = f + 1
         \/ e2 = e + 1 /\ f2 = f /\ Pending(m) /\ ~Pending(m)'
  BY <1>2, <1>3
<1>5. CASE e2 <= e /\ f2 >= f /\ (Pending(m)' => Pending(m))
  <2>1. e2 <= 1 + f2
    BY <1>4, <1>5
  <2>2. Pending(m)' => e2 <= f2
    BY <1>4, <1>5
  <2> QED BY <1>3, <2>1, <2>2
<1>6. CASE e2 <= e /\ f2 = f + 1
  <2>1. e2 <= f2
    BY <1>4, <1>6
  <2>2. e2 <= 1 + f2
    BY <2>1
  <2> QED BY <1>3, <2>1, <2>2
<1>7. CASE e2 = e + 1 /\ f2 = f /\ Pending(m) /\ ~Pending(m)'
  <2>1. e2 <= 1 + f2
    BY <1>4, <1>7
  <2> QED BY <1>3, <1>7, <2>1
<1> QED BY <1>4, <1>5, <1>6, <1>7

LEMMA NextCountInv ==
    TypeOK /\ TypeOK' /\ PlaceInv /\ PlaceInv' /\ CountInv /\ [Next]_vars => CountInv'
<1> SUFFICES ASSUME TypeOK, TypeOK', PlaceInv, PlaceInv', CountInv, [Next]_vars
             PROVE  CountInv'
  OBVIOUS
<1>0. /\ pc \in Stages => cur \in Arrived \ batch
      /\ unread \subseteq Arrived /\ batch \subseteq Arrived
      /\ buffer \in [Mails -> Nat] /\ topic \in [Mails -> Nat]
      /\ faults \in Nat
      /\ pc \in Stages => cur \in Mails
  BY SMTT(30), MailBoundsAssumption DEF TypeOK, PlaceInv
<1>1. ASSUME NEW m \in Mails, Arrive(m) PROVE CountInv'
  <2>1. Arrived' = Arrived \cup {m}
    BY <1>1, ArrivedAppends DEF TypeOK, Arrive
  <2>2. \A m2 \in Mails : Pending(m2)' => Pending(m2)
    BY <1>1, <2>1 DEF Arrive, Pending, workVars
  <2>3. \A m2 \in Mails : Events(m2)' = Events(m2)
    BY <1>1 DEF Arrive, Events, kafkaVars
  <2>4. faults' = faults
    BY <1>1 DEF Arrive
  <2>5. \A m2 \in Mails : Events(m2) \in Nat
    BY <1>0 DEF Events
  <2> QED BY <1>0, <2>2, <2>3, <2>4, <2>5, CountKeeps
<1>2. ASSUME faults' = faults + 1, UNCHANGED <<buffer, topic>> PROVE CountInv'
  <2>1. \A m \in Mails : Events(m)' = Events(m) /\ Events(m) \in Nat
    BY <1>0, <1>2 DEF Events
  <2> QED BY <1>2, <2>1, CountKeeps
<1>3. ASSUME UNCHANGED <<buffer, topic, faults, arrived>>,
             \A m \in Mails : Pending(m)' => Pending(m)
      PROVE  CountInv'
  <2>1. \A m \in Mails : Events(m)' = Events(m) /\ Events(m) \in Nat
    BY <1>0, <1>3 DEF Events
  <2> QED BY <1>0, <1>3, <2>1, CountKeeps
<1>4. ASSUME NEW m \in Mails, Reopen(m) PROVE CountInv'
  BY <1>2, <1>4, FaultType DEF TypeOK, Reopen, kafkaVars
<1>5. ASSUME NEW m \in Mails, Deliver(m) PROVE CountInv'
  <2>1. \A m2 \in Mails : Events(m2)' = Events(m2) /\ Events(m2) \in Nat
    BY <1>0, <1>5 DEF Deliver, Events
  <2>2. \A m2 \in Mails : Pending(m2)' => Pending(m2)
    BY <1>5, ArrivedStays DEF Deliver, Pending, mailVars, workVars
  <2>3. faults' = faults
    BY <1>5 DEF Deliver
  <2> QED BY <1>0, <2>1, <2>2, <2>3, CountKeeps
<1>6. ASSUME NEW m \in Mails, DeliveryFails(m) PROVE CountInv'
  <2>1. \A m2 \in Mails : Events(m2)' <= Events(m2)
    BY <1>0, <1>6 DEF DeliveryFails, Events
  <2>2. faults' = faults + 1
    BY <1>6, FaultType DEF TypeOK, DeliveryFails
  <2> QED BY <2>1, <2>2, CountKeeps
<1>7. CASE Crash
  <2>1. \A m2 \in Mails : Events(m2)' <= Events(m2)
    BY <1>0, <1>7 DEF Crash, Events
  <2>2. faults' = faults + 1
    BY <1>7, FaultType DEF TypeOK, Crash
  <2> QED BY <2>1, <2>2, CountKeeps
<1>8. ASSUME NEW k \in keys, Expire(k) PROVE CountInv'
  BY <1>3, <1>8, ArrivedStays DEF Expire, Pending, mailVars, kafkaVars, workVars
<1>9. CASE Abort
  BY <1>2, <1>9, FaultType DEF TypeOK, Abort, kafkaVars
<1>10. CASE Fetch
  <2>1. \A m \in Mails : Pending(m)' => Pending(m)
    BY <1>10, ArrivedStays DEF Fetch, Pending, mailVars
  <2> QED BY <1>3, <1>10, <2>1 DEF Fetch, mailVars, kafkaVars
<1>11. CASE EndBatch
  <2>1. \A m \in Mails : Pending(m)' => Pending(m)
    BY <1>11, ArrivedStays DEF EndBatch, Pending, mailVars
  <2> QED BY <1>3, <1>11, <2>1 DEF EndBatch, mailVars, kafkaVars
<1>12. ASSUME NEW m \in Mails, Take(m) PROVE CountInv'
  <2>1. \A m2 \in Mails : Pending(m2)' => Pending(m2)
    BY <1>12, ArrivedStays DEF Take, Pending, mailVars
  <2> QED BY <1>3, <1>12, <2>1 DEF Take, mailVars, kafkaVars
<1>13. ASSUME UNCHANGED <<mailVars, buffer, topic, batch, cur, faults>>,
              pc \in {"dedup", "files", "publish"}
       PROVE  CountInv'
  <2>1. \A m \in Mails : Pending(m)' => Pending(m)
    BY <1>13, ArrivedStays DEF Pending, mailVars
  <2> QED BY <1>3, <1>13, <2>1 DEF mailVars
<1>14. CASE Dedup
  BY <1>13, <1>14 DEF Dedup, Goto, mailVars, kafkaVars
<1>23. CASE Midnight
  BY <1>3, <1>23, ArrivedStays DEF Midnight, Pending, kafkaVars, workVars
<1>24. CASE FileRaises
  <2>1. \A m \in Mails : Pending(m)' => Pending(m)
    BY <1>24, ArrivedStays DEF FileRaises, HasFile, Sleep, Pending, mailVars
  <2> QED BY <1>3, <1>24, <2>1 DEF FileRaises, mailVars, kafkaVars
<1>15. CASE SkipFile \/ RefuseCopy \/ Upload \/ Build
  BY <1>13, <1>15
     DEF SkipFile, RefuseCopy, Upload, Build, HasFile, NextFile, Return, Goto, mailVars,
         kafkaVars
<1>16. CASE Quarantine
  BY <1>2, <1>13, <1>16, FaultType
     DEF TypeOK, Quarantine, HasFile, Return, Goto, mailVars, kafkaVars
<1>17. CASE PublishRetry
  BY <1>2, <1>13, <1>17, FaultType DEF TypeOK, PublishRetry, mailVars, kafkaVars
<1>18. CASE PublishGivesUp
  BY <1>2, <1>13, <1>18, FaultType DEF TypeOK, PublishGivesUp, Return, Goto, mailVars
<1>19. CASE Publish
  <2>1. /\ pc = "publish" /\ cur \in Arrived \ batch /\ cur \in Mails
        /\ buffer' = [buffer EXCEPT ![cur] = @ + 1]
        /\ pc' = "mark"
        /\ UNCHANGED <<arrived, unread, topic, batch, cur, faults>>
    BY <1>0, <1>19 DEF Publish, Goto, Stages, mailVars
  <2>2. Arrived' = Arrived
    BY <2>1, ArrivedStays
  <2>3. \A m \in Mails \ {cur} : Events(m)' = Events(m) /\ Events(m) \in Nat
    BY <1>0, <2>1 DEF Events
  <2>4. Events(cur)' = Events(cur) + 1
    BY <1>0, <2>1 DEF Events
  <2>5. Pending(cur) /\ ~Pending(cur)'
    BY <2>1, <2>2 DEF Pending
  <2>6. \A m \in Mails \ {cur} : Pending(m)' => Pending(m)
    BY <2>1, <2>2 DEF Pending
  <2>7. PICK c \in Mails : c = cur
    BY <2>1
  <2>8. /\ Events(c)' = Events(c) + 1 /\ Pending(c) /\ ~Pending(c)'
    BY <2>1, <2>4, <2>5, <2>7 DEF Events, Pending
  <2>9. ASSUME NEW m \in Mails
        PROVE \/ /\ Events(m)' <= Events(m)
                 /\ faults' >= faults
                 /\ Pending(m)' => Pending(m)
              \/ /\ Events(m)' = Events(m) + 1
                 /\ faults' = faults
                 /\ Pending(m) /\ ~Pending(m)'
    <3>1. CASE m = c
      BY <2>1, <2>8, <3>1
    <3>2. CASE m # c
      BY <1>0, <2>1, <2>3, <2>6, <2>7, <3>2
    <3> QED BY <3>1, <3>2
  <2> QED BY <2>9, CountKeeps
<1>20. CASE Mark
  <2>1. \A m \in Mails : Pending(m)' => Pending(m)
    BY <1>20, ArrivedStays DEF Mark, Goto, Pending, mailVars
  <2> QED BY <1>3, <1>20, <2>1 DEF Mark, mailVars, kafkaVars
<1>21. CASE Read
  <2>1. CASE unread' = unread \ {cur} /\ UNCHANGED faults
    <3>1. \A m \in Mails : Pending(m)' => Pending(m)
      BY <1>0, <1>21, <2>1, ArrivedStays DEF Read, Return, Goto, Pending
    <3> QED BY <1>3, <1>21, <2>1, <3>1 DEF Read, kafkaVars
  <2>2. CASE UNCHANGED unread /\ Fault
    BY <1>2, <1>21, <2>2, FaultType DEF TypeOK, Read, kafkaVars
  <2> QED BY <1>21, <2>1, <2>2 DEF Read
<1>22. CASE UNCHANGED vars
  BY <1>3, <1>22, ArrivedStays DEF vars, mailVars, kafkaVars, workVars, Pending
<1> QED BY <1>1, <1>4, <1>5, <1>6, <1>7, <1>8, <1>9, <1>10, <1>11, <1>12, <1>14, <1>15,
           <1>16, <1>17, <1>18, <1>19, <1>20, <1>21, <1>22, <1>23, <1>24, Zenon
        DEF Next, Work

-----------------------------------------------------------------------------
(***************************************************************************)
(* The files of an event.                                                  *)
(***************************************************************************)

\* An object is only overwritten by another file of the same key, or by the
\* same bytes.
LEMMA SoundStays ==
    ASSUME TypeOK, [Next]_vars, NEW m \in Mails, NEW a \in Infos, Sound(m, a)
    PROVE  Sound(m, a)'
<1>1. content' = content
  BY ContentStays
<1> DEFINE f == content[m].files[a.file]
<1>2. Shared(m, a)' = Shared(m, a) /\ IdemKey(content[m])' = IdemKey(content[m])
  BY <1>1 DEF Shared, IdemKey, PrimaryName
<1>3. CASE Upload
  <2>1. /\ cur \in Mails /\ idx \in DOMAIN content[cur].files
        /\ File = content[cur].files[idx] /\ File.kind = "clean"
        /\ ObjectKey(content[cur], File) \in ObjectKeys
    BY <1>3, FileType, ObjectKeyType DEF Upload
  <2>2. /\ objects \in [ObjectKeys -> Data \cup {NoMail}]
        /\ objects' = [objects EXCEPT ![ObjectKey(content[cur], File)] = File.data]
        /\ a.key \in ObjectKeys
    BY <1>3 DEF TypeOK, Upload, Infos
  <2>3. CASE ObjectKey(content[cur], File) # a.key
    <3>1. objects'[a.key] = objects[a.key]
      BY <2>2, <2>3
    <3> QED BY <1>1, <1>2, <3>1 DEF Sound
  <2>4. CASE ObjectKey(content[cur], File) = a.key
    <3>1. Prefix[IdemKey(content[cur])] = a.key.prefix /\ File.name = a.key.name
      BY <2>4 DEF ObjectKey
    <3>2. CASE cur = m /\ idx = a.file
      <4>1. objects'[a.key] = f.data
        BY <2>1, <2>2, <2>4, <3>2
      <4> QED BY <1>1, <1>2, <4>1 DEF Sound
    <3>3. CASE ~(cur = m /\ idx = a.file)
      <4>1. Shared(m, a)
        BY <2>1, <3>1, <3>3 DEF Shared
      <4> QED BY <1>1, <1>2, <4>1 DEF Sound
    <3> QED BY <3>2, <3>3
  <2> QED BY <2>3, <2>4
<1>4. CASE UNCHANGED objects
  BY <1>1, <1>2, <1>4 DEF Sound
<1> QED BY <1>3, <1>4
     DEF Next, Work, vars, mailVars, storeVars, kafkaVars, workVars, Arrive, Reopen,
         Deliver, DeliveryFails, Expire, Midnight, Crash, Abort, Fetch, EndBatch, Take,
         Dedup, SkipFile, RefuseCopy, Quarantine, FileRaises, Build, Publish, PublishRetry,
         PublishGivesUp, Mark, Read

\* A step keeps FilesInv when it sends only the mail at the stage publish, and
\* builds only an event with all files of the mail.
LEMMA FilesKeep ==
    ASSUME TypeOK, TypeOK', FilesInv, [Next]_vars,
           \A m \in Sent' \cup dlq' : m \in Sent \cup dlq \/ Unharmed(m),
           \A m \in Mails : \A e \in events'[m] :
              \/ e \in events[m]
              \/ /\ Complete(m, e, Len(content[m].files) + 1)
                 /\ \A a \in e : Sound(m, a),
           \A m \in Mails : pc' = "files" /\ cur' = m =>
              /\ Complete(m, infos', idx')
              /\ \A a \in infos' : Sound(m, a) \/ Sound(m, a)',
           \A m \in Mails : pc' = "publish" /\ cur' = m => Unharmed(m)
    PROVE  FilesInv'
<1>1. content' = content
  BY ContentStays
<1>2. \A m \in Mails : Unharmed(m) <=> Unharmed(m)'
  BY <1>1 DEF Unharmed
<1>3. \A m \in Sent' \cup dlq' : m \in Mails
  BY DEF TypeOK, Sent
<1>4. \A m \in Sent' \cup dlq' : Unharmed(m)'
  BY <1>2, <1>3 DEF FilesInv
<1>5. pc' = "publish" => Unharmed(cur)'
  <2> SUFFICES ASSUME pc' = "publish" PROVE Unharmed(cur)'
    OBVIOUS
  <2>1. PICK m \in Mails : m = cur'
    BY DEF TypeOK, Stages
  <2>2. Unharmed(m)'
    BY <1>2, <2>1
  <2> QED BY <2>1, <2>2 DEF Unharmed
<1>6. ASSUME NEW m \in Mails, NEW a \in Infos, Sound(m, a) PROVE Sound(m, a)'
  BY <1>6, SoundStays
<1>7. /\ events' \in [Mails -> SUBSET SUBSET Infos]
      /\ infos' \in SUBSET Infos
  BY DEF TypeOK
<1>8. ASSUME NEW m \in Mails, NEW e \in events'[m]
      PROVE  /\ Complete(m, e, Len(content[m].files) + 1)'
             /\ \A a \in e : Sound(m, a)'
  <2>1. /\ Complete(m, e, Len(content[m].files) + 1)
        /\ \A a \in e : Sound(m, a)
    BY <1>8 DEF FilesInv
  <2>2. e \subseteq Infos
    BY <1>7, <1>8
  <2> QED BY <1>1, <1>6, <2>1, <2>2 DEF Complete
<1>9. pc' = "files" => /\ Complete(cur, infos, idx)'
                       /\ \A a \in infos' : Sound(cur, a)'
  <2> SUFFICES ASSUME pc' = "files"
               PROVE  /\ Complete(cur, infos, idx)'
                      /\ \A a \in infos' : Sound(cur, a)'
    OBVIOUS
  <2>1. PICK m \in Mails : m = cur'
    BY DEF TypeOK, Stages
  <2>2. Complete(m, infos', idx') /\ \A a \in infos' : Sound(m, a) \/ Sound(m, a)'
    BY <2>1
  <2>3. \A a \in infos' : Sound(m, a)'
    BY <1>6, <1>7, <2>2
  <2> QED BY <1>1, <2>1, <2>2, <2>3 DEF Complete, Sound, Shared
<1> QED BY <1>4, <1>5, <1>8, <1>9 DEF FilesInv

LEMMA NextFilesInv ==
    TypeOK /\ TypeOK' /\ ReadInv /\ FilesInv /\ [Next]_vars => FilesInv'
<1> SUFFICES ASSUME TypeOK, TypeOK', ReadInv, FilesInv, [Next]_vars PROVE FilesInv'
  OBVIOUS
<1>0. /\ pc \in Stages => cur \in Mails
      /\ buffer \in [Mails -> Nat] /\ topic \in [Mails -> Nat]
      /\ pc = "publish" => Unharmed(cur)
      /\ pc = "files" => Complete(cur, infos, idx) /\ \A a \in infos : Sound(cur, a)
      /\ \A m \in Sent \cup dlq : Unharmed(m)
  BY DEF TypeOK, FilesInv
<1>1. ASSUME Sent' \subseteq Sent, dlq' = dlq, events' = events,
             UNCHANGED <<pc, cur, idx, infos>>
      PROVE  FilesInv'
  BY <1>0, <1>1, FilesKeep
<1>2. ASSUME Sent' \subseteq Sent, dlq' = dlq, events' = events,
             pc' \notin {"files", "publish"}
      PROVE  FilesInv'
  BY <1>0, <1>2, FilesKeep
<1>3. UNCHANGED <<buffer, topic, lost>> => Sent' = Sent
  BY DEF Sent
<1>4. CASE Midnight \/ \E m \in Mails : Arrive(m) \/ Reopen(m)
  BY <1>1, <1>3, <1>4 DEF Midnight, Arrive, Reopen, kafkaVars, workVars
<1>5. ASSUME NEW m \in Mails, Deliver(m) PROVE FilesInv'
  <2>1. Sent' \subseteq Sent
    BY <1>0, <1>5 DEF Deliver, Sent
  <2> QED BY <1>1, <1>5, <2>1 DEF Deliver, workVars
<1>6. ASSUME NEW m \in Mails, DeliveryFails(m) PROVE FilesInv'
  <2>1. Sent' \subseteq Sent
    BY <1>0, <1>6 DEF DeliveryFails, Sent
  <2> QED BY <1>1, <1>6, <2>1 DEF DeliveryFails, workVars
<1>7. ASSUME NEW k \in keys, Expire(k) PROVE FilesInv'
  BY <1>1, <1>3, <1>7 DEF Expire, kafkaVars, workVars
<1>8. CASE Crash
  <2>1. /\ lost' = lost \cup {m \in Mails : buffer[m] > 0}
        /\ buffer' = [m \in Mails |-> 0] /\ topic' = topic
    BY <1>8 DEF Crash
  <2>2. \A m \in Mails : buffer[m] > 0 => buffer[m] + topic[m] > 0
    BY <1>0
  <2>3. \A m \in Mails : buffer'[m] + topic'[m] > 0 => buffer[m] + topic[m] > 0
    BY <1>0, <2>1
  <2>4. Sent' \subseteq Sent
    BY <2>1, <2>2, <2>3 DEF Sent
  <2> QED BY <1>2, <1>8, <2>4 DEF Crash
<1>9. CASE Abort \/ FileRaises \/ Fetch \/ EndBatch
  BY <1>2, <1>3, <1>9 DEF Abort, FileRaises, Sleep, Fetch, EndBatch, kafkaVars
<1>10. ASSUME NEW m \in Mails, Take(m) PROVE FilesInv'
  BY <1>2, <1>3, <1>10 DEF Take, kafkaVars
<1>11. CASE Dedup
  <2>1. CASE pc' = "read"
    BY <1>2, <1>3, <1>11, <2>1 DEF Dedup, Goto, kafkaVars
  <2>2. CASE pc' # "read"
    <3>1. pc' = "files" /\ idx' = 1 /\ infos' = {} /\ UNCHANGED <<kafkaVars, cur>>
      BY <1>11, <2>2 DEF Dedup, Goto
    <3>2. \A m \in Mails : Complete(m, infos', idx')
      <4>1. \A m \in Mails : \A i \in DOMAIN content[m].files : ~(i < 1)
        <5>1. \A m \in Mails : content[m].files \in Seq(Files)
          BY ContentType DEF MailRecords
        <5> QED BY <5>1
      <4> QED BY <3>1, <4>1 DEF Complete
    <3> QED BY <1>0, <1>3, <3>1, <3>2, FilesKeep DEF kafkaVars
  <2> QED BY <2>1, <2>2
<1>12. CASE SkipFile
  <2>1. /\ cur \in Mails /\ idx \in Nat /\ idx \in DOMAIN content[cur].files
        /\ content[cur].files[idx].kind = "oversize"
        /\ content[cur].files \in Seq(Files)
    BY <1>12, FileType DEF SkipFile, TypeOK, MailRecords
  <2>2. /\ pc = "files" /\ pc' = "files" /\ cur' = cur /\ idx' = idx + 1 /\ infos' = infos
        /\ UNCHANGED kafkaVars
    BY <1>12 DEF SkipFile, HasFile, NextFile
  <2>3. Complete(cur, infos, idx + 1)
    <3>1. \A i \in DOMAIN content[cur].files : i < idx + 1 => i < idx \/ i = idx
      BY <2>1
    <3> QED BY <1>0, <2>1, <2>2, <3>1 DEF Complete
  <2> QED BY <1>0, <1>3, <2>2, <2>3, FilesKeep DEF kafkaVars
<1>13. CASE Upload
  <2>1. /\ cur \in Mails /\ idx \in Nat \ {0} /\ idx \in DOMAIN content[cur].files
        /\ File = content[cur].files[idx] /\ File.kind = "clean"
        /\ content[cur].files \in Seq(Files)
        /\ ObjectKey(content[cur], File) \in ObjectKeys
    BY <1>13, FileType, ObjectKeyType DEF Upload, TypeOK, MailRecords
  <2>2. PICK m \in Mails, i \in Nat \ {0}, k \in ObjectKeys :
            m = cur /\ i = idx /\ k = ObjectKey(content[cur], File)
    BY <2>1
  <2> DEFINE f == content[m].files[i]
             b == [file |-> i, key |-> k]
  <2>3. /\ content' = content /\ cur' = m /\ pc = "files" /\ pc' = "files"
        /\ idx' = i + 1 /\ infos' = infos \cup {b}
        /\ objects' = [objects EXCEPT ![k] = f.data]
        /\ objects \in [ObjectKeys -> Data \cup {NoMail}]
        /\ UNCHANGED kafkaVars
    BY <1>13, <2>1, <2>2, ContentStays DEF Upload, HasFile, NextFile, TypeOK
  <2>4. objects'[k] = f.data
    BY <2>2, <2>3
  <2>5. k.prefix = Prefix[IdemKey(content[m])] /\ k.name = f.name
    BY <2>1, <2>2 DEF ObjectKey
  <2>6. ASSUME NEW a, a = b PROVE Sound(m, a)'
    <3>1. /\ a.file = i /\ a.key = k
          /\ i \in DOMAIN content[m].files /\ f.kind = "clean"
      BY <2>1, <2>2, <2>6
    <3> QED BY <2>3, <2>4, <2>5, <3>1 DEF Sound, IdemKey, PrimaryName
  <2>7. Complete(m, infos', i + 1)
    <3>1. \A j \in DOMAIN content[m].files : j < i + 1 => j < i \/ j = i
      BY <2>1, <2>2
    <3>2. b \in infos' /\ b.file = i /\ infos \subseteq infos'
      BY <2>3
    <3> HIDE DEF b
    <3> QED BY <1>0, <2>2, <2>3, <3>1, <3>2 DEF Complete
  <2>8. \A a \in infos : Sound(m, a)
    BY <1>0, <2>2, <2>3
  <2>9. \A a \in infos' : Sound(m, a) \/ Sound(m, a)'
    BY <2>3, <2>6, <2>8
  <2> QED BY <1>0, <1>3, <2>3, <2>7, <2>9, FilesKeep DEF kafkaVars
<1>14. CASE RefuseCopy \/ Quarantine
  BY <1>2, <1>3, <1>14 DEF RefuseCopy, Quarantine, Return, Goto, kafkaVars
<1>15. CASE Build
  <2>1. cur \in Mails /\ pc = "files" /\ idx > Len(content[cur].files) /\ idx \in Nat
    BY <1>0, <1>15 DEF Build, Stages, TypeOK
  <2>2. /\ DOMAIN content[cur].files = 1 .. Len(content[cur].files)
        /\ Len(content[cur].files) \in Nat
    <3>1. content[cur].files \in Seq(Files)
      BY <2>1, ContentType DEF MailRecords
    <3> QED BY <3>1
  <2>3. PICK m \in Mails : m = cur
    BY <2>1
  <2>4. /\ Complete(m, infos, Len(content[m].files) + 1)
        /\ \A a \in infos : Sound(m, a)
    <3>1. Complete(m, infos, idx) /\ \A a \in infos : Sound(m, a)
      BY <1>0, <2>1, <2>3
    <3>2. \A i \in DOMAIN content[m].files : i < idx
      BY <2>1, <2>2, <2>3
    <3> QED BY <3>1, <3>2 DEF Complete
  <2>5. Unharmed(m)
    <3> SUFFICES ASSUME NEW i \in DOMAIN content[m].files,
                        content[m].files[i].kind = "infected"
                 PROVE  FALSE
      BY DEF Unharmed
    <3>1. i < Len(content[m].files) + 1
      BY <2>2, <2>3
    <3>2. PICK a \in infos : a.file = i
      BY <2>4, <3>1 DEF Complete
    <3> QED BY <2>4, <3>2 DEF Sound
  <2>6. /\ events' = [events EXCEPT ![m] = @ \cup {infos}]
        /\ pc' = "publish" /\ cur' = m /\ UNCHANGED <<buffer, topic, lost, dlq>>
    BY <1>15, <2>3 DEF Build, Goto
  <2>7. \A n \in Mails : \A e \in events'[n] : e \in events[n] \/ (n = m /\ e = infos)
    BY <2>6 DEF TypeOK
  <2>8. \A n \in Mails : \A e \in events'[n] :
              \/ e \in events[n]
              \/ /\ Complete(n, e, Len(content[n].files) + 1)
                 /\ \A a \in e : Sound(n, a)
    BY <2>4, <2>7
  <2> QED BY <1>0, <1>3, <2>5, <2>6, <2>8, FilesKeep
<1>16. CASE Publish
  <2>1. pc = "publish" /\ cur \in Mails /\ buffer' = [buffer EXCEPT ![cur] = @ + 1]
        /\ UNCHANGED <<topic, lost, dlq, events>> /\ pc' = "mark"
    BY <1>0, <1>16 DEF Publish, Goto, Stages
  <2>2. \A m \in Mails : m # cur => buffer'[m] = buffer[m]
    BY <1>0, <2>1
  <2>3. \A m \in Sent' : m \in Sent \/ m = cur
    BY <2>1, <2>2 DEF Sent
  <2>4. \A m \in Sent' \cup dlq' : m \in Sent \cup dlq \/ Unharmed(m)
    BY <1>0, <2>1, <2>3
  <2> QED BY <2>1, <2>4, FilesKeep
<1>17. CASE PublishRetry
  BY <1>1, <1>3, <1>17 DEF PublishRetry, kafkaVars
<1>18. CASE PublishGivesUp
  <2>1. /\ pc = "publish" /\ pc' = "next" /\ UNCHANGED <<buffer, topic, lost, events>>
        /\ dlq' \subseteq dlq \cup {cur}
    BY <1>18 DEF PublishGivesUp, Return
  <2>2. \A m \in Sent' \cup dlq' : m \in Sent \cup dlq \/ Unharmed(m)
    BY <1>0, <1>3, <2>1
  <2> QED BY <2>1, <2>2, FilesKeep
<1>19. CASE Mark \/ Read
  BY <1>2, <1>3, <1>19 DEF Mark, Read, Return, Goto, kafkaVars
<1>20. CASE UNCHANGED vars
  BY <1>1, <1>3, <1>20 DEF vars, kafkaVars, workVars
<1> QED BY <1>4, <1>5, <1>6, <1>7, <1>8, <1>9, <1>10, <1>11, <1>12, <1>13, <1>14, <1>15,
           <1>16, <1>17, <1>18, <1>19, <1>20, Zenon DEF Next, Work

-----------------------------------------------------------------------------
(***************************************************************************)
(* The invariant, and the theorems.                                        *)
(***************************************************************************)

LEMMA InitInv == Init => IndInv
<1> SUFFICES ASSUME Init PROVE IndInv
  OBVIOUS
<1>1. TypeOK
  BY InitTypeOK
<1>2. Arrived = {} /\ Sent = {}
  <2>1. arrived = <<>> /\ lost = {}
        /\ \A m \in Mails : buffer[m] = 0 /\ topic[m] = 0
    BY DEF Init
  <2>2. \A m \in Mails : ~(buffer[m] + topic[m] > 0)
    BY <2>1
  <2> QED BY <2>1, <2>2 DEF Arrived, Sent
<1>3. PlaceInv
  BY DEF Init, PlaceInv, Stages
<1>4. ReadInv
  BY <1>2 DEF Init, ReadInv, ReadIsJustified
<1>5. CountInv
  <2>1. \A m \in Mails : Events(m) = 0
    BY DEF Init, Events
  <2>2. faults = 0
    BY DEF Init
  <2> QED BY <2>1, <2>2 DEF CountInv
<1>6. FilesInv
  <2>1. pc = "sleep" /\ dlq = {} /\ \A m \in Mails : events[m] = {}
    BY DEF Init
  <2> QED BY <1>2, <2>1 DEF FilesInv
<1> QED BY <1>1, <1>3, <1>4, <1>5, <1>6 DEF IndInv

LEMMA NextInv == IndInv /\ [Next]_vars => IndInv'
<1> SUFFICES ASSUME IndInv, [Next]_vars PROVE IndInv'
  OBVIOUS
<1>1. TypeOK /\ PlaceInv /\ ReadInv /\ CountInv /\ FilesInv
  BY DEF IndInv
<1>2. TypeOK'
  BY <1>1, NextTypeOK
<1>3. PlaceInv'
  BY <1>1, NextPlaceInv
<1>4. ReadInv' /\ CountInv' /\ FilesInv'
  BY <1>1, <1>2, <1>3, NextReadInv, NextCountInv, NextFilesInv
<1> QED BY <1>2, <1>3, <1>4 DEF IndInv

LEMMA SpecInv == Spec => []IndInv
BY InitInv, NextInv, PTL DEF Spec

\* Every variable keeps its type, for any mailbox and any contents.
THEOREM TypeCorrectness == Spec => []TypeOK
<1>1. IndInv => TypeOK
  BY DEF IndInv
<1> QED BY <1>1, SpecInv, PTL

\* process_single_email marks a mail read only when it turned it away, or its
\* event, or one that is_duplicate takes for it, reached the producer.
THEOREM ReadSoundness == Spec => []ReadIsJustified
<1>1. IndInv => ReadIsJustified
  BY DEF IndInv, ReadInv
<1> QED BY <1>1, SpecInv, PTL

\* Polling, expiring keys and replies make no second event of a mail: for n
\* faults there are n + 1 events at the most.
THEOREM DeduplicationSoundness == Spec => []DuplicatesNeedFaults
<1>1. IndInv => DuplicatesNeedFaults
  BY DEF IndInv, CountInv, Events, DuplicatesNeedFaults
<1> QED BY <1>1, SpecInv, PTL

\* An event names all files of its mail, and objects with the bytes of their
\* checksums, but for files that may go to one object.
THEOREM StorageSoundness == Spec => []EventFilesStored
<1>1. IndInv => EventFilesStored
  <2> SUFFICES ASSUME IndInv, NEW m \in Mails, NEW e \in events[m]
               PROVE  /\ \A i \in DOMAIN content[m].files :
                             \/ content[m].files[i].kind = "oversize"
                             \/ \E a \in e : a.file = i
                      /\ \A a \in e : \/ objects[a.key] = content[m].files[a.file].data
                                       \/ Shared(m, a)
    BY DEF EventFilesStored
  <2>1. Complete(m, e, Len(content[m].files) + 1) /\ \A a \in e : Sound(m, a)
    BY DEF IndInv, FilesInv
  <2>2. \A i \in DOMAIN content[m].files : i < Len(content[m].files) + 1
    <3>1. content[m].files \in Seq(Files)
      BY ContentType DEF IndInv, MailRecords
    <3> QED BY <3>1
  <2> QED BY <2>1, <2>2 DEF Complete, Sound
<1> QED BY <1>1, SpecInv, PTL

\* No mail with an infected attachment becomes an event, or goes to the DLQ.
THEOREM ScanSoundness == Spec => []InfectedNeverSent
<1>1. IndInv => InfectedNeverSent
  BY DEF IndInv, FilesInv, Unharmed, InfectedNeverSent
<1> QED BY <1>1, SpecInv, PTL

-----------------------------------------------------------------------------
(***************************************************************************)
(* What EventuallyHandled rests on.                                        *)
(***************************************************************************)

\* Finitely many mails have arrived, each of them once.
ArrivalInv ==
    /\ IsFiniteSet(Arrived)
    /\ \A i, j \in DOMAIN arrived : arrived[i] = arrived[j] => i = j

LEMMA ArrivalsFinite == Spec => []ArrivalInv
<1>1. Init => ArrivalInv
  <2> SUFFICES ASSUME Init PROVE ArrivalInv
    OBVIOUS
  <2>1. arrived = <<>> /\ Arrived = {}
    BY DEF Init, Arrived
  <2> QED BY <2>1, FS_EmptySet DEF ArrivalInv
<1>2. IndInv /\ ArrivalInv /\ [Next]_vars => ArrivalInv'
  <2> SUFFICES ASSUME IndInv, ArrivalInv, [Next]_vars PROVE ArrivalInv'
    OBVIOUS
  <2>1. arrived \in Seq(Mails)
    BY DEF IndInv, TypeOK
  <2>2. ASSUME NEW m \in Mails, Arrive(m) PROVE ArrivalInv'
    <3>1. arrived' = Append(arrived, m) /\ m \notin Arrived
      BY <2>2 DEF Arrive
    <3>2. Arrived' = Arrived \cup {m}
      BY <2>1, <3>1, ArrivedAppends
    <3>3. IsFiniteSet(Arrived')
      BY <3>2, FS_AddElement DEF ArrivalInv
    <3>4. /\ DOMAIN arrived = 1 .. Len(arrived) /\ DOMAIN arrived' = 1 .. (Len(arrived) + 1)
          /\ Len(arrived) \in Nat
          /\ \A i \in 1 .. Len(arrived) : arrived'[i] = arrived[i]
          /\ arrived'[Len(arrived) + 1] = m
      BY <2>1, <3>1, AppendProperties
    <3>5. \A i \in 1 .. Len(arrived) : arrived[i] # m
      BY <3>1, <3>4 DEF Arrived
    <3>6. \A i, j \in DOMAIN arrived' : arrived'[i] = arrived'[j] => i = j
      <4> SUFFICES ASSUME NEW i \in 1 .. (Len(arrived) + 1), NEW j \in 1 .. (Len(arrived) + 1),
                          arrived'[i] = arrived'[j]
                   PROVE  i = j
        BY <3>4
      <4>1. i \in 1 .. Len(arrived) \/ i = Len(arrived) + 1
        BY <3>4
      <4>2. j \in 1 .. Len(arrived) \/ j = Len(arrived) + 1
        BY <3>4
      <4> QED BY <3>4, <3>5, <4>1, <4>2 DEF ArrivalInv
    <3> QED BY <3>3, <3>6 DEF ArrivalInv
  <2>3. CASE UNCHANGED arrived
    BY <2>3, ArrivedStays DEF ArrivalInv
  <2>4. ASSUME ~ \E m \in Mails : Arrive(m) PROVE UNCHANGED arrived
    BY <2>4
       DEF Next, Work, vars, mailVars, Reopen, Deliver, DeliveryFails, Expire, Midnight, Crash,
           Abort, Fetch, EndBatch, Take, Dedup, SkipFile, RefuseCopy, Quarantine, Upload,
           FileRaises, Build, Publish, PublishRetry, PublishGivesUp, Mark, Read
  <2> QED BY <2>2, <2>3, <2>4
<1> QED BY <1>1, <1>2, SpecInv, PTL DEF Spec

\* A poll reaches a mail when every newer unread mail stays unread whatever the
\* worker does, and a batch has room for one more than there are of these:
\* mails nobody can process do not keep an older one out of the batch.
FetchReaches ==
    Fetch => \A m \in unread :
        /\ \A n \in unread : Newer(n, m) => n \in Leftover
        /\ Cardinality((Leftover \cap Arrived) \ {m}) < BatchSize
        => m \in batch'

\* fetch_unread_messages misses a mail only behind a whole batch of mails that
\* stay unread, in any mailbox.
THEOREM FetchCoverage == Spec => [][FetchReaches]_vars
<1>1. PlaceInv /\ ArrivalInv /\ TypeOK /\ [Next]_vars => [FetchReaches]_vars
  <2> SUFFICES ASSUME PlaceInv, ArrivalInv, TypeOK, Fetch, NEW m \in unread,
                      \A n \in unread : Newer(n, m) => n \in Leftover,
                      Cardinality((Leftover \cap Arrived) \ {m}) < BatchSize
               PROVE  m \in batch'
    BY DEF FetchReaches
  <2> DEFINE S == {n \in unread : Newer(n, m)}
             T == (Leftover \cap Arrived) \ {m}
  <2>1. ~Newer(m, m)
    <3>1. \A i \in DOMAIN arrived : i \in Int
      BY DEF TypeOK
    <3> QED BY <3>1 DEF Newer, ArrivalInv
  <2>2. S \in SUBSET T
    BY <2>1 DEF PlaceInv
  <2>3. T \in SUBSET Arrived
    OBVIOUS
  <2>4. batch' = {k \in unread : Cardinality({n \in unread : Newer(n, k)}) < BatchSize}
    BY DEF Fetch
  <2>5. Cardinality(T) < BatchSize
    OBVIOUS
  <2> HIDE DEF S, T
  <2>6. IsFiniteSet(T)
    BY <2>3, FS_Subset DEF ArrivalInv
  <2>7. Cardinality(S) <= Cardinality(T) /\ IsFiniteSet(S)
    BY <2>2, <2>6, FS_Subset
  <2>8. Cardinality(S) \in Nat /\ Cardinality(T) \in Nat
    BY <2>6, <2>7, FS_CardinalityType
  <2>9. Cardinality(S) < BatchSize
    BY <2>5, <2>7, <2>8, MailBoundsAssumption
  <2> QED BY <2>4, <2>9 DEF S
<1>2. IndInv => PlaceInv /\ TypeOK
  BY DEF IndInv
<1> QED BY <1>1, <1>2, SpecInv, ArrivalsFinite, PTL DEF Spec

\* The worker leaves a mail unread and goes on to the next one only if the mail
\* is one that stays unread whatever happens, or this very step is a fault.
UnreadForReason ==
    pc' = "next" /\ (pc \in Stages \/ cur' # cur) =>
        cur' \notin unread' \/ cur' \in Leftover \/ faults' = faults + 1

\* No branch of process_single_email returns early on a mail it could process.
THEOREM UnreadSoundness == Spec => [][UnreadForReason]_vars
<1>1. IndInv /\ [Next]_vars => [UnreadForReason]_vars
  <2> SUFFICES ASSUME IndInv, Next, pc' = "next", pc \in Stages \/ cur' # cur
               PROVE  cur' \notin unread' \/ cur' \in Leftover \/ faults' = faults + 1
    BY DEF UnreadForReason
  <2>1. TypeOK /\ content' = content /\ Leftover' = Leftover
    <3>1. content' = content
      BY ContentStays
    <3> QED BY <3>1 DEF IndInv, Leftover
  <2>2. ASSUME NEW m \in Mails, Take(m) PROVE cur' \in Leftover
    <3>1. cur' = m /\ content[m].flaw = "unparsable"
      BY <2>2 DEF Take
    <3> QED BY <3>1 DEF Leftover, Stuck
  <2>3. CASE RefuseCopy
    <3>1. cur' = cur /\ File.kind = "copy" /\ HasFile
      BY <2>3 DEF RefuseCopy, Return, Goto
    <3> QED BY <2>1, <3>1, FileType DEF Leftover, Stuck
  <2>4. CASE Quarantine
    <3>1. cur' = cur /\ HasFile /\ (File.kind = "infected" \/ Fault)
      BY <2>4 DEF Quarantine, Return, Goto
    <3>2. CASE File.kind = "infected"
      <4>1. /\ cur \in Mails /\ idx \in DOMAIN content[cur].files
            /\ content[cur].files[idx].kind = "infected"
        BY <2>1, <3>1, <3>2, FileType
      <4>2. content[cur].files[idx].data \in Infected(content[cur])
        BY <4>1 DEF Infected
      <4> QED BY <3>1, <4>1, <4>2 DEF Leftover
    <3> QED BY <3>1, <3>2 DEF Fault
  <2>5. CASE PublishGivesUp
    <3>1. /\ cur' = cur /\ cur \in Mails
          /\ content[cur].flaw = "huge" \/ Fault
      BY <2>1, <2>5 DEF PublishGivesUp, Return, Goto, TypeOK, Stages
    <3> QED BY <3>1 DEF Leftover, Stuck, Fault
  <2>6. CASE Read
    BY <2>6 DEF Read, Return, Goto, Fault
  <2>7. CASE Dedup \/ SkipFile \/ Upload \/ Build \/ Publish \/ PublishRetry \/ Mark
             \/ EndBatch \/ Crash \/ Abort \/ FileRaises
    BY <2>7 DEF Dedup, SkipFile, NextFile, HasFile, Upload, Build, Publish, PublishRetry, Mark,
                EndBatch, Crash, Abort, FileRaises, Sleep, Goto
  <2>8. CASE Fetch
    BY <2>8 DEF Fetch, Stages
  <2>9. CASE (\E k \in keys : Expire(k)) \/ Midnight
             \/ \E m \in Mails : Arrive(m) \/ Reopen(m) \/ Deliver(m) \/ DeliveryFails(m)
    BY <2>9 DEF Expire, Midnight, Arrive, Reopen, Deliver, DeliveryFails, workVars, Stages
  <2> QED BY <2>2, <2>3, <2>4, <2>5, <2>6, <2>7, <2>8, <2>9 DEF Next, Work
<1> QED BY <1>1, SpecInv, PTL DEF Spec

\* What process_single_email may still do with a mail of f files at stage s: the
\* files from i on, the attempts from n on, and the stages.
Left(s, f, i, n) ==
    CASE s = "dedup"   -> f + MaxAttempts + 5
      [] s = "files"   -> (IF i <= f THEN f + 1 - i ELSE 0) + MaxAttempts + 4
      [] s = "publish" -> 3 + MaxAttempts - n
      [] s = "mark"    -> 2
      [] s = "read"    -> 1
      [] OTHER         -> 0

FilesOf(m) == IF m \in Mails THEN Len(content[m].files) ELSE 0

Remaining == Left(pc, FilesOf(cur), idx, attempt)

\* A batch is finite and ends: a step of the worker ends it, takes a mail out of
\* it, or uses up a part of what remains of the mail at hand, and nobody else
\* adds to either, whatever arrives in the meantime.
BatchEnds ==
    pc # "sleep" =>
        /\ IsFiniteSet(batch) /\ batch' \subseteq batch
        /\ batch' = batch => Remaining' <= Remaining
        /\ Work => pc' = "sleep" \/ batch' # batch \/ Remaining' < Remaining

LEMMA LeftShrinks ==
    ASSUME NEW f \in Nat, NEW i \in Nat \ {0}, NEW n \in 1 .. MaxAttempts
    PROVE  /\ \A s \in Stages \cup {"next", "sleep"} : Left(s, f, i, n) \in Nat
           /\ \A s \in Stages : Left("next", f, i, n) < Left(s, f, i, n)
           /\ \A s \in Stages \ {"read"} : Left("read", f, i, n) < Left(s, f, i, n)
           /\ Left("files", f, 1, 1) < Left("dedup", f, i, n)
           /\ i <= f => Left("files", f, i + 1, n) < Left("files", f, i, n)
           /\ Left("publish", f, i, n) < Left("files", f, i, n)
           /\ Left("mark", f, i, n) < Left("publish", f, i, n)
           /\ Left("publish", f, i, n + 1) < Left("publish", f, i, n)
<1>1. MaxAttempts \in Nat /\ n \in Nat /\ 1 <= n /\ n <= MaxAttempts
  BY MailBoundsAssumption
<1>2. \A j \in Nat, k \in Nat :
        /\ Left("dedup", f, j, k) = f + MaxAttempts + 5
        /\ Left("files", f, j, k) = (IF j <= f THEN f + 1 - j ELSE 0) + MaxAttempts + 4
        /\ Left("publish", f, j, k) = 3 + MaxAttempts - k
        /\ Left("mark", f, j, k) = 2
        /\ Left("read", f, j, k) = 1
        /\ Left("next", f, j, k) = 0 /\ Left("sleep", f, j, k) = 0
  BY DEF Left
<1> QED BY <1>1, <1>2 DEF Stages

\* A step of the worker at a mail.
LEMMA WorkShortens ==
    ASSUME TypeOK, [Next]_vars, pc \in Stages, Work
    PROVE  (pc' = "sleep" /\ batch' = {}) \/ (batch' = batch /\ Remaining' < Remaining)
<1> DEFINE f == FilesOf(cur)
<1>0. /\ cur \in Mails /\ f = Len(content[cur].files) /\ f \in Nat
      /\ idx \in Nat \ {0} /\ attempt \in 1 .. MaxAttempts
      /\ content' = content
  <2>1. cur \in Mails /\ content[cur] \in MailRecords
    BY ContentType DEF TypeOK
  <2>2. Len(content[cur].files) \in Nat
    BY <2>1 DEF MailRecords
  <2> QED BY <2>1, <2>2, ContentStays DEF TypeOK, FilesOf
<1>1. Remaining = Left(pc, f, idx, attempt)
  BY DEF Remaining
<1>2. cur' = cur => Remaining' = Left(pc', f, idx', attempt')
  BY <1>0 DEF Remaining, FilesOf
<1> HIDE DEF f
<1>3. CASE Dedup
  BY <1>0, <1>1, <1>2, <1>3, LeftShrinks DEF Dedup, Goto, Stages
<1>4. CASE SkipFile \/ Upload
  <2>1. /\ pc = "files" /\ pc' = "files" /\ idx <= f /\ idx' = idx + 1
        /\ UNCHANGED <<batch, cur, attempt>>
    BY <1>0, <1>4 DEF SkipFile, Upload, HasFile, NextFile
  <2> QED BY <1>0, <1>1, <1>2, <2>1, LeftShrinks
<1>5. CASE RefuseCopy \/ Quarantine \/ PublishGivesUp \/ Read
  <2>1. pc' = "next" /\ UNCHANGED <<batch, cur, idx, attempt>>
    BY <1>5 DEF RefuseCopy, Quarantine, PublishGivesUp, Read, Return, Goto
  <2> QED BY <1>0, <1>1, <1>2, <2>1, LeftShrinks
<1>6. CASE Build
  <2>1. pc = "files" /\ pc' = "publish" /\ UNCHANGED <<batch, cur, idx, attempt>>
    BY <1>6 DEF Build, Goto
  <2> QED BY <1>0, <1>1, <1>2, <2>1, LeftShrinks
<1>7. CASE Publish
  <2>1. pc = "publish" /\ pc' = "mark" /\ UNCHANGED <<batch, cur, idx, attempt>>
    BY <1>7 DEF Publish, Goto
  <2> QED BY <1>0, <1>1, <1>2, <2>1, LeftShrinks
<1>8. CASE PublishRetry
  <2>1. pc = "publish" /\ attempt' = attempt + 1 /\ UNCHANGED <<pc, batch, cur, idx>>
    BY <1>8 DEF PublishRetry
  <2> QED BY <1>0, <1>1, <1>2, <2>1, LeftShrinks
<1>9. CASE Mark
  <2>1. pc = "mark" /\ pc' = "read" /\ UNCHANGED <<batch, cur, idx, attempt>>
    BY <1>9 DEF Mark, Goto
  <2> QED BY <1>0, <1>1, <1>2, <2>1, LeftShrinks DEF Stages
<1>11. CASE FileRaises
  BY <1>11 DEF FileRaises, Sleep
<1>10. CASE Fetch \/ EndBatch \/ \E m \in Mails : Take(m)
  BY <1>10 DEF Fetch, EndBatch, Take, Stages
<1> QED BY <1>3, <1>4, <1>5, <1>6, <1>7, <1>8, <1>9, <1>10, <1>11 DEF Work

\* Every poll comes to an end, for batches and mails of any size.
THEOREM BatchTermination == Spec => [][BatchEnds]_vars
<1>1. IndInv /\ IndInv' /\ ArrivalInv /\ [Next]_vars => [BatchEnds]_vars
  <2> SUFFICES ASSUME IndInv, TypeOK', ArrivalInv, Next, pc # "sleep"
               PROVE  /\ IsFiniteSet(batch) /\ batch' \subseteq batch
                      /\ batch' = batch => Remaining' <= Remaining
                      /\ Work => pc' = "sleep" \/ batch' # batch \/ Remaining' < Remaining
    BY DEF BatchEnds, IndInv
  <2>0. TypeOK /\ [Next]_vars /\ pc \in Stages \cup {"next", "sleep"}
    BY DEF IndInv, TypeOK
  <2>1. IsFiniteSet(batch)
    BY FS_Subset DEF IndInv, PlaceInv, ArrivalInv
  <2>2. Remaining \in Nat
    <3>1. FilesOf(cur) \in Nat
      <4>1. CASE cur \in Mails
        BY <2>0, <4>1, ContentType DEF FilesOf, MailRecords
      <4> QED BY <4>1 DEF FilesOf
    <3> QED BY <2>0, <3>1, LeftShrinks DEF Remaining, TypeOK
  <2>3. CASE pc \in Stages /\ Work
    <3>1. \/ pc' = "sleep" /\ batch' = {}
          \/ batch' = batch /\ Remaining' < Remaining
      BY <2>0, <2>3, WorkShortens
    <3>2. Remaining' \in Nat
      <4>1. content' = content /\ cur' \in Mails \cup {NoMail}
        BY ContentStays, <2>0 DEF TypeOK
      <4>2. FilesOf(cur)' \in Nat
        <5>1. CASE cur' \in Mails
          BY <2>0, <4>1, <5>1, ContentType DEF FilesOf, MailRecords
        <5> QED BY <5>1 DEF FilesOf
      <4>3. /\ pc' \in Stages \cup {"next", "sleep"} /\ idx' \in Nat \ {0}
            /\ attempt' \in 1 .. MaxAttempts
            /\ Remaining' = Left(pc', FilesOf(cur)', idx', attempt')
        BY DEF TypeOK, Remaining
      <4> QED BY <4>2, <4>3, LeftShrinks
    <3>3. pc' = "sleep" => Remaining' = 0
      BY DEF Remaining, Left
    <3> QED BY <2>1, <2>2, <3>1, <3>2, <3>3
  <2>4. CASE pc = "next" /\ Work
    <3>1. CASE EndBatch
      <4>1. pc' = "sleep" /\ batch' = batch /\ Remaining' = 0
        BY <3>1 DEF EndBatch, Remaining, Left, Stages
      <4> QED BY <2>1, <2>2, <4>1
    <3>2. ASSUME NEW m \in Mails, Take(m)
          PROVE  batch' # batch /\ batch' \subseteq batch
      BY <3>2 DEF Take
    <3>3. EndBatch \/ \E m \in Mails : Take(m)
      BY <2>4 DEF Work, Fetch, Dedup, SkipFile, RefuseCopy, Quarantine, Upload, FileRaises,
                  Build, HasFile, Publish, PublishRetry, PublishGivesUp, Mark, Read
    <3> QED BY <2>1, <3>1, <3>2, <3>3
  <2>5. CASE ~Work
    <3>1. \/ batch' = batch /\ Remaining' = Remaining
          \/ batch' = {} /\ Remaining' = 0
      <4>1. CASE Crash \/ Abort
        BY <4>1 DEF Crash, Abort, Sleep, Remaining, Left, Stages
      <4>2. CASE UNCHANGED <<pc, batch, cur, idx, attempt, content>>
        BY <4>2 DEF Remaining, FilesOf
      <4> QED BY <2>5, <4>1, <4>2
              DEF Next, Arrive, Reopen, Deliver, DeliveryFails, Expire, Midnight, workVars,
                  mailVars
    <3> QED BY <2>1, <2>2, <2>5, <3>1
  <2> QED BY <2>0, <2>3, <2>4, <2>5 DEF Stages
<1> QED BY <1>1, SpecInv, ArrivalsFinite, PTL DEF Spec

=============================================================================
