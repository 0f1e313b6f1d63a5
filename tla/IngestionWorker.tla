--------------------------- MODULE IngestionWorker ---------------------------
(***************************************************************************)
(* Module 2's e-mail worker (src/module2-email-worker/app/worker.py): one  *)
(* thread that polls a Gmail mailbox and turns every new mail into one     *)
(* event on the topic ingest.raw.                                          *)
(*                                                                         *)
(* run_worker_loop fetches the newest BatchSize unread mails and calls     *)
(* process_single_email on each, newest first, then sleeps.  A mail goes   *)
(* through these stages; each ends in a call to another service:           *)
(*                                                                         *)
(*    dedup    is_duplicate (Redis), then the length of the redacted body  *)
(*    files    scan and upload (or quarantine) one attachment at a time    *)
(*    publish  publish_event: produce and flush, up to MaxAttempts times   *)
(*    mark     mark_processed (Redis)                                      *)
(*    read     mark_message_read (Gmail)                                   *)
(*                                                                         *)
(* An exception no stage catches ends the whole batch, and a file that S3  *)
(* refuses raises one at every poll.  produce only puts the event in the   *)
(* producer's buffer, in the worker's memory; a thread of librdkafka       *)
(* delivers it, or reports a failure to a callback that logs.              *)
(***************************************************************************)
EXTENDS Integers, Sequences, FiniteSets

CONSTANTS
    Mails,         \* mails of the mailbox (Gmail ids)
    Contents,      \* what a mail may contain: records of MailRecords
    Mids,          \* Message-ID headers
    NoMid,         \* a missing header
    Names,         \* file names
    LongNames,     \* those of them too long for the key of an object
    NoAttachment,  \* "no-attachment", in place of the first file name
    Data,          \* the bytes of a file
    Prefixes,      \* eight hexadecimal digits
    Prefix,        \* the first eight digits of an idempotency key
    NoMail,        \* "no mail at hand"
    BatchSize,     \* maxResults = 50
    MaxAttempts,   \* settings.kafka_max_retries
    MaxFaults,     \* bound: failing calls, crashes and mails marked unread
    MaxDays        \* bound: days

Headers == Mids \cup {NoMid}

\* "copy": the bytes of the redacted body itself, so that both have one hash.
FileKinds == {"clean", "infected", "oversize", "copy"}
Files     == [name : Names, data : Data, kind : FileKinds]

\* from:   the From header holds a bare address of the domain, an address of
\*         the domain after a display name, or some other address.
\* flaw:   MIME that does not parse, a body under 50 characters, an event over
\*         the producer's message.max.bytes, a Message-ID that is not ASCII.
\* parent: In-Reply-To, the last entry of References.
MailRecords ==
    [mid : Headers, parent : Headers, files : Seq(Files),
     from : {"bare", "named", "foreign"},
     flaw : {"none", "unparsable", "short", "huge", "header"}]

ASSUME ContentsAssumption == Contents \subseteq MailRecords
ASSUME NoMailAssumption == NoMail \notin Mails
ASSUME NamesAssumption == NoAttachment \notin Names /\ NoMid \notin Mids
ASSUME LongNamesAssumption == LongNames \subseteq Names
ASSUME PrefixAssumption == Prefix \in [Headers \X (Names \cup {NoAttachment}) -> Prefixes]
ASSUME MailBoundsAssumption ==
    /\ BatchSize \in Nat \ {0}
    /\ MaxAttempts \in Nat \ {0}
    /\ MaxFaults \in Nat
    /\ MaxDays \in Nat \ {0}

VARIABLES
    \* Gmail, and the calendar
    content,     \* what every mail contains
    arrived,     \* the mails that have arrived, oldest first
    unread,      \* the mails labelled UNREAD
    day,         \* the date
    \* Redis, S3, Kafka
    keys,        \* deduplication keys
    objects,     \* the ingestion bucket
    quarantine,  \* files put in the quarantine bucket
    buffer,      \* events of a mail in the producer's buffer
    topic,       \* events of a mail on ingest.raw
    dlq,         \* mails with an event on dlq.ingestion.failed
    lost,        \* history: mails with an event that left the buffer undelivered
    events,      \* history: the attachments of every event built of a mail
    \* the worker
    pc,          \* stage of the mail at hand; "next" between mails; "sleep"
    batch,       \* fetched mails that are still to be processed
    cur,         \* the mail at hand
    idx,         \* the attachment at hand
    infos,       \* attachment_infos, of the attachments uploaded so far
    attempt,     \* attempt of publish_event
    faults       \* faults so far

mailVars  == <<content, arrived, unread, day>>
storeVars == <<keys, objects, quarantine>>
kafkaVars == <<buffer, topic, dlq, lost, events>>
workVars  == <<pc, batch, cur, idx, infos, attempt>>
vars == <<mailVars, storeVars, kafkaVars, workVars, faults>>

Stages == {"dedup", "files", "publish", "mark", "read"}

Arrived == {arrived[i] : i \in DOMAIN arrived}
Newer(n, m) ==
    \E i, j \in DOMAIN arrived : i < j /\ arrived[i] = m /\ arrived[j] = n

\* compute_idempotency_key: the Message-ID and the first file name.
PrimaryName(c) == IF c.files = <<>> THEN NoAttachment ELSE c.files[1].name
IdemKey(c)     == <<c.mid, PrimaryName(c)>>

\* The S3 key: the date of the upload, the first eight digits of the
\* idempotency key (compute_idempotency_key is a SHA-256), and the file name.
\* Mutant: the object is filed under its date and name only.
ObjectKeyByName(c, f) == [day |-> day, prefix |-> CHOOSE x \in Prefixes : TRUE, name |-> f.name]
ObjectKey(c, f) == [day |-> day, prefix |-> Prefix[IdemKey(c)], name |-> f.name]
ObjectKeys == [day : 1 .. MaxDays, prefix : Prefixes, name : Names]

\* An AttachmentInfo: a file of the mail (its name, size and checksum) and the
\* key of its object.
Infos == [file : Nat \ {0}, key : ObjectKeys]

\* put_object raises at every try: botocore takes no metadata but ASCII (the
\* Message-ID goes with an upload, not with a quarantined file), and S3 no key
\* over 1024 bytes.
Refuses(c, f) ==
    \/ f.kind = "clean" /\ c.flaw = "header"
    \/ f.kind \in {"clean", "infected"} /\ f.name \in LongNames

\* _validate_domain: the whole From header has to end with "@" and the domain.
ValidDomain(c) == c.from = "bare"

\* The keys is_duplicate looks up ("ref" keys are looked up, never written) ...
CheckKeys(c) ==
    {<<"idem", IdemKey(c)>>}
      \cup (IF c.mid = NoMid THEN {} ELSE {<<"msgid", c.mid>>})
      \cup (IF c.parent = NoMid THEN {}
            ELSE {<<"reply", c.parent>>, <<"ref", c.parent>>})

\* ... and the keys mark_processed writes.
MarkKeys(c) ==
    {<<"idem", IdemKey(c)>>, <<"msgid", c.mid>>}
      \cup (IF c.parent = NoMid THEN {} ELSE {<<"reply", c.parent>>})

DedupKeys ==
    ({"idem"} \X (Headers \X (Names \cup {NoAttachment})))
      \cup ({"msgid", "reply"} \X Headers)

TypeOK ==
    /\ content \in [Mails -> Contents]
    /\ arrived \in Seq(Mails)
    /\ unread \in SUBSET Mails
    /\ day \in 1 .. MaxDays
    /\ keys \in SUBSET DedupKeys
    /\ objects \in [ObjectKeys -> Data \cup {NoMail}]
    /\ quarantine \in SUBSET Data
    /\ buffer \in [Mails -> Nat]
    /\ topic \in [Mails -> Nat]
    /\ dlq \in SUBSET Mails
    /\ lost \in SUBSET Mails
    /\ events \in [Mails -> SUBSET SUBSET Infos]
    /\ pc \in Stages \cup {"sleep", "next"}
    /\ batch \in SUBSET Mails
    /\ cur \in Mails \cup {NoMail}
    /\ pc \in Stages => cur \in Mails
    /\ idx \in Nat \ {0}
    /\ infos \in SUBSET Infos
    /\ attempt \in 1 .. MaxAttempts
    /\ faults \in 0 .. MaxFaults

Init ==
    /\ content \in [Mails -> Contents]
    /\ arrived = <<>>
    /\ unread = {}
    /\ day = 1
    /\ keys = {}
    /\ objects = [k \in ObjectKeys |-> NoMail]
    /\ quarantine = {}
    /\ buffer = [m \in Mails |-> 0]
    /\ topic = [m \in Mails |-> 0]
    /\ dlq = {}
    /\ lost = {}
    /\ events = [m \in Mails |-> {}]
    /\ pc = "sleep"
    /\ batch = {}
    /\ cur = NoMail
    /\ idx = 1
    /\ infos = {}
    /\ attempt = 1
    /\ faults = 0

Fault ==
    /\ faults < MaxFaults
    /\ faults' = faults + 1

(***************************************************************************)
(* The environment.                                                        *)
(***************************************************************************)

Arrive(m) ==
    /\ m \notin Arrived
    /\ arrived' = Append(arrived, m)
    /\ unread' = unread \cup {m}
    /\ UNCHANGED <<content, day, storeVars, kafkaVars, workVars, faults>>

Midnight ==
    /\ day < MaxDays
    /\ day' = day + 1
    /\ UNCHANGED <<content, arrived, unread, storeVars, kafkaVars, workVars, faults>>

\* Somebody who reads the mailbox labels a mail UNREAD again.
Reopen(m) ==
    /\ m \in Arrived \ unread
    /\ Fault
    /\ unread' = unread \cup {m}
    /\ UNCHANGED <<content, arrived, day, storeVars, kafkaVars, workVars>>

\* redis_dedup_ttl_seconds runs out, or Redis loses the key.
Expire(k) ==
    /\ k \in keys
    /\ keys' = keys \ {k}
    /\ UNCHANGED <<mailVars, objects, quarantine, kafkaVars, workVars, faults>>

\* librdkafka delivers a buffered event ...
Deliver(m) ==
    /\ buffer[m] > 0
    /\ buffer' = [buffer EXCEPT ![m] = @ - 1]
    /\ topic' = [topic EXCEPT ![m] = @ + 1]
    /\ UNCHANGED <<mailVars, storeVars, dlq, lost, events, workVars, faults>>

\* ... or gives up (delivery.timeout.ms, a broker error): _delivery_report logs.
DeliveryFails(m) ==
    /\ buffer[m] > 0
    /\ Fault
    /\ buffer' = [buffer EXCEPT ![m] = @ - 1]
    /\ lost' = lost \cup {m}
    /\ UNCHANGED <<mailVars, storeVars, topic, dlq, events, workVars>>

\* The process dies and starts again: the buffer goes with it.
Crash ==
    /\ Fault
    /\ lost' = lost \cup {m \in Mails : buffer[m] > 0}
    /\ buffer' = [m \in Mails |-> 0]
    /\ pc' = "sleep"
    /\ batch' = {}
    /\ cur' = NoMail
    /\ infos' = {}
    /\ UNCHANGED <<mailVars, storeVars, topic, dlq, events, idx, attempt>>

(***************************************************************************)
(* run_worker_loop.                                                        *)
(***************************************************************************)

\* fetch_unread_messages; Gmail lists the newest mails first.
Fetch ==
    /\ pc = "sleep"
    /\ pc' = "next"
    /\ batch' = {m \in unread :
                    Cardinality({n \in unread : Newer(n, m)}) < BatchSize}
    /\ UNCHANGED <<mailVars, storeVars, kafkaVars, cur, idx, infos, attempt, faults>>

EndBatch ==
    /\ pc = "next"
    /\ batch = {}
    /\ pc' = "sleep"
    /\ UNCHANGED <<mailVars, storeVars, kafkaVars, batch, cur, idx, infos, attempt, faults>>

Sleep ==
    /\ pc' = "sleep"
    /\ batch' = {}
    /\ cur' = NoMail
    /\ infos' = {}
    /\ UNCHANGED <<idx, attempt>>

\* A call raises and process_single_email does not catch it: the except branch
\* of run_worker_loop logs it, and the rest of the batch waits for the next poll.
Abort ==
    /\ pc # "sleep"
    /\ Fault
    /\ Sleep
    /\ UNCHANGED <<mailVars, storeVars, kafkaVars>>

(***************************************************************************)
(* process_single_email.                                                   *)
(***************************************************************************)

Goto(stage) ==
    /\ pc' = stage
    /\ UNCHANGED <<batch, cur, idx, infos, attempt>>

\* `return`: on to the next mail of the batch.
Return ==
    /\ pc' = "next"
    /\ infos' = {}
    /\ UNCHANGED <<batch, cur, idx, attempt>>

\* Parse and check the sender.
Take(m) ==
    /\ pc = "next"
    /\ m \in batch
    /\ \A n \in batch : ~Newer(n, m)
    /\ batch' = batch \ {m}
    /\ cur' = m
    /\ pc' = IF content[m].flaw = "unparsable" THEN "next"
             ELSE IF ValidDomain(content[m]) THEN "dedup" ELSE "read"
    /\ UNCHANGED <<mailVars, storeVars, kafkaVars, idx, infos, attempt, faults>>

\* is_duplicate; redact; a body that is too short is marked read and dropped.
Dedup ==
    /\ pc = "dedup"
    /\ IF CheckKeys(content[cur]) \cap keys # {} \/ content[cur].flaw = "short"
       THEN Goto("read")
       ELSE /\ pc' = "files"
            /\ idx' = 1
            /\ infos' = {}
            /\ attempt' = 1
            /\ UNCHANGED <<batch, cur>>
    /\ UNCHANGED <<mailVars, storeVars, kafkaVars, faults>>

File == content[cur].files[idx]
HasFile == pc = "files" /\ idx <= Len(content[cur].files)
NextFile == idx' = idx + 1 /\ UNCHANGED <<pc, batch, cur, attempt>>

\* Too large: left out of the event.
SkipFile ==
    /\ HasFile
    /\ File.kind = "oversize"
    /\ NextFile
    /\ UNCHANGED <<mailVars, storeVars, kafkaVars, infos, faults>>

\* Mutant: the equal hashes raise instead of returning.
RefuseCopyRaises ==
    /\ HasFile
    /\ File.kind = "copy"
    /\ Sleep
    /\ UNCHANGED <<mailVars, storeVars, kafkaVars, faults>>

\* The checksum of the file equals raw_text_hash: give up, still unread.
RefuseCopy ==
    /\ HasFile
    /\ File.kind = "copy"
    /\ Return
    /\ UNCHANGED <<mailVars, storeVars, kafkaVars, faults>>

\* Mutant: the loop goes on after a quarantined file.
QuarantineContinues ==
    /\ HasFile
    /\ File.kind \in {"clean", "infected"} /\ File.name \notin LongNames
    /\ IF File.kind = "infected" THEN UNCHANGED faults ELSE Fault
    /\ quarantine' = quarantine \cup {File.data}
    /\ NextFile
    /\ UNCHANGED <<mailVars, keys, objects, kafkaVars, infos>>

\* INFECTED, or ERROR when the scanner fails: quarantine, give up, still unread.
Quarantine ==
    /\ HasFile
    /\ File.kind \in {"clean", "infected"} /\ File.name \notin LongNames
    /\ IF File.kind = "infected" THEN UNCHANGED faults ELSE Fault
    /\ quarantine' = quarantine \cup {File.data}
    /\ Return
    /\ UNCHANGED <<mailVars, keys, objects, kafkaVars>>

\* Upload, and the AttachmentInfo with the key.
Upload ==
    /\ HasFile
    /\ File.kind = "clean" /\ ~Refuses(content[cur], File)
    /\ objects' = [objects EXCEPT ![ObjectKey(content[cur], File)] = File.data]
    /\ infos' = infos \cup {[file |-> idx, key |-> ObjectKey(content[cur], File)]}
    /\ NextFile
    /\ UNCHANGED <<mailVars, keys, quarantine, kafkaVars, faults>>

\* The upload of a clean file, or of an infected one to the quarantine, raises,
\* and no try block is around it: the batch ends, now and at every other poll
\* that comes to this mail.
FileRaises ==
    /\ HasFile
    /\ Refuses(content[cur], File)
    /\ Sleep
    /\ UNCHANGED <<mailVars, storeVars, kafkaVars, faults>>

\* The event is built; all its fields pass the validators.
Build ==
    /\ pc = "files"
    /\ idx > Len(content[cur].files)
    /\ events' = [events EXCEPT ![cur] = @ \cup {infos}]
    /\ Goto("publish")
    /\ UNCHANGED <<mailVars, storeVars, buffer, topic, dlq, lost, faults>>

\* Mutant: a flush that leaves the event in the buffer counts as a failure.
PublishAfterFlush ==
    /\ pc = "publish"
    /\ content[cur].flaw # "huge"
    /\ buffer' = [buffer EXCEPT ![cur] = @ + 1]
    /\ \/ Goto("mark")
       \/ /\ attempt < MaxAttempts
          /\ attempt' = attempt + 1
          /\ UNCHANGED <<pc, batch, cur, idx, infos>>
    /\ UNCHANGED <<mailVars, storeVars, topic, dlq, lost, events, faults>>

\* produce and flush; what flush leaves in the buffer is not looked at.
Publish ==
    /\ pc = "publish"
    /\ content[cur].flaw # "huge"
    /\ buffer' = [buffer EXCEPT ![cur] = @ + 1]
    /\ Goto("mark")
    /\ UNCHANGED <<mailVars, storeVars, topic, dlq, lost, events, faults>>

\* produce raises KafkaException: always for an event that is too large.
PublishRetry ==
    /\ pc = "publish"
    /\ attempt < MaxAttempts
    /\ IF content[cur].flaw = "huge" THEN UNCHANGED faults ELSE Fault
    /\ attempt' = attempt + 1
    /\ UNCHANGED <<mailVars, storeVars, kafkaVars, pc, batch, cur, idx, infos>>

\* Mutant: the mail counts as handled once it has been routed to the DLQ.
PublishGivesUpRead ==
    /\ pc = "publish"
    /\ attempt = MaxAttempts
    /\ IF content[cur].flaw = "huge" THEN UNCHANGED faults ELSE Fault
    /\ \/ content[cur].flaw # "huge" /\ dlq' = dlq \cup {cur}
       \/ UNCHANGED dlq
    /\ Goto("read")
    /\ UNCHANGED <<mailVars, storeVars, buffer, topic, lost, events>>

\* The last attempt raises: _publish_to_dlq wraps the event in a larger one and
\* swallows its own failure.  The mail stays unread.
PublishGivesUp ==
    /\ pc = "publish"
    /\ attempt = MaxAttempts
    /\ IF content[cur].flaw = "huge" THEN UNCHANGED faults ELSE Fault
    /\ \/ content[cur].flaw # "huge" /\ dlq' = dlq \cup {cur}
       \/ UNCHANGED dlq
    /\ Return
    /\ UNCHANGED <<mailVars, storeVars, buffer, topic, lost, events>>

Mark ==
    /\ pc = "mark"
    /\ keys' = keys \cup MarkKeys(content[cur])
    /\ Goto("read")
    /\ UNCHANGED <<mailVars, objects, quarantine, kafkaVars, faults>>

\* mark_message_read swallows an HttpError.
Read ==
    /\ pc = "read"
    /\ \/ unread' = unread \ {cur} /\ UNCHANGED faults
       \/ UNCHANGED unread /\ Fault
    /\ Return
    /\ UNCHANGED <<content, arrived, day, storeVars, kafkaVars>>

Work ==
    \/ Fetch
    \/ EndBatch
    \/ \E m \in Mails : Take(m)
    \/ Dedup
    \/ SkipFile
    \/ RefuseCopy
    \/ Quarantine
    \/ Upload
    \/ FileRaises
    \/ Build
    \/ Publish
    \/ PublishRetry
    \/ PublishGivesUp
    \/ Mark
    \/ Read

Next ==
    \/ \E m \in Mails :
          \/ Arrive(m)
          \/ Reopen(m)
          \/ Deliver(m)
          \/ DeliveryFails(m)
    \/ \E k \in keys : Expire(k)
    \/ Midnight
    \/ Crash
    \/ Abort
    \/ Work

Spec == Init /\ [][Next]_vars

\* The worker thread keeps running its loop.
FairSpec == Spec /\ WF_vars(Work)

-----------------------------------------------------------------------------
(***************************************************************************)
(* Properties.                                                             *)
(***************************************************************************)

\* Mails with an event that reached the producer.
Sent == {m \in Mails : buffer[m] + topic[m] > 0} \cup lost

\* A mail the rules of the module turn away.
Rejected(c) == ~ValidDomain(c) \/ c.flaw = "short"

\* A mail is only ever marked read for a reason: it was turned away, its event
\* was handed to the producer, or is_duplicate took it for a mail whose event
\* was.  No crash, exception or failed publish marks a mail read.
ReadIsJustified ==
    \A m \in Arrived \ unread :
        \/ Rejected(content[m])
        \/ m \in Sent
        \/ \E n \in Sent : CheckKeys(content[m]) \cap MarkKeys(content[n]) # {}

\* Deduplication: without faults a mail makes one event, however often it is
\* polled and whenever its keys expire; every further event takes a fault of
\* its own (a crash or failure between publish and read, a mail marked unread).
DuplicatesNeedFaults == \A m \in Mails : buffer[m] + topic[m] <= 1 + faults

\* Another file may go to the same object: a second attachment with the name,
\* or one of a mail whose idempotency key begins with the same eight digits.
Shared(m, a) ==
    \E n \in Mails : \E j \in DOMAIN content[n].files :
        /\ <<n, j>> # <<m, a.file>>
        /\ content[n].files[j].kind = "clean"
        /\ Prefix[IdemKey(content[n])] = a.key.prefix
        /\ content[n].files[j].name = a.key.name

\* An event names all files of its mail that are not too large, and as long as it
\* may be read, on whatever day, the object of every s3_key holds the bytes its
\* checksum_sha256 was taken from, unless another file may go to that object.
EventFilesStored ==
    \A m \in Mails : \A e \in events[m] :
        /\ \A i \in DOMAIN content[m].files :
               content[m].files[i].kind = "oversize" \/ \E a \in e : a.file = i
        /\ \A a \in e :
               objects[a.key] = content[m].files[a.file].data \/ Shared(m, a)

\* "DO NOT publish to Kafka": a mail with an infected attachment, in whatever
\* position and however the scanner fails, never becomes an event.
InfectedNeverSent ==
    \A m \in Sent \cup dlq :
        \A i \in DOMAIN content[m].files : content[m].files[i].kind # "infected"

\* "Never silently drops a message": a mail whose event was lost can still be
\* read from the DLQ, or is unread and will be polled again.
NeverSilentlyDropped ==
    \A m \in lost : topic[m] + buffer[m] > 0 \/ m \in dlq \/ m \in unread

\* A mail that ends every batch in which its turn comes: a file S3 refuses, and
\* none before it that makes process_single_email return.
Raises(c) ==
    /\ ~Rejected(c) /\ c.flaw # "unparsable"
    /\ \E i \in DOMAIN c.files :
          /\ Refuses(c, c.files[i])
          /\ \A j \in 1 .. i - 1 : c.files[j].kind \in {"clean", "oversize"}

\* A mail whose processing always ends in a `return` or a raise that leaves it
\* unread, with nothing to show for it.
Stuck(c) ==
    \/ c.flaw \in {"unparsable", "huge"}
    \/ \E i \in DOMAIN c.files : c.files[i].kind = "copy"
    \/ Raises(c)

Infected(c) == {c.files[i].data : i \in {j \in DOMAIN c.files : c.files[j].kind = "infected"}}

\* The mails that stay unread whatever happens: every poll fetches them again.
Leftover == {m \in Mails : Stuck(content[m]) \/ Infected(content[m]) # {}}

\* Every mail is dealt with in the end, marked read or, when it carries an
\* infected file, quarantined: mails that stay unread for ever do not keep the
\* worker from the others, as long as a batch has room for one more than there
\* are of them, with one exception.  A mail that raises ends every batch before
\* the older ones, and they wait for as long as it is unread.
EventuallyHandled ==
    \A m \in Mails :
        (m \in unread /\ ~Stuck(content[m]) /\ Cardinality(Leftover \ {m}) < BatchSize) ~>
            \/ m \notin unread
            \/ Infected(content[m]) \cap quarantine # {}
            \/ \E n \in unread : Raises(content[n]) /\ Newer(n, m)
=============================================================================
