# A TLA+ model of the paper pipeline

Six services take a research paper from an e-mail to a published, searchable
and reportable record. This directory models them from their source and checks
what they promise one another when messages are repeated, processes crash,
services fail and several actors work at once.

    Gmail ── module 2 ──ingest.raw──> module 3 ──papers.validated───> module 4 ──> PostgreSQL
             (worker)                 (workers)  ──papers.review────>  (consumers)     │  │
                │                        │       ──papers.failed────>     │            │  │
             S3, Redis        module 1's directory,                     Redis    module 5 module 6
             dlq.ingestion    Redis, dlq.ingestion                               (search) (reports, S3)

Module 1 issues the tokens every API checks and serves the faculty directory.

## 1. Inventory

| Component | State | Operations | Talks to |
|---|---|---|---|
| **M2 ingestion worker** `module2-email-worker/app/worker.py` and `services/` | unread labels of the mailbox; markers `dedup:*` in Redis; objects and the quarantine in S3; the producer's buffer | fetch a batch of unread mails; domain lock; parse; deduplicate; scan, quarantine or upload every attachment; publish with retries, DLQ; mark processed; mark read | Gmail, ClamAV, Redis, S3, Kafka |
| **M3 extraction worker** `module3-ai-worker/app/pipeline.py` | consumer position, group offset, markers `m3:processed:*`, producer buffer | poll; deduplicate; schema; verify hashes; look the sender up; extract; route; publish or DLQ; mark; commit | Kafka, Redis, S3, M1's directory |
| **M3 cascade and routing** `services/extraction/`, `routing/engine.py` | none across events | four tiers, score, cap, validation issues, decision | CrossRef, Bedrock |
| **M4 consumer** `module4-storage/app/consumer.py` | group offsets, markers `m4:processed:*`, table `papers` | poll; `_process_message` under a retry: two idempotency checks, insert, mark; commit | Kafka, Redis, PostgreSQL |
| **M4 API** `module4-storage/app/main.py`, `repository/`, `migrations/` | papers, issues, versions, audit rows, RLS policies, triggers | create, update, resolve issues, and reads (list, get, export, audit, full text) | PostgreSQL |
| **M5 search** `module5-search/app` | Redis cache of results and facets, the listener's subscription and SCAN | search (keyword, semantic, hybrid), facets, suggestions, invalidate, listen | PostgreSQL, Redis |
| **M6 reports** `module6-reports/app` | `generated_reports`, `report_checksums`, audit rows, objects in S3 | request, background task (gate, fetch, render, upload, persist), status, download | PostgreSQL (with M4's RLS), S3 |
| **M1 auth** `module1-auth/app` | accounts in `users`, OAuth states and blocklist in Redis, rate-limit windows, a connection pool | login, callback, refresh, logout; provision, change a role, deactivate; m2m tokens, directory | Cognito, Redis, PostgreSQL (with M4's audit log) |
| Terraform, Docker, scripts, tests | – | declarative or one-shot | – |

What is hard in each, and what makes it correct:

* **M2.** One worker, five services, any of which may fail between two others.
  Only an exception leaves a mail unread; everything else marks it read. So:
  a mail is marked read only for a reason, an event is repeated only after a
  fault, its objects are what its hashes say, no infected mail becomes an event,
  and mails that stay unread do not starve the others, unless they end every batch.
* **M3 worker.** At-least-once delivery to a group of workers, a marker written
  after the publication, a commit that gives up on exceptions. So: the offset
  passes nothing unhandled, the marker means a paper went out, papers are
  repeated only after a fault, an active member is blocked only after as many
  failures as there are attempts, and every event is handled.
* **M3 cascade.** Ranges and thresholds: the cap, what may be saved without
  review, which rule wins.
* **M4 consumer.** Retries inside redelivery inside rebalances, two checks of
  different strength, the second under row level security, one commit for all
  partitions. So: what is marked is stored and what is committed stored or given up,
  a key is stored no more often than there are processes and rows the policy hid
  from them, and every message is settled.
* **M6.** A background task that outlives its request, reads data others are
  changing through row level security, and writes to two stores. So: the gate
  is not blinded, a completed report has its file and checksum, every report ends.
* **M4 API.** Transactions that lock rows, wait for each other and look again,
  under a policy that may have turned against them meanwhile, with triggers that
  write the history and the audit log in the same transaction, and a rollback at
  any point. So: a paper's versions are all its states and no others, every one
  of them has its audit row, nobody's DRAFT is changed by somebody else, and
  writers that race leave no more rows of a key than there are of them.
* **M5.** Several statements with a snapshot each, compute-then-cache against an
  invalidation that scans two prefixes one after the other, entries shared by the
  users of a department. So: what is left after a sweep is fresh, what is answered
  is no older than its TTL, answers stay within a department, three counts of one
  snapshot agree, and the fused ranking undoes neither of its inputs.
* **M3 to M4.** The producer and the consumer of an event disagree about what may
  be null. So: what is published is complete, and a validated paper is lost for two known reasons only.
* **M1.** Tokens that carry a role read before they were signed, a blocklist whose
  keys expire, changes of accounts that commit after their response and after their
  audit row, on a second connection of the same pool. So: a role outlives the
  account's by no more than a token's life, a logout is final, the audit rows replay
  to the accounts, and whoever waits for a row or a connection is answered, unless
  writers hold the whole pool.

`PROJECT.json` lists all hazards at their lines, with the properties about them.

## 2. Modules

| Module | What it is |
|---|---|
| `StorageConsumer` | M4's consumer group |
| `PaperIntake` | what M4 and M3 promise: only an offered key makes a row (M4) or a paper (M3), at most `Copies` times and once more for every row withdrawn from their sight, and it stays |
| `StorageConsumerProofs` | theorems about `StorageConsumer` |
| `IngestionWorker` | M2's worker |
| `ExtractionWorker` | M3's workers over one partition of `ingest.raw` |
| `ExtractionCascade` | what M3 finds, scores and decides for one event |
| `PaperJourney` | extends it to the row M4 makes of the event, or does not |
| `ReportGeneration` | M6's requests and background tasks |
| `AuthSession` | M1's logins, tokens, logouts and accounts |
| `PaperStore` | M4's tables, policy and triggers, and the transactions that write them |
| `SearchCache` | M5's searches, its cache and the listener that empties it |
| `Portal` | `PaperStore` and `SearchCache` together: what users read while others write |
| `...Proofs` | the theorems about `StorageConsumer`, `IngestionWorker`, `ExtractionWorker`, `ExtractionCascade` with `PaperJourney`, `PaperStore`, `Portal`, `ReportGeneration` and `AuthSession` |
| `MC*` | instances for TLC |

Operators at the top of a module's actions whose comment starts with "Mutant:" are
plausible bugs in the action below them. They are no part of the specification;
each makes one property fail when it takes the place of the action, which shows
that the property depends on that line of the code.

### StorageConsumer

`rows`, `processed`, `committed`, `log` are PostgreSQL, Redis and Kafka; `pc`,
`cur` and `attempt` are the program counter of every process inside
`_process_message`. `Dedup`, `Fence`, `Store`, `Mark` and `Ack` are the calls of
the function in order, one action each because other processes run between them;
`Raise` is any exception and tenacity's decision to start the function again.
`Store` includes the case where the database commits but the reply is lost.
`Ack` commits the positions of all assigned partitions, as `commit()` without an
argument does, and only while the process still owns them. `Rebalance` needs the
new owner to be in `poll()`; a process that lost its partition goes on with
its message. A message is storable or something the parser or the row's
construction rejects.

A message has a key and a department, because the fence looks for rows under the
policy `dept_scoped_paper_access`: the consumer takes the identity of the user
"kafka-consumer" in the department of its message, and sees neither rows of other
departments (a faculty member may have moved when a mail is processed again) nor any
DRAFT. `rows`, `drafts` and `drafted` are therefore counted for every pair of the two
(`Slots`): the rows, those that are a DRAFT now and those that have been one. `Withdraw`
and `Restore` are PATCH /papers; each row that is made a DRAFT counts as a fault. `Seen`
is what `Fence` finds. The rows that have been a DRAFT are `withdrawn` in
`PaperIntake`: each may have let one more in (`RowsBounded`), however few
consumers there are: the marker of the key expires, a message of the key is
published again, and the fence does not see the row that is there.

### IngestionWorker

The worker is one process, so its state is one program counter with a position in
the batch and in the attachments of the mail at hand. What varies between mails
is a record: Message-ID, thread, files with a kind (clean, infected, oversize, or of
the very bytes of the body), the form of the From header and a flaw.
`IdemKey` is what the code hashes. `ObjectKey` is the date of the upload (`day`, which
`Midnight` moves on), the first eight digits of that hash and the file name: `Prefix`
is any function from idempotency keys to eight digits, so that two mails may have the
same. `infos` is the list of attachments of the event under construction, and
`events` keeps those of every event that was built. Every service call has a
failing alternative that costs a fault. `FileRaises` costs none: S3 refuses some files
whenever they are uploaded (`Refuses`: metadata that are not ASCII, a key that is too
long), the exception ends the batch, and the mail is fetched again by the next poll.
`Deliver` and `DeliveryFails` are librdkafka at work on what `flush` left in the buffer.

### ExtractionWorker, ExtractionCascade

An event is a key and a form that says how far it gets: rejected by the schema,
tampered with, failing in the cascade, without attachments, a paper. `context`
and `topic` are the locals of `process_message` that later steps use.
`Raise` and `Ack` together are the except branch, which commits as well.
`papers` counts the papers of a key that were handed to a producer: a history
variable, from which the marker and the number of papers are judged. It is also the
`rows` of `PaperIntake`, which the workers implement with a copy of every key and one
more for every fault: `ImplementsIntake`.
`ExtractionCascade` opens the step `Extract`: `Regex`, `CrossRef`, `Nlp`, `Llm`
and `Route` have as parameter the fields a tier finds. Scores are integers: the code
rounds to four digits, so hundredths and ten-thousandths lose nothing.

### PaperJourney

The cascade's steps with, for every field a tier finds, whether its value is one
`PaperCreate` takes: a tier that takes years from 1950 may hand on one from before 2000,
CrossRef's and the language model's values are handed on as they are. One unfit
value stands for any number of them. `Store` and `Abandon` are `_build_paper_create` and `PaperCreate`
at the end; `ContextAccepted` and `MetadataAccepted` say what they raise at. A
`dict.get` with a default does not replace a null, so a `not_found` event, which
carries null for the department and the e-mail, is never stored, although its
all-zero faculty_id would be.

### PaperStore

A handler is one transaction: `Create` is the lookup and the INSERT (which blocks
nobody and is seen by nobody before its commit, so the two make one step),
`Update` and `Resolve` find their row, lock it and write, or wait in `LockRow`
for the transaction that holds it and then evaluate the policy again on what that one
committed, as PostgreSQL does under READ COMMITTED. `CommitPaper` makes the row, its
version and its audit entry visible at once, `Rollback` none of them, whether the
handler, the connection or the process failed. The version trigger takes the
number after the largest committed one. The consumer writes as the user
"system" with the department of its event. The role the service connects as is
bound by the policies, as FORCE ROW LEVEL SECURITY has it. Admins are recorded as
`system`. With the pinned FastAPI a response precedes the commit of its
transaction; nothing here is about what a client was told.

### SearchCache and Portal

A request asks, runs one statement after the other (each with its own snapshot,
`snaps`), and stores. `CacheKey` has the department and the query, as in
`make_search_cache_key`; neither the role nor the user. `Tick` moves the clock
and drops expired entries. The listener takes a message, scans
`search:*`, then `facets:*`, deleting as it goes (`todo` is what its SCAN still
has to return; entries stored meanwhile may or may not be met), and may lose its
connection, with the messages published until it is back. Messages come from
outside: no code of M4 publishes on `search_invalidate`. `Pages` is the fusion:
exact sums of 1/(k + rank) as fractions, ties in any order, cut to the limit. Every page is the
first one, because the offset is 0 whatever the cursor is
(`search_service.py:121-134`). `Portal` lets both modules take their steps in any
order; M5 only reads M4's rows.

### ReportGeneration

A report's task is a program counter with the sessions' RLS context (`rls`), a
row as the committed database has it, and the object its upload wrote.
`commitFirst` says whether the request's session commits before the task runs:
the code's comments assume so, the pinned FastAPI does the opposite, and the
runs look at both. The environment stores, edits and resolves between any two
statements. `blocking` and `open` are history: papers that stood against the
gate during all of the task so far, as its requester sees them and as they are.
M3 calls the severity of its issues "warning" where its event leaves it out
(`consumer.py:172`), and the gate counts errors (`report_service.py:97`): issues
it counts come from elsewhere.

### AuthSession

`req` is what each request under way has done so far: its stage is the await it
stands at. A login goes through `Callback`, `DeleteState`, `Exchange`, `Lookup` and
`Issue`; a request with a token through `Check` (the blocklist) and `Verify` (expiry
and role, at a later moment), and then `Block` and `Revoke`, or `OpenSession`,
`Statement`, `Audit` and `Commit`. `Fail` is any error at any of them; it rolls a
transaction back and leaves an audit row that was written. A row that a
transaction has changed is `Locked`: its change is seen by nobody before `Commit`,
and `Statement` of another waits, or gives up by `LockTimeout`. `Connected` requests
hold a connection of the pool; `Audit` takes one more for a moment.

Both callbacks of a login may pass the check of its state before either deletes it
(`auth.py:92-94`); Cognito takes the code once. A change that hits no row is audited
all the same (`users.py:97`, `users.py:123`), and so is one whose commit then fails;
`tainted` accounts are those whose rows tell such a thing, or that lack one. `ended`,
`trail`, `late` and `at` are history. A token records when its account was `read`.

## 3. Runs

Bounds are as small as lets every case the properties are about happen.

| Run | Question | Instance |
|---|---|---|
| `storage_group` | does anything get marked unstored or committed undecided, how often is a key stored; do the consumers implement the intake; is every message settled | 2 consumers, 2 partitions, 2 keys in a department, 2 attempts, 2 messages, 1 fault (a row made a DRAFT is one), fairness |
| `storage_redelivery` | is a failed message redelivered (comment at `consumer.py:290`) | violated |
| `ingestion` | four invariants of M2 | 2 mails out of 10 contents, 2 days, 2 keys of one prefix, batch of 2, 2 attempts, 2 faults |
| `ingestion_live` | is every mail handled | 3 mails, batch of 2, 1 fault, fairness |
| `ingestion_lost` | is an event ever lost (docstring at `kafka_producer.py:143`) | violated |
| `extraction_worker` | four invariants and progress of M3; do the workers implement the intake | 2 workers, 2 keys, 2 events out of 3, 2 attempts of every call, 2 faults, fairness |
| `extraction_cascade` | cap, completeness, precedence; what becomes of a paper in M4 | all findings of all tiers, one unfit value, with and without a department, at the configured thresholds |
| `report` | four invariants and progress of M6; is the gate blind to anything for an admin | 2 reports, 1 paper, 2 kinds of request, 2 edits, 1 fault, both orders of commit |
| `portal` | are history and audit complete, drafts kept; are answers fresh, separated, consistent and well ranked | 2 writing transactions, 3 papers, 2 keys, 2 departments, 5 users, 2 requests under way; seven budgets (below) |
| `auth` | do roles end with the account's, logouts last, audit rows tell the order; is every request answered | 2 requests under way out of 4, 2 accounts of different departments, 2 logins, 2 tokens, a pool of 2, any failures; three budgets (below), fairness |
| `report_stuck` | does a report ever stay PENDING (docstring of `run_generation`) | violated |
| `report_draft` | does the gate see all drafts (docstring of the gate) | violated |

Why the bounds suffice. Two consumers or workers are enough for every race on a
partition, since it has at most one owner and the others have all lost it in the
same way. Two keys let a marker or a commit of one cover the other. Two attempts
have a first, a last and one that is followed by another. Two faults allow a fault
in the recovery from a fault; where a run has one, every call may still fail on its
own and only crashes, rebalances and hidden rows count. Three mails with a batch of two
allow one to be crowded out. One department is enough for the counts of M4, since rows
of two departments never meet; the markers, which do, are by key, and the theorems hold
for any departments. Three rows of a key, one of them hidden, happen with two consumers
and one fault: the exception of `RowsBounded` is not idle. Two days let an upload be
repeated under another key, and two prefixes for more keys than that let mails collide
and not. The mails of `ingestion` are interchangeable (`MCSymmetry`): each may have every
content. The properties that count (`DuplicatesNeedFaults`,
`PapersNeedFaults`, `RowsBounded`) compare two counters, so that the bound does not
decide them. All counters that are bounded are named `Max...` in the CONSTANTS.

`portal` has seven budgets instead of one bound, each a mix of writes, requests of every
kind, seconds, messages and failures in which one hazard can happen: three
writers alone (a third waits for two, and finds what they left); two writers
beside a hybrid request, and beside one for facets (a commit between any two
statements); two readers of different modes; two requests of one key with the
clock; two for facets with a clock that outlives their TTL; two requests with a
sweep and a lost connection. All mixes at once would not be a new case, only
more of them. The page has one paper and the pool three, so that both cuts bite.

`auth` has three: four changes, two of them at a time, by an admin who may lose the
role meanwhile; the tokens of two logins, a head of department's
included, who changes what the policy lets them see; and one login with a clock that
runs past the life of its tokens, which last two units, as a logout and a deactivation
overtake them. A pool of two and two requests is the least where writers can hold all
connections (`Wedged`, which the run reaches), as 20 writers can with `max_size=20`.

The four violated runs each show what a comment of the code denies:

* `FailedStaysUncommitted`: a message given up by the retry is passed over by the
  commit of the next one and never redelivered.
* `NeverSilentlyDropped`: `flush` returns with the event still buffered, the mail
  is marked processed and read, and the broker or a crash takes the event.
* `NeverStuck`: the task updates a row its request has not committed yet.
* `NoUnfinishedPaper`: row level security hides other users' drafts from the gate.

`CHECK_DEADLOCK FALSE` is set for the cascade (an event is done), the reports
(all tasks done, all edits made), the portal and the sessions (budgets used up): they
really stop.

## 4. Fairness

* M4, M3: weak fairness of a process's own steps, because `run_consumer` and
  `run_worker_loop` are `while True` loops in a process of their own whose calls
  have timeouts; and of assigning a partition that has no owner, because the
  group coordinator does that for any member that polls. Nothing says that a
  fault ever happens, or that a crash is not followed by another; faults are bounded instead.
* M2: weak fairness of the worker's loop. Not of new mails or deliveries. `EventuallyHandled`
  has two exceptions, both of the code: a mail behind a whole batch of mails that stay
  unread (`Leftover`), and one behind a newer mail that raises at every try (`Raises`),
  which ends every batch when its turn comes.
* M6: weak fairness of every task: Starlette awaits background tasks.

* M1: strong fairness of every request's own steps: the event loop runs what can
  run, asyncpg's pool serves those who wait for a connection in turn, and a statement
  that waits for a row ends by `command_timeout`. A wait for a connection ends by
  nothing else: `acquire()` is called without a timeout.

Nowhere else is strong fairness assumed, and none of the environment's choices is fair.

## 5. Theorems

The proofs hold for every value of the constants that satisfies the named ASSUMEs
of the module, which TLC evaluates in every run of it. The ASSUMEs say that bounds
are numbers, that inputs are records of the right form, that the values for
"nobody" and NULL are none of the others, and, where rows or papers are counted,
that consumers (`ConsumersAssumption`), workers (`WorkersAssumption`), connections
(`StoreAssumption`) or requests (`RequestsAssumption`) are finitely many. Every safety
invariant and both refinements of the passing runs have a theorem; type invariants are
proved and not run, since what they say has a proof that covers every instance.

Each proof module has an invariant, `IndInv` (`StoreInv`, `SearchInv`), that
adds to the properties what makes them inductive, lemmas on what a helper does, and
one case per action.

### StorageConsumerProofs

* `TypeCorrectness`, `MarkerSoundness`, `CommitSoundness`: `[]TypeOK`,
  `[]MarkerImpliesStored`, `[]CommittedSettled`.
* `RowBound`: `[]RowsBounded`. This needs most of the strengthening: a key's rows in a
  department that have never been a DRAFT plus the processes that have passed the fence
  and not yet stored it are never more than the consumers, because a process passes the
  fence only when it sees no row, so that every row is a DRAFT or has been one, and
  holds one message.
* `Refinement`: `Spec => Intake!Spec`, where a key may be stored as often as there are
  consumers, and once more for every row that has been hidden from them. Only `Store`
  maps to `Accept`, only a storable `Publish` to `Offer`, only the `Withdraw` of a row
  that has not been a DRAFT before to `Withdraw`, every other step stutters.

The invariant: a busy process holds a message
that exists (`WorkInv`); a message at `mark` or `ack` has its row (`StageInv`);
offsets lie within the log (`PositionInv`); the rows that are a DRAFT have been one
(`DraftInv`); and what has been delivered to the
present owner of a partition is settled or is the message it holds
(`DeliveredInv`). From these also follow the safety parts of `EventuallySettled`:

* `DeliverySoundness` (`[]NothingForgotten`): a message that is not settled is in
  the hand of its partition's owner or beyond where delivery goes on.
* `StallFreedom` (`[]NothingStalls`): so its partition has an owner with a step to
  take, or none and the coordinator one to assign.
* `WorkTermination` (`[][WorkEnds]_vars`): `Remaining`, five stages for every
  attempt that is left, goes down with every step of the process and up with nobody's.

Without `StageInv` a marker could be written for a row that is
not there; without `DeliveredInv` the commit of all positions could pass a message
nobody has looked at.

### IngestionWorkerProofs

`TypeCorrectness`, `ReadSoundness` (`ReadIsJustified`), `DeduplicationSoundness`
(`DuplicatesNeedFaults`), `StorageSoundness` (`EventFilesStored`), `ScanSoundness`
(`InfectedNeverSent`), for any mailbox.

Where a mail can be (`PlaceInv`): a mail at hand is not waiting in the batch as
well. `CountInv` carries the deduplication: a mail that the worker may still
publish without a further fault (unread, in the batch, at hand before the
publication) has an event less than it may have, so that the publication is paid
for. `FilesInv` follows the loop over the attachments: those it has passed are too large
or in `infos` (`Complete`), every info is of a clean file and names the object that
upload made, which has its bytes as long as no other file may go there (`Sound`, which
every later upload of whatever mail and day preserves), and a mail that comes to be
published has nothing infected (`Unharmed`). An event takes over what `infos` has then.
`ReadInv`: a key in Redis is that of a mail whose event reached the producer.

Three theorems are the safety parts of `EventuallyHandled`. `FetchCoverage`: a poll
fetches every mail in front of which there are only unread mails that stay so whatever
happens (`Leftover`), fewer than a batch has room for; it counts sets, which takes
`ArrivalInv` (finitely many mails have arrived, each once). `UnreadSoundness`: a mail
is left unread only if it is one of these, or by a fault of the very step.
`BatchTermination`: every step of the worker shortens the batch or, in the same batch,
what remains of the mail at hand (files, attempts, stages).

### ExtractionWorkerProofs

`TypeCorrectness`, `CommitSoundness` (`CommittedHandled`), `MarkerSoundness`
(`MarkedMeansPublished`), `RoutingSoundness` (`BlockedOrActive`),
`DeduplicationSoundness` (`PapersNeedFaults`), for any number of workers.

`HandledInv` is the argument about offsets: everything the partition's present owner has been
given is handled, but for the event it has at hand, which is the last one
(`OffsetInv`), so that its commit passes nothing; a worker that has lost the
partition commits nothing. `RoutingInv` counts attempts against faults.
`CountInv` is the argument about duplicates: the papers of a key, plus the workers
that have lost the partition and may still publish one (`Stale`), plus one if the
owner may (`Due`: the key has no marker, or its check has been passed) are at most
one more than the faults. A paper of the owner uses up `Due`, one of a stale
worker its own place in `Stale`; a rebalance adds one place and costs a fault; and
only a fault makes `Due` one again.

`Refinement` (`ImplementsIntake`): `Publish` maps to `Accept`, an `Ingest` of a sound
event to `Offer`, all else stutters. That the key was offered takes `FormInv` (an event
at a stage has passed the checks before it), that there is room for the paper is
`PapersNeedFaults` after the step. `DeliverySoundness`, `StallFreedom` and
`WorkTermination` say of this group what they say of M4's; the measure `Left` has the
attempts of the directory and of the producer in it.

### ExtractionCascadeProofs

For any thresholds and any cap of tier 4:

* `TypeCorrectness`: scores stay within 0 and 1.
* `CapSoundness`: a score with a part of the language model is at most 0.90. It
  does not depend on the setting `llm_confidence_cap`.
* `BlockSoundness`: BLOCK wins, and AUTO_SAVE takes the absence of every reason
  against it.
* `AutoSaveSoundness`: for every routing threshold above 0.70, what is saved
  without review has a title, authors and a venue or year. 0.70 is where it stops
  being true, and 0.75 is the setting; the theorem says how far it may be lowered.

Their invariant: a dimension has points only for a field that was found; a
score above 0.70 (0.60) takes points for title and venue (for authors), which the
cap preserves because it only applies above 0.90; tier 4 is the last tier.

`JourneyRefinement` (`JourneySpec => Spec`) carries these over to the journey of a
paper, for which, with thresholds above 0.70, `PublishedSoundness` (`PublishedIsReal`)
and `LossSoundness` (`ValidatedLostForYear`) follow with what `PaperCreate` accepts (`OutcomeInv`).

### PaperStoreProofs and PortalProofs

For any transactions, papers, keys, users, patches, readers, queries, limits and
TTLs: `HistorySoundness` (`HistoryComplete`), `AuditSoundness` (`AuditMatches`),
`DraftSafety` (`DraftsKept`), `KeyBound` (`RowsPerKeyBounded`) about `StoreSpec`;
`StoreRefinement` (`Spec => StoreSpec`), which makes them theorems of the portal;
`TypeCorrectness`, `SweepSoundness` (`SweptIsFresh`), `AnswerRecency`
(`AnswersRecent`), `DepartmentSeparation` (`AnswersOfDepartment`), `FacetSoundness`
(`FacetsAgree`) and `FusionSoundness` (`FusionKeepsOrder`) about the portal.

`StoreInv`: a transaction that has written holds the version that comes next,
starting from the row as it is committed (`VersionNext`), because a paper has one
writer at a time (`OneWriter`), and it was allowed to (`VersionLawful`). `KeyInv`
counts, for a key and a department, the rows its writers can see and the
transactions about to add one: a transaction only adds one when there is none.
`SearchInv`: every request, entry and answer is no older than its beginning
(`Recent`), none that began after a sweep did has a snapshot from before it
(`SnapsFrom`), and what the sweep has passed (`Swept`) satisfies this already; a
paper never changes its department.

`ReadInv` is about what the statements of a request have read: a request that has one
snapshot only has seen the papers as they are, until `commits` has counted a change of
theirs, so that its counts are of one state, and so is the entry it stores. The fusion
needs no induction over the lists. A list has no paper twice, so that its positions are an
injection into the papers it ranks, and an injection between finite sets of one size is
onto (`FS_Injection`): a permutation misses nobody. That of two papers
the one ahead in one list and not behind in the other has the larger sum is shown by
multiplying out fractions whose denominators are positive.

### ReportGenerationProofs

`TypeCorrectness`, `BackingSoundness` (`CompletedIsBacked`), `VerifiableSoundness`
(`VerifiableUnlessSameSecond`), `GateSoundness` (`GateHeld`), `AdminGateSoundness`
(`AdminGateHeld`), `OutcomeSoundness` (`[]Outcome`), `TaskProgress`
(`[][TasksAdvance]_vars`), for any reports and both orders of commit and task. `UploadInv` follows an upload until the row says
COMPLETED: the object under its key is its own or a rival's of the same second.
`GateInv`: between the two counts of the gate what blocks it is still visible,
which takes the context of row level security (`ProgressInv`). `OpenInv`: to an admin
what blocks the gate is all there is, so that only the visibility of drafts separates the
gate from its docstring (the run `report_draft`).

`Outcome` says where reports end. With the commit first, a task that is over has left
COMPLETED or FAILED, or something failed; with the commit after it, the row is
PENDING whatever the task did: what `report_stuck` shows once is so in every
behaviour. `TaskProgress`: no task takes a stage twice.

### AuthSessionProofs

`TypeCorrectness`, `AuthoritySoundness` (`AuthorityBounded`), `LogoutSoundness`
(`LogoutSticks`), `TrailSoundness` (`TrailInOrder`), for any accounts, logins,
requests, lives of tokens and sizes of the pool.

`AuthorityInv`: what a request that is about to sign a token read, and what a token
says, was `Held` by the account at that moment or after it, and the token expires no
later than its life and the end of one transaction after the read (`CallTimeout`: the
COMMIT and the pool's reset of the connection, each within `command_timeout`). `LogoutInv`: a key of the
blocklist outlives its token, so that a request that found it gone finds the token
expired. `TrailInv`: a row is held by one transaction, and the trail of an account is
level with its row, or ahead of it by the change that is committing (`TrailOf`), so
that the second change starts from what the first one left.

Where requests can stand is proved as well. `StandstillSoundness`: when none can take a
step without a timeout, no connection is free, one at least waits for its audit row's
connection, and every other one that has a connection waits for a row which such a request
holds. `ProgressSoundness`: a request under way can go on, waits for a row (which
times out), or waits for a connection of one that goes on, unless all connections wait
for one more (`Wedged`). `PoolSoundness`: the requests hold no more connections
than there are. `RequestProgress`: five steps of its own at most answer a request.

## 6. Only model-checked

Liveness: `EventuallySettled`, M2's and M3's `EventuallyHandled`, `EventuallyFinal`,
`AnsweredUnlessWedged`. Of each, section 5 has what is safety: that something can be
done as long as something is due, and that what is done brings the end nearer. What
remains for TLC is the step from there to "in the end": that fair actions whose
guard holds are taken (the prover has no ENABLED), and that finitely many faults and
rebalances leave a time after which nobody starts over (induction over a measure).

## 7. Plan

1. `Pipeline`: M2, M3 and M4 over the topics, implementing end to end "a mail
   becomes at most one paper, or is turned away, or is lost by a fault". Its two
   joints are there: the topics in `ExtractionWorker` and `StorageConsumer`, the
   contents of an event in `PaperJourney`.
2. The reads of M4 and the suggestions of M5, with pagination.

## 8. Not modelled

* PDF layout, prompts, regular expressions, HTTP routing, PII redaction and audit
  rows: wording and layout, on which no property depends. What a pattern or a model
  finds in a text is an input.
* M1's rate limiter (one MULTI/EXEC on a key per address and path), the tokens of
  services (a signature after a check of a secret) and the directory (a read, which
  `ExtractionWorker` has as an external service that fails or answers). M5 and M6 do
  not ask M1's blocklist: to them a token that was logged out is good until it expires.
* The domain check of logins, audit rows about logins and logouts, and what a logout
  does not reach: the other access tokens of a login.
* Reads that change nothing: M1's `GET /me` beyond its checks and `GET /users`, M4's
  list, export, audit and full-text endpoints, M5's suggestions, total counts and
  highlights.
* The vectors of embeddings: which paper has one, of which title, is modelled; what
  is similar is PostgreSQL's.
* Terraform, Docker, scripts and tests.
* Loss of what Redis keeps, for M1: `LogoutSticks` assumes that a key of the blocklist
  lasts for its TTL, because nothing else remembers a logout. M2, M3 and M4 lose
  their markers at any moment.
* Clocks, but for the second and the day in object keys, M5's TTLs and the lives of M1's tokens:
  elsewhere a TTL may run out at any moment.
* Partitions of `ingest.raw` beyond one: a key always has the same partition, and
  partitions share nothing but workers.
