# Formal models of the land record digitization backend

TLA+ specifications of this repository, the TLC configurations that check them on small instances,
and machine-checked proofs (TLAPS) of what holds for every instance. The specifications are
translated from the Python source; `PROJECT.json` names, for each definition, the lines it models.

    tlc -workers 2 -config WorkerRunner.cfg MCWorkerRunner    # check one run
    tlapm WorkerRunnerProofs.tla                              # check the proofs

## 1. The system

Scanned documents enter over HTTP or a watched folder, are split into pages, pinned to model
versions, extracted, validated and scored by other services, and come back to the backend for a
decision on each field, human review, conflict handling and publication. Stages talk over queues. A
stage never publishes directly: it writes an outbox row in its own database transaction and a relay
publishes it later. Each worker handles a message, commits, and only then acknowledges it.
Everything that matters is appended to a hash-chained audit log in the same transaction.

    handler txn --> outbox_message --> Relay --> stream --> WorkerRunner --> handler txn --> ...
         \--> audit_entry (chain.append)                        \--> <QUEUE>.DLQ + audit_entry

Hardly any transaction takes a lock before it reads: the code runs at READ COMMITTED and relies on a
few unique constraints. So the question asked of almost every component is what is left of its
promise when two of its transactions overlap, and the answer is mostly of the form "this holds,
unless two of them worked on the same row at once".

| Component | State | Operations | Interacts with | Hard behaviour | Correct when |
|---|---|---|---|---|---|
| Worker runner, Redis driver (`workers/runner.py`, `landqueue`) | stream, group position, pending list, delivery counts; batch and stop flag per process | consume, handle+commit, ack, dead-letter, stop, restart | every handler, the broker, the audit log | kills and lost answers between commit and ack; retries by count; renamed consumers; half-finished dead-lettering | nothing leaves the group unhandled and unaccounted for; retries are bounded; a poison message does not block the queue |
| Outbox and relay (`landoutbox`, `RelayRunner`) | `outbox_message` rows, row locks, the stream | write, drain_once (select, publish, mark) | writers' transactions, the broker | concurrent relays; failure between publish and commit; rows that commit out of order | only committed rows are announced, each at least once, and twice only after a failure |
| Audit chain (`landaudit`) | `audit_entry` per shard, `chain_root`, the witness's store | append, perform_roll, verify_shard, verify_against_anchor, bound_tamper_window | every transaction | overlapping appends, rollbacks, deadlocks over shards, clocks, a roll that fails half way | an untampered log verifies; recorded heads stay part of it |
| Decision engine (`workers/decision_engine.py`, `domain/decision.py`, `domain/page_lifecycle.py`) | `decision_record`, review tasks, samples, conflicts, `operational_alert`, `page.processed` entries | handle, route and its five branches, mark_processed_if_terminal | Model Work (which writes `routing_outcome`), the runner, the audit log | redelivery to two workers at once; a field scored again meanwhile; read-modify-write of alerts | exactly one outcome per field, for good |
| Ingestion and page split (`domain/ingest.py`, `domain/page_split.py`, two workers) | `source_document`, `batch`, `page`, two object stores, the drop folder | create_document, scan of the folder, split | storage, triage queue | two uploads or deliveries at once; failure between store, second store and commit; a metadata file written after the file, and unlinked before the try | no row without its bytes; one document per digest and one split per document, unless two tries overlapped |
| Triage and work envelope (`domain/triage.py`, `landenvelope/pin.py`) | `work_envelope` (unique per page), outbox rows | route_page, pin | model registry, lanes | replay, concurrent pins, a promotion in between | every lane of a page works with the one version pinned for it |
| Review, corrections, maker-checker | `review_task`, `correction`, `pending_correction`, `review_session`, `rescan_task` | claim, submit, skip, confirm, touch_session, assign, close | decision engine | two claims, submits or confirmations at once; a confirmer checked before he commits | one correction per task, and where the class asks for it, confirmed by somebody else |
| Conflicts and publication | `record` versions, `conflict`, `volume_index` | publish_new_version, gate, open, transition, rebuild, acknowledge | decision engine, completeness | a conflict opened or a volume rebuilt while the gate looks; two publishers | versions are numbered without gaps; none is published over a conflict reported on its predecessor, or over a gap of a batch of which none was acknowledged, unless that came up while its own request looked |
| Configuration service and client | config versions, the client's caches, change events | write, effective and pinned reads, events | every service | late events, a fetch under way at an invalidation, forward-dated versions | one lineage; a stale client is stale for a reason that passes |
| Cold start, routing policy, calibration, novelty (`modelwork`) | ramp state, calibrators, prototypes | transitions, determine_routing_outcome, training, evaluation | decision engine | order of the checks, empty strata, boundaries of bins | no auto-accept before the ramp allows it; no page on both sides of the split |
| Extraction (`services/extraction`) | none of its own | text lane, map lane, tables, owners, record assembly | queues, engines | boundaries, order of pages, failure of one engine | what stands on a page reaches the record, in its place |
| Access control, masking, unmasked reads, closed sets | tables | one-request reads, loaders | API, the audit log | a check, a read and two audit entries that must agree | every role sees at most its fields, and every unmasked read is in the log |
| JetStream and in-memory drivers, storage and fixity, unit tables, keys, OCR wrapper, validation stubs, migrations, dashboard | - | see section 7 | - | - | - |

`PROJECT.json` lists the components with their sources and status, and under "hazards" the places in
the code where order, failure, staleness or a boundary can do harm.

## 2. The modules

| Module | Models |
|---|---|
| `AtLeastOnce` | The abstract promise of one hop: a message is settled only once handled, or dead-lettered with its audit entry, and is never handled afterwards. |
| `WorkerRunner` | `WorkerRunner.run_once`, `_dead_letter`, `run_loop` and `stop` over the Redis Streams driver. |
| `OutboxRelay` | `landoutbox.write`, `Relay.drain_once`, `RelayRunner.run_loop`. |
| `AuditChain` | `landaudit.chain.append`, `rollup.perform_roll`, `witness`, `verify`. |
| `DecisionEngine` | `decision_engine.handle`, `decision.route`, `page_lifecycle.mark_processed_if_terminal`. |
| `Intake` | `create_document`, `ingest_document`, the drop folder's watcher, the split worker, `route_page`, `pin`. |
| `ReviewWorkflow` | `claim_next`, `submit`, `skip`, `confirm_pending_correction`, `record_verdict`, `touch_session`, rescan tasks. |
| `Publication` | `publish_new_version`, `publication_gate.evaluate`, `conflict_register`, `completeness`. |
| `ConfigService` | `write_config_version`, the effective read, `ConfigClient`'s cache and its subscriber. |
| `Calibration` | Model Work: ramp, routing outcome, novelty, features, partition, calibrators and calibration error. |
| `MapLane` | Strokes over entries, boundaries to parcels, survey labels, georeferencing. |
| `TextLane` | Region routes and the dispatch to engines, field names, owners, ruled tables, record assembly. |
| `RecordReads` | Permission matrix, masking, the routes that read records and provenance, unmasked reads, closed sets and their loaders. |
| `Algorithms` | The properties of the last four, over inputs judged one by one. |
| `MC...` | Values for the constants of each. |
| `...Proofs` | The theorems about the eight state machines. |

`WorkerRunner` and `OutboxRelay` are both shown to implement `AtLeastOnce`: the two hops of the
pipeline keep one promise. `DecisionEngine`, which claims safety only, takes no more than that
promise: a message may come again, to any worker, at any time. `Intake` claims that documents arrive
and so needs the queue as it is: an entry is pending for one consumer name, comes back to that name
only, and is dead-lettered at the limit. In each module the definitions marked as a faulty variant
or a mutant are not part of the specification. They are plausible bugs that show which property
would notice them.

### WorkerRunner

One queue and one consumer group. A message is the number of its stream entry. `owner` and
`deliveries` are Redis's pending entries list, `cursor` its last-delivered id; `pc[w]` is the place
of a process in `run_once`, `batch[w]` what is left of the list its `consume` returned. Each broker
command and each commit is one action, with a second one in which the call fails, with or without
effect; `Crash` strikes between any two. A handler is whatever commits once or raises. A restarted
process has the name it had, or a new one, according to `RestartKeeps`: `workers/run.py` builds it
from host name and pid, so a container whose process always has pid 1 and keeps its host name keeps
it, and any other restart does not. `committed`, `deadLetters`, `audits` and `attempts` count
effects; nothing reads them but the properties.

### OutboxRelay

A row is its position in `created_at` order; transactions commit in any order or not at all. `FOR
UPDATE SKIP LOCKED LIMIT n` is walked row by row over the snapshot of the statement: locked rows are
skipped, rows marked since the snapshot are dropped when looked at again. `published` counts the
rows published and marked in the open transaction; an exception anywhere rolls all marks back while
what was sent stays sent. `Down` is a kill or a stop signal: a signal is seen between two drains,
which is one of the states `Down` covers.

### AuditChain

An entry's hash is its number, since the hash covers the whole entry and the verification compares
hashes only. `append` is `Select` (the `FOR UPDATE` query), perhaps `waiting` and `Wake`, then
`Insert`; locks last until the caller's transaction ends. Under READ COMMITTED the waiter is given
the row it waited for, because that row was locked and not changed: PostgreSQL does not look for a
newer one. A shard without entries has no row to lock. `perform_roll` reads one head per shard, one
statement each, then calls the witness, then its caller commits. The roll is the one that anchors by
default (every roll, `anchor=True`), and rolls run one at a time. `contended` remembers on which
shards two transactions overlapped. `Late` names the writers whose host clock is behind.

### DecisionEngine

A field is an `Extraction` row. All rows of a page are there before any of them is scored. `Score`
stands for Model Work, which is not in this code base's backend: it writes `routing_outcome` and
sends a message, and may do so again. Messages stay in `queue`, so every message can be handled
again by any worker at any time, which includes the redeliveries of `WorkerRunner`. A worker's
transaction reads the field once (`Receive`; the session keeps the row) and compares the payload
with it: a message can contradict the row by its outcome or, once the field has been scored again,
by its confidence, whose value is abstracted (`PayloadVerdicts`). It then goes through the
statements of `route` in their order, keeping in `tx` what it will write, all of which becomes
visible with `Commit`. The unique index of `decision_record` and the row lock of an updated alert
make others wait. Rows of the five branches are counted in `made`. The locks of the audit chain are
left to `AuditChain`.

### Intake

A source is one file on its way in, by the API or by the drop folder; `at[s]` is its place in
custody and `DigestOf` its SHA-256, so two sources can be the same file. A dropped file may have its
metadata file from the start, get it later (`Describe`, at any time, as another program writes it)
or never. The poll does not wait: without it, or with one that is not whole, the file is rejected
(`Refuse`). `_ingest_one` unlinks the metadata file before it stores anything (`ReadSidecar`). The
primary put, the second copy, the look for a document of the digest and the commit are an action
each, and `Interrupted` strikes between any two: the file is sent again, or is found again in the
folder, where it is rejected if its metadata file has gone. `WellFormed` files have a supported type
and a district; only the API also asks for the unit table of the district (`Surveyed`).

A worker splits a document or triages a page: `StorePage` stores page by page before the one commit
that adds rows and announcements; `Resolve` asks the registry, `Pin` tries the insert in its
savepoint and waits for, or finds, the envelope of another. `inbox` counts the copies of a message
that are unread or pending. `Deliver` gives a worker a copy nobody has read, or, after a failure,
the one pending for it, and counts in `tries`; a failure at `MaxDeliveries` dead-letters it
(`Raised`), a message found pending with all its deliveries used up is given up (`GiveUp`). `Killed`
is a restart under the same name, which finds the entry pending, or under another, which leaves it
pending for nobody (`orphaned`). `Copied` is the relay, which publishes a message again that it
could not mark. A worker has one message at a time: batches, and the windows between a copy in the
dead letters, its audit entry and the acknowledgement, are in `WorkerRunner`. `splittable` says
which files can be walked; how they are walked is abstracted. `overlapped` is a history of the
digests and documents two transactions had in hand at once, `interrupted` of the sources a try at
which failed half way; nothing but the properties reads them.

### ReviewWorkflow

A request is a transaction in two steps: `Begin...` reads and decides, `Commit...` writes what it
decided from what it read, and other requests may commit between the two. Only `claim_next` locks
what it reads (`SKIP LOCKED`, and `ORDER BY opened_at`, where it takes the first unlocked one). A
correction is held when its field class asks for a checker and the edit is far enough (`far`: the
edit distance is a choice of the model). `sessions` are the officers' sessions, closed after a gap.
`overlapped` again names the rows, and the officers, two requests worked on at once.

### Publication

One batch with one volume index. A publishing request reads the latest version, then evaluates the
two checks of the gate one statement after the other, then inserts under `uq_record_group_version`,
which refuses a number that is taken. `Place` and `CommitRebuild` are a page that gets its index
position, or another one than it had, and the rebuild that follows in the same transaction;
`Acknowledge` and `CommitAcknowledge` an operator who accepts the gaps he was shown. Both read the
row first; a rebuild writes what it would change of it, an acknowledgement the state.

A conflict is on the record row that a counterparty's defect report names (`OpenConflict`), or on an
extraction, when the decision engine opens it (`OpenValidatorConflict`); the gate asks for the row
of the previous version only, so the second kind blocks nothing. `raced[r]` says what has moved,
"conflict" or "volume", since the request `r` began to look; `accepted` holds the gaps acknowledged
since the batch was last without one; `churned` is set for good when two transactions work on the
index at once.

### ConfigService

One scope and key. `FindHead` is the unlocked look for the newest version nothing supersedes,
`Write` the insert with its link and event, which fails on a second version for one moment. A client
keeps the answer of `Fetch` until `Store` puts it in the cache, with the time of its arrival;
`ApplyEvent` drops the entry but not an answer under way, and a forward-dated version comes into
effect by the passing of time, without an event. The pinned reads return rows nobody may edit and
are left out.

### Calibration, MapLane, TextLane, RecordReads, Algorithms

Pure functions, as operators: probabilities are whole numbers of `1/Scale`, an embedding has one
dimension, images are grids, a text is a name from a small set, and the answers of fitted models and
engines are inputs. `Algorithms` is a machine that takes one input of `Inputs`, judges it and stops.
Two parts have a state: the ramp of `cold_start.py`, which `Evidence` drives through its
transitions, and a database session, which runs loaders, other inserts, commits and rollbacks in any
order (`Run`) under the trigger of migration 0008. `InputsAssumption` says what an input can be,
from what the code refuses: a target strictly between 0 and 1 and a novelty threshold within them
(`calibrator.py:361`, `novelty.py:32`), a positive number of bins (`calibrator.py:410`), the routes
of a request, the provenances of an entry; and from what is being read: places on a page are pixels
from its corner, a token has a width, an extraction has an identifier of its own. Its
properties compare what an algorithm returns with a definition of the same thing made another way
(the strike test by geometry of boxes and lines, a label's parcel by the sides of a ring, the
calibration error by bounds on its sum, what was shown by what may be), never with the same formula
again. Where the code sorts and walks a list, the model names the order (`Before`, `Below`,
`Earlier`) and says with quantifiers what the walk finds, so that `TextLane` has no recursion;
`Total`, the sum of the calibration error, is a recursive function. Its specification is `CaseSpec`,
so that a proof module can extend it next to another one.

The service declares shapely and installs it, so `ValidRing` and `Holds` are what shapely answers: a
ring is valid if it is simple and has an area, a parcel holds a label that it contains or touches.
Their definitions here are one way to say so, by crossings of segments and by a ray; the properties
say it by the signs of areas and the sides of a convex ring. A boundary that is not said to be open
becomes a ring whatever its ends are, and the model keeps the ring: so `ParcelsAreDrawn` says which
edges of a parcel were drawn and which one was not.

## 3. The runs

| Run | Bounds | What it shows |
|---|---|---|
| `WorkerRunner` | 2 workers, 2 entries, batches of 2, 2 deliveries, 2 faults, names kept or new after a restart | A settled entry was handled or dead-lettered with audit (`SettledIsAccountedFor`); copies and audit entries match up to faults, and only exhausted messages have any (`DeadLettersAccounted`); a handler starts at most `max_deliveries` times (`AttemptBudget`); no entry is in two hands (`ExclusiveDelivery`); `ImplementsAtLeastOnce`; every message is settled in the end unless it is pending for a name given up (`EverySettledUnlessOrphaned`). |
| `OutboxRelay_drain` | 2 relays, 3 rows, batches of 2, 2 faults | No row in two batches (`BatchesDisjoint`), second copies only after failures (`CopiesNeedFaults`), `ImplementsAtLeastOnce`, `EveryRowDispatched`. |
| `AuditChain_overlap` | 2 writers, one with a late clock, 2 shards of which one has an entry, 4 entries, 2 rolls | A shard verifies unless it was contended or clocks disagree (`VerifiesUnlessContended`); no entry hangs on one rolled back (`PrevIsCommitted`); roots are anchored before they are recorded, keep their heads and extend each other (`WitnessedHistory`), with aborts and failed rolls. |
| `AuditChain_deadlocks` | 2 writers, one with a late clock, 2 shards with an entry each, 6 entries | `EveryTransactionEnds` although lock orders differ. |
| `AuditChain_fork` | 2 writers, 1 empty shard | Violates `NoTwoFromOnePrev` (finding). |
| `DecisionEngine_concurrent` | 2 workers, 2 fields of one page and cluster, 2 outcomes, each field scored up to twice | One outcome per field (`ExactlyOneOutcome`), for good (`DecisionsAreFinal`); alerts list decided fields of their cluster, each once (`AlertsListDecided`); `page.processed` has its scores and a decision of its own (`ProcessedIsBacked`). |
| `DecisionEngine_sequential` | 1 worker, 3 fields, 2 pages, 2 clusters, all 5 outcomes | What the comments promise and only a single worker keeps (`SequentialPromise`): one `page.processed` per page, one fresh alert per cluster, every outside field listed. |
| `Intake` | one file by API and by drop folder, with a metadata file from the start, later or never, 1 page, 2 workers, 2 deliveries, 1 promotion, 1 fault | No row without its bytes (`CustodyBeforeRow`); doubles need an overlap (`OnceUnlessOverlapped`); one pinned version (`OneVersionPerPage`, `PinnedForever`); a good dropped file is rejected only if it was polled before its metadata file was there or a try at that file failed half way (`GoodFilesLostHalfWay`); every document's pages are routed unless a message of it was orphaned or ran out of deliveries (`EveryDocumentRouted`). |
| `ReviewWorkflow` | 1 task that needs a checker and is an audit sample, 2 officers, 2 requests, 1 rescan task, clock to 2 | `TwoPairsOfEyes`, `ThroughThePool`, and nothing at the desk is done twice without an overlap (`OnceUnlessOverlapped`). |
| `Publication` | 1 group, 2 pages, 4 positions, 4 placements, 2 requests, 2 records, 1 conflict | `VersionsContiguous`; the index names the gaps there are unless two worked on it at once (`IndexNamesGapsUnlessRaced`); no request publishes over a conflict on its predecessor's row that was there when it began, nor over a gap of a batch of which none was acknowledged (`GateHoldsUnlessRaced`). |
| `ConfigService` | 2 writers, 1 client, clock to 3, 3 versions, 1 restart, TTL 2 | `OneLineageUnlessOverlapped`, `StaleHasAReason`. |
| `Algorithms` | the inputs of `MCAlgorithms`, `Scale` 4, thresholds 1/4 and 1, targets 1/4 and 1/2, sessions of 5 statements | `SteadyIsEarned`, `RoutedSafely`, `CalibratorIsSound`, `MapIsFaithful`, `LayoutIsKept`, `ReadingsReachTheRecord`, `ReadsAreLawful`. |

Why these bounds are enough to meet the interesting cases. Two processes and two faults allow a kill
of one process and a lost answer in another, or a fault during the recovery from a fault; a batch of
two leaves an entry behind the one in hand, so that a dropped batch, a fresh read and another
worker's read differ; a delivery limit of two separates the first, the last and (after a dropped
batch) an excess delivery. Three rows with batches of two do the same for the relay. Two shards are
what a deadlock and a mixed root need; four entries are two appends per writer or a chain of three
with an abort. Two fields of one page and one cluster are what the page and alert races need, three
fields over two pages and two clusters put a field of the same cluster on another page. One file by
two doors is the smallest double, and one fault gives it its second message or its second try. Two
deliveries are a retry and the limit: a document that cannot be split reaches the limit with no
fault, or has its worker killed on the way there. Two requests on one row are every race of the
desk; a clock of two is a session that ends. Two pages over four positions make a gap, a wider one,
and with four placements one that is acknowledged, closed by moving a page and opened again; two
records are a version and its successor, and the insert that uses the second number up first is the
rival's. Three versions are a chain with a fork in it, or a back-dated or forward-dated one between
two others. The inputs of `MCAlgorithms` put every comparison of the algorithms at, below and above
its boundary. Names that begin with `Max` are bounds of the models and not of the code, except
`MaxDeliveries`, which is the runner's limit.

Deadlock checking is off because every model stops when its bounded input is used up. Symmetry is
used over processes, officers and requests in runs without liveness properties only, and no property
names one of them.

## 4. Fairness

* `WorkerRunner`, `OutboxRelay`: weak fairness of each process's own steps. Both `run_loop`s catch
  every exception ("the loop must survive any handler/driver failure") and go on. Faults are
  bounded, so a call is answered in the end. Weak fairness of `Restart` is an assumption about
  operations: somebody has to start what stopped.
* `AuditChain`: weak fairness of `Insert` and `Commit` (the caller goes on), strong fairness of
  `Wake` (PostgreSQL serves the waiters of a row in turn, so one is not passed over for ever), weak
  fairness of `DeadlockAbort` (the deadlock detector). No fairness of `Abort`.
* `Intake`: weak fairness of `Custody(s)` (the folder is scanned again and again, a client that got
  an error sends its file again) and of `Handle(w)` (the workers' loops, which read their own
  pending entries before new ones). Faults are bounded. Nothing is assumed about promotions, nor
  that a metadata file is ever written. A worker killed is restarted, but under which name is open:
  if under another, its message is orphaned and `EveryDocumentRouted` promises nothing for it, as
  `EverySettledUnlessOrphaned` of `WorkerRunner` does not.
* The other modules claim no liveness and need no fairness.

## 5. What is proved

Everything here holds for all values of the constants that satisfy the named assumption of the
module: any number of processes, rows and faults, any batch size, limit or time to live. `Spec` has
no fairness in these theorems, so they hold of the fair specifications too. Each `...Proofs` module
also has `TypeCorrect`, `[]TypeOK`. None of the properties is inductive alone; each module's `IInv`
adds what the code relies on between two steps.

| Module | Theorem | States |
|---|---|---|
| `WorkerRunnerProofs` | `SettledAccounted` | `[]SettledIsAccountedFor` |
| | `DeadLettersAccount` | `[]DeadLettersAccounted` |
| | `AttemptsBounded` | `[]AttemptBudget` |
| | `DeliveryExclusive` | `[]ExclusiveDelivery` |
| | `RunnerImplementsAtLeastOnce` | `ImplementsAtLeastOnce` |
| `OutboxRelayProofs` | `OnlyCommitted` | `[]OnlyCommittedRowsPublished` |
| | `Disjoint` | `[]BatchesDisjoint` |
| | `DuplicatesNeedFaults` | `[]CopiesNeedFaults` |
| | `RelayImplementsAtLeastOnce` | `ImplementsAtLeastOnce` |
| `AuditChainProofs` | `ChainsToCommitted` | `[]PrevIsCommitted` |
| | `Verifies` | `[]VerifiesUnlessContended` |
| | `RootsAreWitnessed` | `[]WitnessedHistory` |
| `DecisionEngineProofs` | `OneOutcome` | `[]ExactlyOneOutcome` |
| | `Final` | `DecisionsAreFinal` |
| | `AlertsAreRight` | `[]AlertsListDecided` |
| | `ProcessedBacked` | `[]ProcessedIsBacked` |
| | `KeptWhenAlone` | `[]SequentialPromise`, if there is only one worker |
| | `SteadyEarned` | `[]SteadyIsEarned`, of `Algorithms` |
| | `SafelyRouted` | `[]RoutedSafely`, of `Algorithms` |
| `IntakeProofs` | `CustodyHolds` | `[]CustodyBeforeRow` |
| | `DoublesNeedOverlap` | `[]OnceUnlessOverlapped` |
| | `VersionsAgree`, `EnvelopesArePinned` | `[]OneVersionPerPage`, `PinnedForever` |
| | `GoodFilesAreKept` | `GoodFilesLostHalfWay` |
| | `ReadingsReach` | `[]ReadingsReachTheRecord`, of `Algorithms` |
| | `LayoutKept` | `[]LayoutIsKept`, of `Algorithms` |
| | `SoundCalibrator` | `[]CalibratorIsSound`, of `Algorithms` |
| | `StrikesAreFound` | `[]StrikeNeverMissed`, a part of `MapIsFaithful`, of `Algorithms` |
| | `LabelsNameOne` | for any distances, a label names at most one parcel and is in no other |
| `ReviewWorkflowProofs` | `TwoOfficers` | `[]TwoPairsOfEyes` |
| | `DeskDoesOnce` | `[]OnceUnlessOverlapped` |
| | `PoolOnly` | `ThroughThePool` |
| `PublicationProofs` | `VersionsAreContiguous` | `[]VersionsContiguous` |
| | `IndexNamesGaps` | `[]IndexNamesGapsUnlessRaced` |
| | `GateHolds` | `GateHoldsUnlessRaced` |
| | `ReadLawfully` | `[]ReadsAreLawful`, of `Algorithms` |
| `ConfigServiceProofs` | `LineageHolds` | `[]OneLineageUnlessOverlapped` |
| | `StalenessExplained` | `[]StaleHasAReason` |

### WorkerRunnerProofs

A process has a batch exactly while it is in the loop (`BatchInHand`); the batch is in stream order,
delivered, and pending for no other consumer (`BatchIsOwn`); two batches share nothing
(`BatchesDisjoint`); at the acknowledgement the handler has committed (`AckAfterCommit`); while the
audit entry is due the copy is one ahead (`AuditAfterCopy`); at the dead-letter acknowledgement
there is an audit entry (`DlqAckAfterAudit`). The retry limit needs `StartToSpare`: no message is
started more often than delivered, and strictly less often while it is in the batch unstarted. So a
start, which the check of `deliveries` allows only up to the limit, stays within it.
`BatchesDisjoint` rests on the names: a read for `w` returns entries pending for `w`'s name or
entries never delivered, and another worker's batch holds neither.

`DeadLettersAccounted` counts the workers that hold a copy without its audit entry, which a step
changes in a way no prover sees. `CopiesAccounted` says it without a count: as the batches share
nothing, a message is in hand with at most one worker, so there is at most one copy ahead of the
audit log and the failures. That only exhausted messages are given up is `DlqExhausted`, which
`_dead_letter` is entered with and which later deliveries, by which the count only grows, keep.

The refinement proof needs one thing more, `HeldIsPending`: an entry being handled is still pending,
so that a commit is never for a settled entry. A message in the batch is pending for its holder or
settled, and it is settled only by its holder, who then moves on. The only exception is an
acknowledgement that took effect but whose answer was lost, after which the message may be
dead-lettered but not handled; this is why `DeadLetter` in `AtLeastOnce` has no guard.

### OutboxRelayProofs

`IInv` says that a statement sees and locks committed rows only (`SnapshotCommitted`,
`LockedCommitted`), and that what is marked, for good or in an open transaction, is with the broker
(`MarkedIsSent`): the relay publishes before it marks, and the refinement needs exactly this, that a
row is settled only once it was handed on. For the duplicates, `CopiesAccounted` bounds the copies
of a row by the faults so far plus one if the row is marked, and the row about to be published is
not marked (`NextUnmarked`), since it is locked by one relay only and `SKIP LOCKED` re-checks
`dispatched_at`.

### AuditChainProofs

`LinkInv`: what an entry is chained to, and what a writer at its insert will chain to, is nothing,
committed, or of the same open transaction. A rollback takes the whole transaction, so no committed
entry loses what it hangs on; this gives `PrevIsCommitted` with no word about locks. `RollInv`:
every head a root names is committed, from the moment it is read, and a root is recorded only once
the witness holds it. For `VerifiesUnlessContended`, `ShardInv` describes a shard no two
transactions have touched: its open entries lie above the committed ones, and each entry is chained
to the last one below it that was not rolled back, provided the times below it are in order. A later
entry with an earlier time breaks the proviso and not the invariant, which is why the condition on
clocks stands inside it. That the newest of a non-empty set of entries exists is proved from the
well-foundedness of the natural numbers (`Smallest`).

`WitnessedHistory` ends in `RootsExtend`, which speaks of ancestors, the least set closed under
`prev`: no recursion, so it can be reasoned about (`AncestorsFacts`). An entry leads when all those
inserted before it have an earlier time (`Leads`). On a shard without overlaps the head that a roll
reads led when it came, and each later entry is chained to the newest one before it, which was never
inserted before an entry that led: a first later entry that does not descend from the head would be
chained to an earlier such entry (`LeadersAreAncestors`). `GrowthInv` adds that the heads of later
rolls never lie before those of earlier ones, whatever the clocks say.

### DecisionEngineProofs

`OneOutcome` and `Final` rest on `InsertIsExclusive`: a worker behind its insert into
`decision_record` works on a field that is still undecided, and no other worker is behind an insert
for it. The check `route` makes at its start is not part of the argument, only the unique index is.
For the alerts, a worker holds from `FindAlert` to `Commit` a list that others may have changed
meanwhile. `ListedBelongs` says why writing it back does no more than lose entries: what it lists is
decided, for that cluster, and in no other alert; and `ListedOnce` says that two workers holding one
field hold it for one alert, so neither moves it. `FiresWhenScored` carries what `ReadOutcomes` saw
to the commit: a field scored anew gets another outcome and never none. `ProcessedPerDecision` needs
the decided fields of a page to be finitely many, which is proved (`DecidedFinite`), not assumed.

`KeptWhenAlone` is about the comments of the code, which describe one worker. Under `Alone`, that
there is no second one, what a transaction has read is still so (`AllUpToDate`): the page has no
entry, the alert lists what it listed, and where none was found there is none. Then the appended
entry is the first, a new alert the only fresh one, and a field decided as outside is in its alert.
`DecisionEngine_sequential` checks an instance; with a second worker the promise fails, as section
6 tells, so the theorem needs its hypothesis.

The last part is about `Algorithms`. For `SteadyIsEarned`, `RampMoves` lists the five ways a stratum
can go, and `RampInv` adds that one still in the shadow never regressed. For `RoutedSafely`,
`AcceptedIfAcceptable` turns the decision around: a field is accepted exactly if no reason to do
otherwise holds. That a surer answer, one result less or the steady state never sends it to review
is then seen reason by reason, and `NoveltySays` relates the distance to the threshold.

### IntakeProofs

`IInv` has two halves that the steps of the one leave alone in the other. Custody: a source on its
way to its row has the copies it has passed (`StoredOnTheWay`), a source about to become a document
is none yet, and any other of its bytes that is one, or is about to be one, has overlapped with it
(`Inserting`); a file that waits without the metadata file it once had was taken by a try at this
very file that failed (`SidecarLostHalfWay`). Work: the pages a split has walked are
in the store (`StoredPages`); a transaction that read an envelope knows the committed one and one
that inserted it is alone with it (`Pinning`, which the unique index gives); a split under way next
to another, or after one, has overlapped (`Overlapping`). That each worker has a copy of its own of
the message it works on (`CopyForEach`), whether it handles it or waits to be given it again, and
that every copy but the first has a fault behind it, bounds the splits.

The second part of the module is about `Algorithms`, for any inputs. `Judged` is its invariant: what
is judged is what `InputsAssumption` says. The proofs need no sequence to be walked, because the
definitions name what a walk finds.

* Readings. `EndsOfPages` finds the first and the last of any pages in the order of the code, so a
  number that no page has lies between two that follow each other, and every number between those is
  missing (`MissingAreMissing`). A reading that differs from an earlier one has an earliest such one
  before it (`EarliestReading`, `DifferingConflict`), so no conflict depends on the order.
* Layout. An owner is bound to the last parcel that begins above him (`LastParcel`), and two bands
  share the slack only. That merging close cuts one after the other gives exactly one set of cuts is
  `KernelExists` and `Clusters`, from the least number of coordinates that would have none, of which
  the greatest is taken away; between the first and the last cut each anchor has a cell
  (`BetweenCuts`).
* Calibration. The sets of pages are cut at a digest (`HeldOut`), and a fraction below one leaves
  training data (`BelowOne`). Names and vector are concatenated from the same parts
  (`Concatenated`, `AgreeTogether`). Sums need an induction over the places of a sequence. It is
  carried out on a set of places (`Upwards`): one that holds 0, and with a place the next one, holds
  all. From it come `TotalIsMonotone`, `TotalOfSum` and `TotalOfRows`, that a table adds up by rows
  as by columns. Each prediction is in one bin (`BinsAreCut`); by the triangle inequality the sum of
  the bins' gaps is at least the gap of all (`NothingIsHidden`), and as a bin is two halves of the
  next finer division, that one shows at least as much (`HalvesShowMore`).
* Strokes. A stroke touches a box if their boxes meet and the corners are not all on one side of its
  line. All of the box lies within the grown one, so the grown box has points on both sides, or on
  the line; and unless the stroke ends in the grown box it strictly crosses one of its edges, which
  is found from the sides of its corners and the direction of the stroke (`GreaterIsCrossed`).
  Conversely a crossed edge has its ends on two sides, and a point of the box has corners around it
  (`CornersAround`).
* Labels. The label that names a parcel is the nearest of those in reach, and no other parcel has it
  in reach (`NamesAreNear`), or it would have competed.

### ReviewWorkflowProofs

Two requests on one row are recorded in `overlapped` (`Alone` in `ReqInv`), so a request on a row
that is not there knows what is true now: the task it submits has no submission (`SubmitInv`), the
correction it confirms has no checker and no effect (`ConfirmInv`), the rescan task it assigns was
not closed (`RescanInv`), the officer it serves has the open session it saw (`ClaimKnows`).
`TwoPairsOfEyes` has no such exception. `EyesInv` carries the check made at the start of
`confirm_pending_correction` to its commit: the confirmer is not the maker and does not hold the
task. Nothing rechecks it, and it holds because a task with a held correction is closed, a closed
task is never claimed, and what a claim has locked nobody holds (`TaskInv`): between the check and
the commit the task cannot come to the confirmer.

### PublicationProofs

`Numbering`: a publishing request's number is the next after a version that is there, and the
version it calls the previous one is the one with the number before (`Succeeds`, `Follows`).
Versions are never deleted, so this stays true whatever is inserted meanwhile, and the unique
constraint refuses a number that was taken: the numbers stay an interval. For the gate, a request
that has looked found no unresolved conflict on its predecessor, and there is none now unless
conflicts on that row moved while it was under way (`ConflictSeen`); nor has its batch a gap now,
unless gaps were acknowledged since the batch was last complete, or a page was placed while it was
under way (`VolumeSeen`). Both excuses are this request's own, kept in `raced[r]`: what moved before
it began excuses nothing. While no two transactions have worked on the index at once, it has one
row, its gaps are the gaps there are, the row is in the state acknowledged only if some of them were
accepted, and a transaction under way has read that row (`IndexInv`).

`ReadLawfully` is about `Algorithms`, for any rows, requests and corpora. `Answers` says what the
three routes can return: a refusal that shows nothing, a view or a list of edits masked for the
reader's own role, or one field in the clear with two entries in the audit log. `Masking` and
`ShownWhole` say that a masked field is covered in all its parts, `NoRoleUnmasks` that no role a
reader can hold is the one the unmasked read masks for, and `AuditorsAlone` that the permission for
it is an auditor's only. For closed sets, the answer depends on the version and on the lawful rows
only (`ServedFromRows`), and saying of every row that it comes from the old records changes none of
the two (`SourceIsIgnored`). For sessions, `SessionInv` says that a setting, and each row of a
trusted provenance, was loaded in the transaction that is still open or that the row was committed
by; this holds through a failed statement, after which nothing but the end of the transaction
counts.

### ConfigServiceProofs

As long as no version came between a writer's look and its write, the versions form one chain
(`Chain`), and a writer that has seen the last one will supersede that one (`KnowsHead`). For the
clients, an answer, whether under way or stored, is effective or has an excuse (`Sound`): an event
not yet applied, one applied while it was under way, or a version whose time has come since. The
proof is about why no other step makes an answer stale: a write leaves an event with every client,
and a version back-dated below the effective one does not become it.

### Only model-checked

Liveness (`EverySettledUnlessOrphaned`, `EveryRowDispatched`, `EveryTransactionEnds`,
`EveryDocumentRouted`): liveness under fairness and ENABLED are outside the prover's reach.

`MapIsFaithful` as a whole. Its part about strokes is proved (`StrikesAreFound`), and that a label
names one parcel, for any distances (`LabelsNameOne`). That a label in a parcel, or on its border,
is held by it, and that a ring without crossings is one that encloses an area, relates two
definitions of inside and of simple that agree by the topology of the plane only. That the rings
kept are what was drawn rests on `SelectSeq` and `FoldLeft`, whose theorems take an operator as a
parameter, which no installed prover can instantiate.

## 6. Findings and observations

One run refutes what a comment says of the code (`PROJECT.json` has the quotation): two overlapping
appends to one shard chain to the same entry, on an empty shard or behind the lock, after which the
shard does not verify (`AuditChain_fork`, `chain.py:130`).

Met while modelling. The properties state what remains true, and a reader of the code may want to
know what does not:

* Queue. A message left pending by a process whose successor has another consumer name is
  redelivered to nobody (`redis_streams.py:50`; `port.py:74-76` expects otherwise). A message whose
  handler has committed can be dead-lettered when its acknowledgement fails at the last delivery
  (`runner.py:109`).
* Audit. `verify_against_anchor` compares the anchored root with the current heads, so it fails
  after the first append that follows a roll (`verify.py:149`). Entries are ordered by the clock of
  the appending host (`chain.py:145`).
* Decisions. Two workers that decide two fields of one page both append `page.processed`
  (`page_lifecycle.py:81`), both insert an alert for one cluster, or drop each other's field from it
  (`decision.py:245`). `page.processed` waits for scores and not for decisions.
* Intake. Nothing makes `sha256` unique (`ingest.py:157`) nor a page's index within a document
  (`ingestion_consumer.py:57`). The second copy is made from a second read of the first
  (`ingest.py:153`). A good dropped file is lost to `rejected/` in two ways. With no failure at all,
  when the folder is polled after the file was put there and before its metadata file was
  (`drop_folder_watcher.py:49-52`), or while that is being written, in which case the half-written
  one is unlinked (`:53-59`). And after an interrupted try, which has unlinked the metadata file
  before anything was stored, so that the next poll does not find it (`:59`). A document whose
  message was pending for a worker that came back under another name is never split or triaged
  (`redis_streams.py:48-64`, `run.py:74`), and no one is told.
* Publication. An index acknowledged once stays acknowledged when other gaps open later
  (`completeness.py:67`), although what the operator saw and accepted was the gaps of that time
  (`:84`): until the batch has no gap for a moment, every later gap passes the gate, with no race.
  The conflicts the decision engine opens are on an extraction (`decision.py:206-211`) and the gate
  asks for the previous record row (`publication.py:62`), so they keep nothing back; nor does an
  unresolved conflict on a version older than the previous one.
* Configuration. A forward-dated version comes into effect without an event, so clients answer with
  the old one until the TTL ends.
* Extraction. Owners just above a parcel, within the slack, are bound to it and to the parcel before
  (`relationship_extractor.py:186` says nearest); on a page without parcels two or more owners are
  lost (`:236`). A conflict is flagged with a single value when the first reading is empty
  (`record_assembly.py:180`); extractions of pages that are not in the metadata are dropped (`:91`).
  A merged cell's `col_span` can exceed the columns (`table_extractor.py:281`). Each printed region
  runs OCR on the whole page; an engine's error discards what all regions gave. A map page without
  control points gets sample parcels that are ULPIN-eligible (`georeference.py:13`,
  `vectorize.py:10`). A boundary whose two ends lie any distance apart gets the edge between them
  and is a valid parcel, unless it says `is_closed: false` (`vectorize.py:129-131`; the default is
  true, `:97`), although the comment there says "Ensure ring is closed if close enough, but do not
  invent long missing edges" and the module's sixth requirement "Do not invent missing boundaries"
  (`:10`). `ParcelsAreDrawn` therefore allows that one edge, and no other. A stroke exactly along
  the lower edge of a value is ambiguous only. Two labels with one text may name two parcels.
* Model Work. `reject_unseen_strata` changes nothing, a novelty threshold of 1.0, which the policy
  allows (`novelty.py:32`), rejects no embedding, as distances are capped at 1, and
  `score_novelty` gives 1.0 where the detector gives 0.0 without prototypes. Nothing checks
  `eval_fraction` (`calibrator.py:476`): 1 or more would hold out every page and leave no training
  data. Only the default, 0.2, is in use, and `IsLabelled` asks for a fraction below one.
* Closed sets. An insert of a trusted provenance by other code passes the trigger of migration 0008
  when it is in the transaction of a loader, and the trigger is on INSERT only: an UPDATE that makes
  a row's provenance a trusted one is not refused (section 7).

## 7. Not modelled

* The JetStream and in-memory drivers. The test driver is one process with lists; under JetStream
  the server decides on redelivery, and this code shows only how it is configured. `replay_from` of
  the Redis driver (`redis_streams.py:81`), an operator's command that moves the group's position.
* Storage drivers and fixity. A put is one call under a digest, and the sweep compares and reports;
  the order of the two stores is in `Intake`. The sweep raises `KeyError` on an object that is
  missing (`fixity.py:48`).
* The build of the extraction service without shapely, whose own ring tests (`vectorize.py:64-72`,
  `:258-259`) are a fallback for a package that it declares as a dependency.
* An UPDATE of the `provenance` of a closed-set entry. No code under `src/` does it.
* How many audit entries a payload mismatch leaves in the decision engine: each redelivery appends
  another (`decision_engine.py:75`), and the model keeps the fields only; the order in which skipped
  tasks come back; the assignee of a conflict; pinned configuration reads; the check of author and
  approver.
* Provenance writing and coordinates, the dashboard's counts, unit tables: queries and formatting
  without state. Key handles and value hashes: primitives.
* The regression fit, temperature scaling and persistence of calibrators; the engines and the image
  processing of the extraction service, areas and unit conversion; the OCR service, a wrapper around
  a library; the validation service, whose rules raise `NotImplementedError`.
* Migrations, API wiring and observability: constraints and triggers are in the models of the code
  that relies on them.
