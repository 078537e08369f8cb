-------------------------------- MODULE Intake --------------------------------
(***************************************************************************)
(* The acquisition band: custody of an uploaded or dropped file            *)
(* (backend.domain.ingest, api.documents, drop_folder_watcher), the split  *)
(* into pages (ingestion_consumer, page_split) and triage, which pins a    *)
(* page's work envelope and queues it for its lanes (domain.triage,        *)
(* landenvelope.pin).                                                      *)
(*                                                                         *)
(* A source is one file on its way in.  The document it becomes is named   *)
(* after it.  A message of a queue is read by one consumer and pending for *)
(* that consumer alone until it is acknowledged; the batches and the crash *)
(* windows of this are in WorkerRunner, here a worker has one at a time.   *)
(***************************************************************************)
EXTENDS Naturals, FiniteSets

CONSTANTS
    Source,         (* files sent to POST /documents, or dropped           *)
    Dropped,        (* those in the drop folder                            *)
    WellFormed,     (* supported MIME type, district given                 *)
    Surveyed,       (* the district has a unit table                       *)
    DigestOf,       (* the SHA-256 of a source's bytes                     *)
    NumPages,
    ClassOf,        (* doc_type and page_role the classifiers give a page  *)
    Worker,         (* the split and triage workers                        *)
    MaxDeliveries,  (* deliveries before a message is dead-lettered        *)
    MaxPromotions,  (* bound: promotions of a model                        *)
    MaxFaults       (* bound: kills, failures and copied messages          *)

ASSUME IntakeAssumption ==
    /\ Source # {} /\ Dropped \subseteq Source /\ WellFormed \subseteq Source
    /\ IsFiniteSet(Worker)
    /\ NumPages \in Nat \ {0} /\ MaxDeliveries \in Nat \ {0}
    /\ DOMAIN ClassOf = 1..NumPages
    /\ MaxPromotions \in Nat /\ MaxFaults \in Nat

\* Only the API asks for the unit table of the district.
Acceptable == {s \in WellFormed : s \in Dropped \/ s \in Surveyed}

Digests == {DigestOf[s] : s \in Source}

\* A page row: its document, its index (counted from one here) and which split
\* inserted it.
PageRow == [doc : Source, index : 1..NumPages, split : 1..(MaxFaults + 1)]
Message == [queue : {"INGESTION_QUEUE"}, doc : Source] \cup [queue : {"TRIAGE_QUEUE"}, page : PageRow]
ForDocument(s) == [queue |-> "INGESTION_QUEUE", doc |-> s]
ForPage(p) == [queue |-> "TRIAGE_QUEUE", page |-> p]
NoVersion == 0

VARIABLES
    at,             (* where each source is in its custody                 *)
    sidecar,        (* dropped files whose metadata file is there, whole   *)
    described,      (* dropped files whose metadata file has been written  *)
    interrupted,    (* sources a try at which failed half way              *)
    primary, secondary,     (* digests and page blobs in the two stores    *)
    docs,           (* SourceDocument rows                                 *)
    batches,        (* sources with a Batch row                            *)
    pages,          (* Page rows                                           *)
    splits,         (* how often each document was split                   *)
    envelope,       (* the version pinned in a page's WorkEnvelope         *)
    lanes,          (* outbox rows for TEXT_QUEUE and MAP_QUEUE            *)
    queued,         (* how often each page was triaged                     *)
    inbox,          (* copies of each message, unread or with a worker     *)
    dead,           (* dead-lettered messages                              *)
    orphaned,       (* messages pending for a name nobody has any more     *)
    active,         (* the model version the registry resolves             *)
    splittable,     (* digests whose pages pypdf or Pillow can walk        *)
    pc, job,        (* where each worker is, and with which message        *)
    tx,             (* what its transaction has: pages stored, envelope    *)
    tries,          (* how often its message has been delivered to it      *)
    overlapped,     (* digests and documents two transactions had at once  *)
    faults

folder == <<sidecar, described, interrupted>>
custody == <<at, folder, secondary, docs, batches>>
rows == <<pages, splits, envelope, lanes, queued>>
mail == <<inbox, dead, orphaned>>
workers == <<pc, job, tx, tries>>
world == <<active, splittable>>
vars == <<custody, primary, rows, mail, world, workers, overlapped, faults>>

------------------------------------------------------------------------------
(* Custody of a source.                                                      *)

Move(s, from, to) == at[s] = from /\ at' = [at EXCEPT ![s] = to]

\* A metadata file is written beside the dropped file, whenever that is
\* (external): the poll does not wait for it.
Describe(s) ==
    /\ s \in Dropped \ described
    /\ described' = described \cup {s}
    /\ sidecar' = sidecar \cup {s}
    /\ UNCHANGED <<at, interrupted, secondary, docs, batches, primary, rows, mail, world,
                   workers, overlapped, faults>>

\* create_document has the form's metadata at hand.
Upload(s) ==
    /\ s \notin Dropped
    /\ Move(s, "waiting", "door")
    /\ UNCHANGED <<folder, secondary, docs, batches, primary, rows, mail, world, workers,
                   overlapped, faults>>

\* Faulty variant: the metadata file goes first, the file waits for the next poll.
ReadSidecarOnly(s) ==
    /\ s \in sidecar
    /\ sidecar' = sidecar \ {s}
    /\ UNCHANGED <<at, described, interrupted, secondary, docs, batches, primary, rows, mail,
                   world, workers, overlapped, faults>>

\* _ingest_one takes the metadata file away before anything is stored.
ReadSidecar(s) ==
    /\ s \in sidecar
    /\ sidecar' = sidecar \ {s}
    /\ Move(s, "waiting", "door")
    /\ UNCHANGED <<described, interrupted, secondary, docs, batches, primary, rows, mail, world,
                   workers, overlapped, faults>>

\* A file found without its metadata, or with a metadata file not whole yet, is
\* moved to rejected/ at once; so is, or is answered with 422, one of an
\* unsupported type or without a district its door accepts.
Refuse(s) ==
    /\ \/ s \in Dropped \ sidecar /\ at[s] = "waiting"
       \/ s \notin Acceptable /\ at[s] = "door"
    /\ at' = [at EXCEPT ![s] = "rejected"]
    /\ UNCHANGED <<folder, secondary, docs, batches, primary, rows, mail, world, workers,
                   overlapped, faults>>

StorePrimary(s) ==
    /\ s \in Acceptable
    /\ Move(s, "door", "stored")
    /\ primary' = primary \cup {DigestOf[s]}
    /\ UNCHANGED <<folder, secondary, docs, batches, rows, mail, world, workers,
                   overlapped, faults>>

\* Faulty variant: the second copy is left for later.
StoreSecondaryLater(s) ==
    /\ Move(s, "stored", "copied")
    /\ UNCHANGED <<folder, secondary, docs, batches, primary, rows, mail, world, workers,
                   overlapped, faults>>

\* The second copy is made of what the primary store reads back.
StoreSecondary(s) ==
    /\ DigestOf[s] \in primary
    /\ Move(s, "stored", "copied")
    /\ secondary' = secondary \cup {DigestOf[s]}
    /\ UNCHANGED <<folder, docs, batches, primary, rows, mail, world, workers,
                   overlapped, faults>>

Known(g) == \E d \in docs : DigestOf[d] = g
Twins(s) == {t \in Source \ {s} : DigestOf[t] = DigestOf[s] /\ at[t] = "insert"}

\* Faulty variant: re-uploads are not recognised.
LookForNone(s) ==
    /\ Move(s, "copied", "insert")
    /\ overlapped' = overlapped \cup {DigestOf[t] : t \in Twins(s)}
    /\ UNCHANGED <<folder, secondary, docs, batches, primary, rows, mail, world, workers, faults>>

\* Is there a document with this digest?
LookUp(s) ==
    /\ Move(s, "copied", IF Known(DigestOf[s]) THEN "link" ELSE "insert")
    /\ overlapped' = overlapped \cup {DigestOf[t] : t \in Twins(s)}
    /\ UNCHANGED <<folder, secondary, docs, batches, primary, rows, mail, world, workers, faults>>

\* The batch is new, the document is linked to the one there is or is new and
\* announced to the split worker.
CommitCustody(s) ==
    /\ at[s] \in {"link", "insert"}
    /\ at' = [at EXCEPT ![s] = "committed"]
    /\ batches' = batches \cup {s}
    /\ IF at[s] = "insert"
       THEN /\ docs' = docs \cup {s}
            /\ inbox' = [inbox EXCEPT ![ForDocument(s)] = @ + 1]
       ELSE UNCHANGED <<docs, inbox>>
    /\ UNCHANGED <<folder, secondary, primary, rows, dead, orphaned, world, workers, overlapped,
                   faults>>

\* The answer is sent, or the file unlinked.
Finish(s) ==
    /\ Move(s, "committed", "done")
    /\ UNCHANGED <<folder, secondary, docs, batches, primary, rows, mail, world, workers,
                   overlapped, faults>>

\* A store or the database failed, or the process was killed: the file is sent
\* again, or is found again in the folder.
Interrupted(s) ==
    /\ faults < MaxFaults
    /\ at[s] \in {"door", "stored", "copied", "link", "insert", "committed"}
    /\ at' = [at EXCEPT ![s] = "waiting"]
    /\ interrupted' = interrupted \cup {s}
    /\ faults' = faults + 1
    /\ UNCHANGED <<sidecar, described, secondary, docs, batches, primary, rows, mail, world,
                   workers, overlapped>>

------------------------------------------------------------------------------
(* The workers.                                                              *)

\* The workers a copy of the message is pending for; the others are unread.
With(m) == {w \in Worker : pc[w] # "idle" /\ job[w] = m}
Deliverable(m) == inbox[m] > Cardinality(With(m))

\* Faulty variant: only what nobody has read is read.
DeliverNewOnly(w, m) ==
    /\ pc[w] \in {"idle", "failed"} /\ Deliverable(m)
    /\ tries' = [tries EXCEPT ![w] = 1]

\* consume: a worker with an entry pending is given that one again and again,
\* up to the limit; one with none reads a copy nobody has read.
Deliver(w, m) ==
    \/ pc[w] = "idle" /\ Deliverable(m) /\ tries' = [tries EXCEPT ![w] = 1]
    \/ /\ pc[w] = "failed" /\ job[w] = m /\ tries[w] < MaxDeliveries
       /\ tries' = [tries EXCEPT ![w] = @ + 1]

Begin(w, m, label, t) ==
    /\ Deliver(w, m)
    /\ pc' = [pc EXCEPT ![w] = label]
    /\ job' = [job EXCEPT ![w] = m]
    /\ tx' = [tx EXCEPT ![w] = t]

Step(w, from, to) == pc[w] = from /\ pc' = [pc EXCEPT ![w] = to] /\ UNCHANGED tries

\* The entry is no longer pending for w, or for anybody.
Settled(w) ==
    /\ pc' = [pc EXCEPT ![w] = "idle"]
    /\ inbox' = [inbox EXCEPT ![job[w]] = @ - 1]

\* run_once after an exception: dead-lettered at the limit, pending below it.
Raised(w) ==
    /\ IF tries[w] < MaxDeliveries
       THEN pc' = [pc EXCEPT ![w] = "failed"] /\ UNCHANGED <<inbox, dead>>
       ELSE Settled(w) /\ dead' = dead \cup {job[w]}
    /\ UNCHANGED <<custody, primary, rows, orphaned, world, job, tx, tries, overlapped>>

\* The document, if another transaction is splitting it.
Splitting(s) == {job[v].doc : v \in {u \in With(ForDocument(s)) : pc[u] = "splitting"}}

\* Faulty variant: every delivery is split.
BeginSplitAlways(w, s) ==
    /\ Begin(w, ForDocument(s), "splitting", 0)
    /\ overlapped' = overlapped \cup Splitting(s)
    /\ UNCHANGED <<custody, primary, rows, mail, world, faults>>

\* ingestion_consumer.handle: has the document pages already?
BeginSplit(w, s) ==
    /\ Begin(w, ForDocument(s), IF \E p \in pages : p.doc = s THEN "ack" ELSE "splitting", 0)
    /\ overlapped' = overlapped \cup Splitting(s)
    /\ UNCHANGED <<custody, primary, rows, mail, world, faults>>

\* The next page goes to the store; its row and its message wait for the commit.
StorePage(w) ==
    /\ pc[w] = "splitting"
    /\ DigestOf[job[w].doc] \in splittable /\ tx[w] < NumPages
    /\ tx' = [tx EXCEPT ![w] = @ + 1]
    /\ primary' = primary \cup {<<DigestOf[job[w].doc], tx[w] + 1>>}
    /\ UNCHANGED <<custody, rows, mail, world, pc, job, tries, overlapped, faults>>

CommitSplit(w) ==
    /\ Step(w, "splitting", "ack") /\ tx[w] = NumPages
    /\ LET d == job[w].doc
           new == [doc : {d}, index : 1..NumPages, split : {splits[d] + 1}]
       IN  /\ pages' = pages \cup new
           /\ splits' = [splits EXCEPT ![d] = @ + 1]
           /\ inbox' = [m \in Message |-> inbox[m] + (IF m \in {ForPage(p) : p \in new} THEN 1 ELSE 0)]
    /\ UNCHANGED <<custody, primary, envelope, lanes, queued, dead, orphaned, world, job, tx,
                   overlapped, faults>>

\* UnsplittableDocument, raised on every delivery.
Unsplittable(w) ==
    /\ pc[w] = "splitting" /\ DigestOf[job[w].doc] \notin splittable
    /\ Raised(w) /\ UNCHANGED faults

------------------------------------------------------------------------------
(* Triage.                                                                   *)

\* route_page: a page with an envelope keeps it, and nothing is resolved.
BeginTriage(w, p) ==
    /\ Begin(w, ForPage(p), IF envelope[p] = NoVersion THEN "resolve" ELSE "route", envelope[p])
    /\ UNCHANGED <<custody, primary, rows, mail, world, overlapped, faults>>

\* resolve_active_model_versions, the five modules taken as one.
Resolve(w) ==
    /\ Step(w, "resolve", "pin")
    /\ tx' = [tx EXCEPT ![w] = active]
    /\ UNCHANGED <<custody, primary, rows, mail, world, job, overlapped, faults>>

\* Has w inserted an envelope that it has not committed yet?
Inserted(w) == pc[w] = "pinned"

\* Faulty variant: page_id is not unique in work_envelope.
PinUnchecked(w) ==
    /\ Step(w, "pin", "pinned")
    /\ UNCHANGED <<custody, primary, rows, mail, world, job, tx, overlapped, faults>>

\* Faulty variant: the loser goes on with the versions it resolved itself.
PinKeepingOwn(w) ==
    /\ pc[w] = "pin"
    /\ ~\E v \in Worker \ {w} : Inserted(v) /\ job[v] = job[w]
    /\ Step(w, "pin", IF envelope[job[w].page] = NoVersion THEN "pinned" ELSE "route")
    /\ UNCHANGED <<custody, primary, rows, mail, world, job, tx, overlapped, faults>>

\* pin: the unique index makes the insert wait for another one of the page and
\* fail once that is committed, which undoes the savepoint only; the winner's
\* envelope is read and used.
Pin(w) ==
    /\ pc[w] = "pin"
    /\ ~\E v \in Worker \ {w} : Inserted(v) /\ job[v] = job[w]
    /\ LET p == job[w].page
       IN  IF envelope[p] = NoVersion
           THEN Step(w, "pin", "pinned") /\ UNCHANGED tx
           ELSE Step(w, "pin", "route") /\ tx' = [tx EXCEPT ![w] = envelope[p]]
    /\ UNCHANGED <<custody, primary, rows, mail, world, job, overlapped, faults>>

\* lane_for: both, one or neither.
LaneFor(doc_type, page_role) ==
    IF page_role = "blank" THEN {}
    ELSE {q \in {"TEXT_QUEUE", "MAP_QUEUE"} :
            \/ q = "TEXT_QUEUE" /\ page_role \in {"text", "tabular_register", "endorsement"}
            \/ q = "MAP_QUEUE" /\ (page_role = "map_sheet" \/ doc_type \in {"cadastral_map", "fmb_sketch"})}

\* The envelope and one message per lane become visible together.
CommitTriage(w) ==
    /\ Step(w, "route", "ack") \/ Step(w, "pinned", "ack")
    /\ LET p == job[w].page
           class == ClassOf[p.index]
       IN  /\ envelope' = [envelope EXCEPT ![p] = tx[w]]
           /\ lanes' = lanes \cup [page : {p}, queue : LaneFor(class.doc_type, class.page_role),
                                   version : {tx[w]}]
           /\ queued' = [queued EXCEPT ![p] = @ + 1]
    /\ UNCHANGED <<custody, primary, pages, splits, mail, world, job, tx, overlapped, faults>>

------------------------------------------------------------------------------
Ack(w) ==
    /\ pc[w] = "ack" /\ Settled(w)
    /\ UNCHANGED <<custody, primary, rows, dead, orphaned, world, job, tx, tries, overlapped, faults>>

\* A message found pending that has had all its deliveries is dead-lettered.
GiveUp(w) ==
    /\ pc[w] = "failed" /\ tries[w] >= MaxDeliveries
    /\ Raised(w) /\ UNCHANGED faults

\* A statement, the commit or the acknowledgement failed, or the registry could
\* not be asked.
WorkerFails(w) ==
    /\ faults < MaxFaults /\ pc[w] \notin {"idle", "failed"}
    /\ Raised(w)
    /\ faults' = faults + 1

\* The worker is killed.  Under the same consumer name it finds its entry
\* pending when it is back; under another one nobody ever reads that again.
Killed(w) ==
    /\ faults < MaxFaults /\ pc[w] # "idle"
    /\ \/ pc' = [pc EXCEPT ![w] = "failed"] /\ UNCHANGED <<inbox, orphaned>>
       \/ Settled(w) /\ orphaned' = orphaned \cup {job[w]}
    /\ faults' = faults + 1
    /\ UNCHANGED <<custody, primary, rows, dead, world, job, tx, tries, overlapped>>

\* The relay publishes a message again that it could not mark.
Copied(m) ==
    /\ faults < MaxFaults /\ inbox[m] > 0
    /\ inbox' = [inbox EXCEPT ![m] = @ + 1]
    /\ faults' = faults + 1
    /\ UNCHANGED <<custody, primary, rows, dead, orphaned, world, workers, overlapped>>

\* Another version of a model is promoted (external).
Promote ==
    /\ active <= MaxPromotions
    /\ active' = active + 1
    /\ UNCHANGED <<custody, primary, rows, mail, splittable, workers, overlapped, faults>>

------------------------------------------------------------------------------
Init ==
    /\ at = [s \in Source |-> "waiting"]
    /\ described \in SUBSET Dropped /\ sidecar = described /\ interrupted = {}
    /\ primary = {} /\ secondary = {}
    /\ docs = {} /\ batches = {} /\ pages = {} /\ splits = [s \in Source |-> 0]
    /\ envelope = [p \in PageRow |-> NoVersion] /\ lanes = {} /\ queued = [p \in PageRow |-> 0]
    /\ inbox = [m \in Message |-> 0] /\ dead = {} /\ orphaned = {}
    /\ active = 1 /\ splittable \in SUBSET Digests
    /\ pc = [w \in Worker |-> "idle"] /\ job = [w \in Worker |-> CHOOSE m \in Message : TRUE]
    /\ tx = [w \in Worker |-> 0] /\ tries = [w \in Worker |-> 0]
    /\ overlapped = {} /\ faults = 0

Custody(s) ==
    \/ Upload(s) \/ ReadSidecar(s) \/ Refuse(s) \/ StorePrimary(s) \/ StoreSecondary(s)
    \/ LookUp(s) \/ CommitCustody(s) \/ Finish(s)

Handle(w) ==
    \/ \E s \in Source : BeginSplit(w, s)
    \/ \E p \in pages : BeginTriage(w, p)
    \/ StorePage(w) \/ CommitSplit(w) \/ Unsplittable(w)
    \/ Resolve(w) \/ Pin(w) \/ CommitTriage(w) \/ Ack(w) \/ GiveUp(w)

Faults ==
    \/ \E s \in Source : Interrupted(s)
    \/ \E w \in Worker : WorkerFails(w) \/ Killed(w)
    \/ \E m \in Message : Copied(m)

Next ==
    \/ \E s \in Source : Custody(s) \/ Describe(s)
    \/ \E w \in Worker : Handle(w)
    \/ Faults \/ Promote

Spec == Init /\ [][Next]_vars
FairSpec == Spec /\ (\A s \in Source : WF_vars(Custody(s))) /\ (\A w \in Worker : WF_vars(Handle(w)))

------------------------------------------------------------------------------
(* Properties.                                                               *)

TypeOK ==
    /\ at \in [Source -> {"waiting", "door", "rejected", "stored", "copied", "link", "insert",
                          "committed", "done"}]
    /\ sidecar \subseteq described /\ described \subseteq Dropped /\ interrupted \subseteq Source
    /\ docs \subseteq batches /\ splittable \subseteq Digests /\ batches \subseteq Acceptable
    /\ primary \subseteq Digests \cup (Digests \X (1..NumPages)) /\ secondary \subseteq Digests
    /\ pages \subseteq PageRow /\ splits \in [Source -> 0..(MaxFaults + 1)]
    /\ envelope \in [PageRow -> 0..active] /\ queued \in [PageRow -> Nat]
    /\ lanes \subseteq [page : pages, queue : {"TEXT_QUEUE", "MAP_QUEUE"}, version : 1..active]
    /\ inbox \in [Message -> Nat] /\ dead \subseteq Message /\ orphaned \subseteq Message
    /\ active \in 1..(MaxPromotions + 1) /\ faults \in 0..MaxFaults
    /\ pc \in [Worker -> {"idle", "splitting", "ack", "resolve", "pin", "pinned", "route", "failed"}]
    /\ job \in [Worker -> Message] /\ tx \in [Worker -> Nat] /\ tries \in [Worker -> 0..MaxDeliveries]

\* No row without its bytes: whatever fails between the two stores and the
\* database, a committed document has both copies and a committed page its
\* blob (ingest.ingest_document, ingestion_consumer.handle).
CustodyBeforeRow ==
    /\ \A d \in docs : DigestOf[d] \in primary \cap secondary
    /\ \A p \in pages : <<DigestOf[p.doc], p.index>> \in primary

\* The same bytes sent again, by either door and in whatever order, become a
\* second document only if two transactions looked for them before either
\* committed: nothing in the schema makes sha256 unique (ingest.py:157).
OneDocumentUnlessOverlapped ==
    \A d, e \in docs : DigestOf[d] = DigestOf[e] => d = e \/ DigestOf[d] \in overlapped

\* A document is split a second time only if two copies of its message were
\* being split at once (ingestion_consumer.py:57).
SplitOnceUnlessOverlapped ==
    \A d \in Source : splits[d] > 1 => d \in overlapped

\* Doubles need overlapping transactions, at both ends of the intake: nothing
\* else makes a second document of one file or a second split of one document.
OnceUnlessOverlapped == OneDocumentUnlessOverlapped /\ SplitOnceUnlessOverlapped

\* Whatever was promoted, redelivered or triaged twice meanwhile, every lane
\* works on a page with the version its envelope pins (pin.pin, route_page).
OneVersionPerPage == \A r \in lanes : r.version = envelope[r.page]

\* An envelope is written once.
PinnedForever ==
    [][\A p \in PageRow : envelope[p] # NoVersion => envelope'[p] = envelope[p]]_vars

\* A good dropped file is rejected for one of two reasons: it was polled before
\* its metadata file was there, or a try at this very file failed after taking
\* the metadata file away (drop_folder_watcher._ingest_one).  Nothing else that
\* fails, and nothing done to its twins, costs a good file.
GoodFilesLostHalfWay ==
    [][\A s \in Acceptable : at[s] # "rejected" /\ at'[s] = "rejected" =>
          s \in Dropped /\ (s \in described => s \in interrupted)]_vars

MessagesOf(d) == {ForDocument(d)} \cup {ForPage(p) : p \in {q \in pages : q.doc = d}}
Routed(d) == \A i \in 1..NumPages : \E p \in pages : p.doc = d /\ p.index = i /\ queued[p] > 0

\* Every committed document that can be split gets all its pages to their
\* lanes, unless one of its messages was pending for a worker that came back
\* under another name, or as many things failed as a message has deliveries and
\* one was dead-lettered.  One that cannot be split ends in the dead letters or
\* orphaned (redis_streams.consume, runner.run_once).
EveryDocumentRouted ==
    \A d \in Source :
        d \in docs ~>
            \/ MessagesOf(d) \cap orphaned # {}
            \/ IF DigestOf[d] \in splittable
               THEN Routed(d) \/ (faults >= MaxDeliveries /\ MessagesOf(d) \cap dead # {})
               ELSE ForDocument(d) \in dead
=============================================================================
