----------------------------- MODULE IntakeProofs -----------------------------
(***************************************************************************)
(* Proofs about Intake, for any files with any digests, any number of      *)
(* workers, pages and promotions, and any number of faults; and, in the    *)
(* second part, about the algorithms that what is taken in goes through    *)
(* (Algorithms): the readings of a page and the record, the layout of its  *)
(* tables and owners, strokes, and the calibrator that learns from labels, *)
(* for any inputs.                                                         *)
(***************************************************************************)
EXTENDS Intake, Algorithms, FiniteSetTheorems, SequenceTheorems, WellFoundedInduction, TLAPS

(* The parts of the inductive invariant: the custody of the sources ...      *)

CustodyTypeOK ==
    /\ at \in [Source -> {"waiting", "door", "rejected", "stored", "copied", "link", "insert",
                          "committed", "done"}]
    /\ sidecar \subseteq described /\ described \subseteq Dropped /\ interrupted \subseteq Source
    /\ docs \subseteq batches /\ batches \subseteq Acceptable
    /\ secondary \subseteq Digests /\ faults \in 0..MaxFaults

\* On the way to its row a source has its copies.
StoredOnTheWay ==
    \A s \in Source :
        /\ at[s] \in {"stored", "copied", "link", "insert"} =>
              s \in Acceptable /\ DigestOf[s] \in primary
        /\ at[s] \in {"copied", "link", "insert"} => DigestOf[s] \in secondary

StoredDocs == \A d \in docs : DigestOf[d] \in primary \cap secondary

\* A source that will become a document is none yet, and another one of the
\* same bytes, or on its way to become one, has overlapped with it.
Inserting ==
    \A s \in Source : at[s] = "insert" =>
        /\ s \notin docs
        /\ \A d \in docs : DigestOf[d] = DigestOf[s] => DigestOf[s] \in overlapped
        /\ \A t \in Source \ {s} :
              at[t] = "insert" /\ DigestOf[t] = DigestOf[s] => DigestOf[s] \in overlapped

\* A file that waits for a poll has the metadata file that was written for it,
\* or has been interrupted.
SidecarLostHalfWay ==
    \A s \in described \ sidecar : at[s] = "waiting" => s \in interrupted

CInv ==
    /\ CustodyTypeOK /\ StoredOnTheWay /\ StoredDocs /\ Inserting /\ OneDocumentUnlessOverlapped
    /\ SidecarLostHalfWay

(* ... and the work of the workers.                                          *)

WorkTypeOK ==
    /\ primary \subseteq Digests \cup (Digests \X (1..NumPages)) /\ splittable \subseteq Digests
    /\ pages \subseteq PageRow /\ splits \in [Source -> 0..(MaxFaults + 1)]
    /\ envelope \in [PageRow -> 0..active] /\ queued \in [PageRow -> Nat]
    /\ lanes \subseteq [page : pages, queue : {"TEXT_QUEUE", "MAP_QUEUE"}, version : 1..active]
    /\ inbox \in [Message -> Nat] /\ dead \subseteq Message /\ orphaned \subseteq Message
    /\ active \in 1..(MaxPromotions + 1)
    /\ pc \in [Worker -> {"idle", "splitting", "ack", "resolve", "pin", "pinned", "route", "failed"}]
    /\ job \in [Worker -> Message] /\ tx \in [Worker -> Nat] /\ tries \in [Worker -> 0..MaxDeliveries]

InTriage == {"resolve", "pin", "pinned", "route"}

JobsAreKnown ==
    \A w \in Worker :
        /\ pc[w] = "splitting" => \E s \in Source : job[w] = ForDocument(s)
        /\ pc[w] \in InTriage => \E p \in pages : job[w] = ForPage(p)

\* The pages a split has walked, and those it has committed, are in the store.
StoredPages ==
    /\ \A w \in Worker : pc[w] = "splitting" =>
          \A i \in 1..NumPages : i <= tx[w] => <<DigestOf[job[w].doc], i>> \in primary
    /\ \A p \in pages : <<DigestOf[p.doc], p.index>> \in primary

\* What a transaction knows of the envelope of its page.
Pinning ==
    \A w \in Worker :
        /\ pc[w] \in {"pin", "pinned", "route"} => tx[w] \in 1..active
        /\ pc[w] = "route" => envelope[job[w].page] = tx[w]
        /\ pc[w] = "pinned" => envelope[job[w].page] = NoVersion
        /\ \A v \in Worker \ {w} : pc[w] = "pinned" /\ pc[v] = "pinned" => job[w] # job[v]

\* A split that is under way beside another, or after one, has overlapped.
Overlapping ==
    \A w \in Worker, d \in Source : pc[w] = "splitting" /\ job[w] = ForDocument(d) =>
        /\ splits[d] > 0 => d \in overlapped
        /\ \A v \in Worker \ {w} : pc[v] = "splitting" /\ job[v] = job[w] => d \in overlapped

SplitLeavesPages == \A d \in Source : splits[d] > 0 => \E p \in pages : p.doc = d

\* Each worker has a copy of its own of the message it works on.
CopyForEach == \A m \in Message : Cardinality(With(m)) <= inbox[m]

\* Copies of an announcement need the document, and all but one a fault.
CopiesNeedFault ==
    \A d \in Source : inbox[ForDocument(d)] <= IF d \in docs THEN 1 + faults ELSE 0

\* A split takes a copy, and no copy is split after the first commit.
Splitters(d) == {w \in Worker : pc[w] = "splitting" /\ job[w] = ForDocument(d)}
SplitsNeedFault == \A d \in Source : splits[d] + Cardinality(Splitters(d)) <= 1 + faults

WInv ==
    /\ WorkTypeOK /\ JobsAreKnown /\ StoredPages /\ Pinning /\ OneVersionPerPage
    /\ Overlapping /\ SplitOnceUnlessOverlapped /\ SplitLeavesPages
    /\ CopyForEach /\ CopiesNeedFault /\ SplitsNeedFault

------------------------------------------------------------------------------
(* Custody.                                                                  *)

\* Nothing in custody moves, and what it rests on only grows.
CustodyRests ==
    /\ UNCHANGED custody
    /\ primary \subseteq primary' /\ overlapped \subseteq overlapped'
    /\ faults' \in faults..MaxFaults

LEMMA CustodyRestsStep ==
    ASSUME CInv, CustodyRests
    PROVE  CInv'
  <1>1. faults \in Nat /\ faults' \in 0..MaxFaults /\ (faults > 0 => faults' > 0)
    BY IntakeAssumption DEF CInv, CustodyTypeOK, CustodyRests
  <1>2. CustodyTypeOK'
    BY <1>1 DEF CInv, CustodyTypeOK, CustodyRests, custody, folder
  <1>3. StoredOnTheWay' /\ StoredDocs'
    BY DEF CInv, StoredOnTheWay, StoredDocs, CustodyRests, custody
  <1>4. Inserting' /\ OneDocumentUnlessOverlapped'
    BY DEF CInv, Inserting, OneDocumentUnlessOverlapped, CustodyRests, custody
  <1>5. SidecarLostHalfWay'
    BY DEF CInv, SidecarLostHalfWay, CustodyRests, custody, folder
  <1> QED
    BY <1>2, <1>3, <1>4, <1>5 DEF CInv

\* Before the look-up nothing is on its way to a row.
LEMMA EarlyStep ==
    ASSUME CInv, NEW s \in Source,
           Upload(s) \/ ReadSidecar(s) \/ StorePrimary(s) \/ StoreSecondary(s) \/ Finish(s)
    PROVE  CInv'
  <1>1. UNCHANGED <<docs, batches, overlapped, faults, described, interrupted>>
    BY DEF Upload, ReadSidecar, StorePrimary, StoreSecondary, Finish, folder
  <1>2. /\ primary \subseteq primary' /\ secondary \subseteq secondary' /\ secondary' \subseteq Digests
        /\ sidecar' \subseteq sidecar
    BY DEF Upload, ReadSidecar, StorePrimary, StoreSecondary, Finish, CInv, CustodyTypeOK, Digests, folder
  <1>3. PICK to \in {"door", "stored", "copied", "done"} : at' = [at EXCEPT ![s] = to]
    BY DEF Upload, ReadSidecar, StorePrimary, StoreSecondary, Finish, Move
  <1>4. /\ to = "stored" => s \in Acceptable /\ DigestOf[s] \in primary'
        /\ to = "copied" => s \in Acceptable /\ DigestOf[s] \in primary' /\ DigestOf[s] \in secondary'
        /\ sidecar' # sidecar => sidecar' = sidecar \ {s} /\ to = "door"
    BY <1>3 DEF Upload, ReadSidecar, StorePrimary, StoreSecondary, Finish, Move, CInv, CustodyTypeOK,
                StoredOnTheWay, folder
  <1>5. \A t \in Source : at'[t] = IF t = s THEN to ELSE at[t]
    BY <1>3 DEF CInv, CustodyTypeOK
  <1>6. CustodyTypeOK'
    BY <1>1, <1>2, <1>3 DEF CInv, CustodyTypeOK
  <1>7. StoredOnTheWay' /\ StoredDocs'
    BY <1>1, <1>2, <1>4, <1>5 DEF CInv, StoredOnTheWay, StoredDocs
  <1>8. Inserting' /\ OneDocumentUnlessOverlapped'
    BY <1>1, <1>5 DEF CInv, Inserting, OneDocumentUnlessOverlapped
  <1>9. SidecarLostHalfWay'
    BY <1>1, <1>2, <1>4, <1>5, IntakeAssumption DEF CInv, CustodyTypeOK, SidecarLostHalfWay
  <1> QED
    BY <1>6, <1>7, <1>8, <1>9 DEF CInv

LEMMA RefuseStep ==
    ASSUME CInv, NEW s \in Source, Refuse(s)
    PROVE  CInv'
  <1>1. UNCHANGED <<sidecar, described, interrupted, primary, secondary, docs, batches, overlapped, faults>>
    BY DEF Refuse, folder
  <1>2. \A t \in Source : at'[t] = IF t = s THEN "rejected" ELSE at[t]
    BY DEF Refuse, CInv, CustodyTypeOK
  <1>3. CustodyTypeOK'
    BY <1>1 DEF Refuse, CInv, CustodyTypeOK
  <1>4. StoredOnTheWay' /\ StoredDocs'
    BY <1>1, <1>2 DEF CInv, StoredOnTheWay, StoredDocs
  <1>5. Inserting' /\ OneDocumentUnlessOverlapped'
    BY <1>1, <1>2 DEF CInv, Inserting, OneDocumentUnlessOverlapped
  <1>6. SidecarLostHalfWay'
    BY <1>1, <1>2, IntakeAssumption DEF CInv, CustodyTypeOK, SidecarLostHalfWay
  <1> QED
    BY <1>3, <1>4, <1>5, <1>6 DEF CInv

LEMMA DescribeStep ==
    ASSUME CInv, NEW s \in Source, Describe(s)
    PROVE  CInv'
  <1>1. UNCHANGED <<at, interrupted, primary, secondary, docs, batches, overlapped, faults>>
    BY DEF Describe
  <1>2. CustodyTypeOK' /\ SidecarLostHalfWay'
    BY <1>1 DEF Describe, CInv, CustodyTypeOK, SidecarLostHalfWay
  <1>3. StoredOnTheWay' /\ StoredDocs' /\ Inserting' /\ OneDocumentUnlessOverlapped'
    BY <1>1 DEF CInv, StoredOnTheWay, StoredDocs, Inserting, OneDocumentUnlessOverlapped
  <1> QED
    BY <1>2, <1>3 DEF CInv

LEMMA LookUpStep ==
    ASSUME CInv, NEW s \in Source, LookUp(s)
    PROVE  CInv'
  <1> DEFINE to == IF Known(DigestOf[s]) THEN "link" ELSE "insert"
  <1>1. UNCHANGED <<sidecar, described, interrupted, primary, secondary, docs, batches, faults>>
        /\ at[s] = "copied"
    BY DEF LookUp, Move, folder
  <1>2. \A t \in Source : at'[t] = IF t = s THEN to ELSE at[t]
    BY DEF LookUp, Move, CInv, CustodyTypeOK
  <1>3. /\ overlapped \subseteq overlapped'
        /\ \A t \in Source \ {s} :
              at[t] = "insert" /\ DigestOf[t] = DigestOf[s] => DigestOf[s] \in overlapped'
    BY DEF LookUp, Twins
  <1>4. s \in Acceptable /\ DigestOf[s] \in primary /\ DigestOf[s] \in secondary
    BY <1>1 DEF CInv, StoredOnTheWay
  <1>5. to = "insert" => \A d \in docs : DigestOf[d] # DigestOf[s]
    BY DEF Known
  <1>6. CustodyTypeOK'
    BY <1>1 DEF LookUp, Move, CInv, CustodyTypeOK
  <1>7. StoredOnTheWay' /\ StoredDocs'
    BY <1>1, <1>2, <1>4 DEF CInv, StoredOnTheWay, StoredDocs
  <1>8. Inserting'
    <2> SUFFICES ASSUME NEW t \in Source, at'[t] = "insert"
                 PROVE  /\ t \notin docs
                        /\ \A d \in docs : DigestOf[d] = DigestOf[t] => DigestOf[t] \in overlapped'
                        /\ \A u \in Source \ {t} :
                              at'[u] = "insert" /\ DigestOf[u] = DigestOf[t] => DigestOf[t] \in overlapped'
      BY <1>1 DEF Inserting
    <2>1. CASE t = s
      BY <2>1, <1>2, <1>3, <1>5
    <2>2. CASE t # s
      BY <2>2, <1>2, <1>3 DEF CInv, Inserting
    <2> QED
      BY <2>1, <2>2
  <1>9. (OneDocumentUnlessOverlapped /\ SidecarLostHalfWay)'
    BY <1>1, <1>2, <1>3, IntakeAssumption
       DEF CInv, CustodyTypeOK, OneDocumentUnlessOverlapped, SidecarLostHalfWay
  <1> QED
    BY <1>6, <1>7, <1>8, <1>9 DEF CInv

LEMMA CommitCustodyStep ==
    ASSUME CInv, NEW s \in Source, CommitCustody(s)
    PROVE  CInv'
  <1>1. UNCHANGED <<sidecar, described, interrupted, primary, secondary, overlapped, faults>>
        /\ at[s] \in {"link", "insert"}
    BY DEF CommitCustody, folder
  <1>2. \A t \in Source : at'[t] = IF t = s THEN "committed" ELSE at[t]
    BY DEF CommitCustody, CInv, CustodyTypeOK
  <1>3. s \in Acceptable /\ DigestOf[s] \in primary \cap secondary
    BY <1>1 DEF CInv, StoredOnTheWay
  <1>4. \/ docs' = docs
        \/ at[s] = "insert" /\ docs' = docs \cup {s}
    BY DEF CommitCustody
  <1>5. CustodyTypeOK'
    BY <1>1, <1>3, <1>4 DEF CommitCustody, CInv, CustodyTypeOK
  <1>6. StoredOnTheWay' /\ StoredDocs'
    BY <1>1, <1>2, <1>3, <1>4 DEF CInv, StoredOnTheWay, StoredDocs
  <1>7. Inserting' /\ OneDocumentUnlessOverlapped'
    BY <1>1, <1>2, <1>4 DEF CInv, Inserting, OneDocumentUnlessOverlapped
  <1>8. SidecarLostHalfWay'
    BY <1>1, <1>2, IntakeAssumption DEF CInv, CustodyTypeOK, SidecarLostHalfWay
  <1> QED
    BY <1>5, <1>6, <1>7, <1>8 DEF CInv

LEMMA InterruptedStep ==
    ASSUME CInv, NEW s \in Source, Interrupted(s)
    PROVE  CInv'
  <1>1. UNCHANGED <<sidecar, described, primary, secondary, docs, batches, overlapped>>
        /\ interrupted' = interrupted \cup {s}
    BY DEF Interrupted
  <1>2. \A t \in Source : at'[t] = IF t = s THEN "waiting" ELSE at[t]
    BY DEF Interrupted, CInv, CustodyTypeOK
  <1>3. faults' \in 0..MaxFaults
    BY IntakeAssumption DEF Interrupted, CInv, CustodyTypeOK
  <1>4. CustodyTypeOK'
    BY <1>1, <1>3 DEF Interrupted, CInv, CustodyTypeOK
  <1>5. StoredOnTheWay' /\ StoredDocs'
    BY <1>1, <1>2 DEF CInv, StoredOnTheWay, StoredDocs
  <1>6. Inserting' /\ OneDocumentUnlessOverlapped'
    BY <1>1, <1>2 DEF CInv, Inserting, OneDocumentUnlessOverlapped
  <1>7. SidecarLostHalfWay'
    BY <1>1, <1>2, IntakeAssumption DEF CInv, CustodyTypeOK, SidecarLostHalfWay
  <1> QED
    BY <1>4, <1>5, <1>6, <1>7 DEF CInv

------------------------------------------------------------------------------
(* Messages and their copies.                                                *)

LEMMA Messages ==
    /\ \A s \in Source : ForDocument(s) \in Message /\ ForDocument(s).doc = s
    /\ \A p \in PageRow : ForPage(p) \in Message /\ ForPage(p).page = p
    /\ \A s \in Source, p \in PageRow : ForDocument(s) # ForPage(p)
    /\ \A s, t \in Source : ForDocument(s) = ForDocument(t) => s = t
    /\ \A p, q \in PageRow : ForPage(p) = ForPage(q) => p = q
  <1>1. \A s \in Source : ForDocument(s) \in Message /\ ForDocument(s).doc = s
    BY DEF ForDocument, Message
  <1>2. \A p \in PageRow : ForPage(p) \in Message /\ ForPage(p).page = p
    BY DEF ForPage, Message
  <1>3. \A s \in Source, p \in PageRow : ForDocument(s).queue # ForPage(p).queue
    BY DEF ForDocument, ForPage
  <1> QED
    BY <1>1, <1>2, <1>3

LEMMA CrowdsAreFinite ==
    /\ \A m : IsFiniteSet(With(m)) /\ Cardinality(With(m)) \in Nat
    /\ \A d : IsFiniteSet(Splitters(d)) /\ Cardinality(Splitters(d)) \in Nat
  <1>1. \A m : With(m) \subseteq Worker
    BY DEF With
  <1>2. \A d : Splitters(d) \subseteq Worker
    BY DEF Splitters
  <1> QED
    BY <1>1, <1>2, IntakeAssumption, FS_Subset, FS_CardinalityType

\* Only worker w moves.
Moves(w, label, m, t) ==
    \A v \in Worker :
        /\ pc'[v] = IF v = w THEN label ELSE pc[v]
        /\ job'[v] = IF v = w THEN m ELSE job[v]
        /\ tx'[v] = IF v = w THEN t ELSE tx[v]

\* A worker begins with a copy nobody has.
LEMMA BeginKeepsCopies ==
    ASSUME WInv, NEW w \in Worker, NEW m \in Message, NEW label, NEW t,
           pc[w] = "idle", label # "idle", Deliverable(m), Moves(w, label, m, t), inbox' = inbox
    PROVE  CopyForEach'
  <1> SUFFICES ASSUME NEW n \in Message PROVE Cardinality(With(n)') <= inbox[n]
    BY DEF CopyForEach
  <1>1. inbox[n] \in Nat /\ inbox[m] \in Nat /\ Cardinality(With(n)) <= inbox[n]
    BY DEF WInv, WorkTypeOK, CopyForEach
  <1>2. CASE n # m
    <2>1. With(n)' = With(n)
      BY <1>2 DEF With, Moves
    <2> QED
      BY <1>1, <2>1
  <1>3. CASE n = m
    <2>1. With(n)' = With(n) \cup {w} /\ w \notin With(n)
      BY <1>3 DEF With, Moves
    <2>2. Cardinality(With(n)') = Cardinality(With(n)) + 1
      BY <2>1, CrowdsAreFinite, FS_AddElement
    <2> QED
      BY <1>1, <1>3, <2>2, CrowdsAreFinite DEF Deliverable
  <1> QED
    BY <1>2, <1>3

\* A worker goes on with its message while copies may come.
LEMMA WorkKeepsCopies ==
    ASSUME WInv, NEW w \in Worker, NEW label, NEW t, pc[w] # "idle", label # "idle",
           Moves(w, label, job[w], t), \A m \in Message : inbox'[m] \in Nat /\ inbox'[m] >= inbox[m]
    PROVE  CopyForEach'
  <1> SUFFICES ASSUME NEW n \in Message PROVE Cardinality(With(n)') <= inbox'[n]
    BY DEF CopyForEach
  <1>1. inbox[n] \in Nat /\ Cardinality(With(n)) <= inbox[n]
    BY DEF WInv, WorkTypeOK, CopyForEach
  <1>2. With(n)' = With(n)
    BY DEF With, Moves
  <1> QED
    BY <1>1, <1>2, CrowdsAreFinite

\* A worker ends, and takes at most its own copy away.
LEMMA EndKeepsCopies ==
    ASSUME WInv, NEW w \in Worker, pc[w] # "idle", Moves(w, "idle", job[w], tx[w]),
           inbox' \in {inbox, [inbox EXCEPT ![job[w]] = @ - 1]}
    PROVE  CopyForEach' /\ inbox' \in [Message -> Nat]
           /\ \A m \in Message : inbox'[m] <= inbox[m]
  <1>1. job[w] \in Message /\ inbox \in [Message -> Nat]
    BY DEF WInv, WorkTypeOK
  <1>2. w \in With(job[w])
    BY DEF With
  <1>3. ASSUME NEW n \in Message, n = job[w] PROVE Cardinality(With(n)') = Cardinality(With(n)) - 1
    <2>1. With(n)' = With(n) \ {w} /\ w \in With(n)
      BY <1>3 DEF With, Moves
    <2> QED
      BY <2>1, CrowdsAreFinite, FS_RemoveElement
  <1>4. Cardinality(With(job[w])) >= 1 /\ Cardinality(With(job[w])) <= inbox[job[w]]
    <2>1. Cardinality(With(job[w])) # 0
      BY <1>2, CrowdsAreFinite, FS_EmptySet
    <2> QED
      BY <1>1, <2>1, CrowdsAreFinite DEF WInv, CopyForEach
  <1>5. inbox[job[w]] \in Nat \ {0}
    BY <1>1, <1>4, CrowdsAreFinite
  <1>6. inbox' \in [Message -> Nat] /\ \A m \in Message : inbox'[m] <= inbox[m]
    BY <1>1, <1>5
  <1>7. ASSUME NEW n \in Message PROVE Cardinality(With(n)') <= inbox'[n]
    <2>1. CASE n = job[w]
      BY <2>1, <1>1, <1>3, <1>4, <1>5, CrowdsAreFinite
    <2>2. CASE n # job[w]
      <3>1. With(n)' = With(n)
        BY <2>2 DEF With, Moves
      <3> QED
        BY <1>1, <2>2, <3>1 DEF WInv, CopyForEach
    <2> QED
      BY <2>1, <2>2
  <1> QED
    BY <1>6, <1>7 DEF CopyForEach

------------------------------------------------------------------------------
(* The work: steps around the workers ...                                    *)

\* No worker moves; copies, copies' causes, blobs and promotions may come.
Around ==
    /\ UNCHANGED <<rows, dead, orphaned, splittable, workers>>
    /\ primary \subseteq primary' /\ primary' \subseteq Digests \cup (Digests \X (1..NumPages))
    /\ overlapped \subseteq overlapped'
    /\ faults \in Nat /\ faults' \in Nat /\ faults' >= faults
    /\ active' \in 1..(MaxPromotions + 1) /\ active' >= active
    /\ inbox' \in [Message -> Nat] /\ \A m \in Message : inbox'[m] >= inbox[m]

LEMMA AroundStep ==
    ASSUME WInv, Around, CopiesNeedFault'
    PROVE  WInv'
  <1>1. UNCHANGED <<pages, splits, envelope, lanes, queued>> /\ UNCHANGED <<pc, job, tx, tries>>
    BY DEF Around, rows, workers
  <1>2. /\ \A n : n \in 0..active => n \in 0..active'
        /\ \A n : n \in 1..active => n \in 1..active'
    BY DEF WInv, WorkTypeOK, Around
  <1>3. envelope' \in [PageRow -> 0..active']
    BY <1>1, <1>2 DEF WInv, WorkTypeOK
  <1>4. lanes' \subseteq [page : pages', queue : {"TEXT_QUEUE", "MAP_QUEUE"}, version : 1..active']
    BY <1>1, <1>2 DEF WInv, WorkTypeOK
  <1>5. WorkTypeOK'
    BY <1>1, <1>3, <1>4 DEF WInv, WorkTypeOK, Around
  <1>6. JobsAreKnown' /\ StoredPages' /\ OneVersionPerPage' /\ SplitLeavesPages'
    BY <1>1 DEF WInv, JobsAreKnown, StoredPages, OneVersionPerPage, SplitLeavesPages, Around
  <1>7. Pinning'
    BY <1>1, <1>2 DEF WInv, Pinning
  <1>8. Overlapping' /\ SplitOnceUnlessOverlapped'
    BY <1>1 DEF WInv, Overlapping, SplitOnceUnlessOverlapped, Around
  <1>9. CopyForEach'
    <2>1. \A m \in Message : With(m)' = With(m)
      BY <1>1 DEF With
    <2>2. ASSUME NEW m \in Message PROVE Cardinality(With(m)') <= inbox'[m]
      <3>1. Cardinality(With(m)) <= inbox[m] /\ inbox[m] \in Nat /\ inbox'[m] \in Nat
        BY DEF WInv, CopyForEach, WorkTypeOK, Around
      <3> QED
        BY <2>1, <3>1, CrowdsAreFinite DEF Around
    <2> QED
      BY <2>2 DEF CopyForEach
  <1>10. SplitsNeedFault'
    <2>1. \A d \in Source : Splitters(d)' = Splitters(d)
      BY <1>1 DEF Splitters
    <2>2. ASSUME NEW d \in Source PROVE splits'[d] + Cardinality(Splitters(d)') <= 1 + faults'
      <3>1. splits[d] + Cardinality(Splitters(d)) <= 1 + faults /\ splits[d] \in Nat
        BY IntakeAssumption DEF WInv, SplitsNeedFault, WorkTypeOK
      <3> QED
        BY <1>1, <2>1, <3>1, CrowdsAreFinite DEF Around
    <2> QED
      BY <2>2 DEF SplitsNeedFault
  <1> QED
    BY <1>5, <1>6, <1>7, <1>8, <1>9, <1>10 DEF WInv

\* An announcement or a copy of a message is put into its inbox.
LEMMA InboxStep ==
    ASSUME WInv, NEW m \in Message, inbox' \in {inbox, [inbox EXCEPT ![m] = @ + 1]}
    PROVE  /\ inbox' \in [Message -> Nat] /\ \A n \in Message : inbox'[n] >= inbox[n]
           /\ \A n \in Message : inbox'[n] # inbox[n] => n = m /\ inbox'[n] = inbox[n] + 1
  BY DEF WInv, WorkTypeOK

LEMMA CustodyAround ==
    ASSUME CInv, WInv, NEW s \in Source,
           Describe(s) \/ Upload(s) \/ ReadSidecar(s) \/ Refuse(s) \/ StorePrimary(s) \/ StoreSecondary(s)
             \/ LookUp(s) \/ Finish(s) \/ Interrupted(s)
    PROVE  WInv'
  <1>1. UNCHANGED <<rows, inbox, dead, orphaned, world, workers, docs>>
    BY DEF Describe, Upload, ReadSidecar, Refuse, StorePrimary, StoreSecondary, LookUp, Finish, Interrupted,
           mail
  <1>2. primary' \in {primary, primary \cup {DigestOf[s]}} /\ overlapped \subseteq overlapped'
    BY DEF Describe, Upload, ReadSidecar, Refuse, StorePrimary, StoreSecondary, LookUp, Finish, Interrupted
  <1>3. faults' = faults \/ faults' = faults + 1
    BY DEF Describe, Upload, ReadSidecar, Refuse, StorePrimary, StoreSecondary, LookUp, Finish, Interrupted
  <1>4. faults \in Nat /\ faults' \in Nat /\ faults' >= faults
    BY <1>3 DEF CInv, CustodyTypeOK
  <1>5. DigestOf[s] \in Digests
    BY DEF Digests
  <1>6. Around
    <2>1. active' = active /\ splittable' = splittable
      BY <1>1 DEF world
    <2> QED
      BY <1>1, <1>2, <1>4, <1>5, <2>1 DEF Around, WInv, WorkTypeOK
  <1>7. CopiesNeedFault'
    BY <1>1, <1>4, Messages DEF WInv, WorkTypeOK, CopiesNeedFault
  <1> QED
    BY <1>6, <1>7, AroundStep

LEMMA CommitCustodyAround ==
    ASSUME CInv, WInv, NEW s \in Source, CommitCustody(s)
    PROVE  WInv'
  <1>1. UNCHANGED <<rows, dead, orphaned, world, workers, primary, overlapped, faults>>
    BY DEF CommitCustody
  <1>2. faults \in Nat
    BY DEF CInv, CustodyTypeOK
  <1>3. inbox' \in {inbox, [inbox EXCEPT ![ForDocument(s)] = @ + 1]} /\ docs \subseteq docs'
    BY DEF CommitCustody
  <1>4. /\ inbox' \in [Message -> Nat] /\ \A n \in Message : inbox'[n] >= inbox[n]
        /\ \A n \in Message : inbox'[n] # inbox[n] => n = ForDocument(s) /\ inbox'[n] = inbox[n] + 1
    BY <1>3, InboxStep, Messages
  <1>5. Around
    <2>1. active' = active /\ splittable' = splittable
      BY <1>1 DEF world
    <2> QED
      BY <1>1, <1>2, <1>4, <2>1 DEF Around, WInv, WorkTypeOK
  <1>6. ASSUME NEW d \in Source
        PROVE  inbox'[ForDocument(d)] <= IF d \in docs' THEN 1 + faults' ELSE 0
    <2>1. inbox[ForDocument(d)] <= (IF d \in docs THEN 1 + faults ELSE 0) /\ inbox[ForDocument(d)] \in Nat
      BY Messages DEF WInv, CopiesNeedFault, WorkTypeOK
    <2>2. CASE inbox'[ForDocument(d)] = inbox[ForDocument(d)]
      BY <1>1, <1>2, <1>3, <2>1, <2>2
    <2>3. CASE inbox'[ForDocument(d)] # inbox[ForDocument(d)]
      <3>1. d = s /\ inbox'[ForDocument(d)] = inbox[ForDocument(d)] + 1
        BY <1>4, <2>3, Messages
      <3>2. at[s] = "insert"
        BY <2>3 DEF CommitCustody
      <3>3. s \notin docs /\ s \in docs'
        BY <3>2 DEF CommitCustody, CInv, Inserting
      <3> QED
        BY <1>1, <1>2, <2>1, <3>1, <3>3
    <2> QED
      BY <2>2, <2>3
  <1> QED
    BY <1>5, <1>6, AroundStep DEF CopiesNeedFault

LEMMA CopiedAround ==
    ASSUME CInv, WInv, NEW m \in Message, Copied(m)
    PROVE  WInv'
  <1>1. UNCHANGED <<rows, dead, orphaned, world, workers, primary, overlapped, docs>> /\ faults' = faults + 1
    BY DEF Copied, custody
  <1>2. faults \in Nat /\ faults' \in Nat
    BY <1>1 DEF CInv, CustodyTypeOK
  <1>3. /\ inbox' \in [Message -> Nat] /\ \A n \in Message : inbox'[n] >= inbox[n]
        /\ \A n \in Message : inbox'[n] # inbox[n] => n = m /\ inbox'[n] = inbox[n] + 1
    BY InboxStep DEF Copied
  <1>4. Around
    <2>1. active' = active /\ splittable' = splittable
      BY <1>1 DEF world
    <2> QED
      BY <1>1, <1>2, <1>3, <2>1 DEF Around, WInv, WorkTypeOK
  <1>5. ASSUME NEW d \in Source
        PROVE  inbox'[ForDocument(d)] <= IF d \in docs' THEN 1 + faults' ELSE 0
    <2>1. inbox[ForDocument(d)] <= (IF d \in docs THEN 1 + faults ELSE 0) /\ inbox[ForDocument(d)] \in Nat
      BY Messages DEF WInv, CopiesNeedFault, WorkTypeOK
    <2>2. inbox'[ForDocument(d)] # inbox[ForDocument(d)] =>
             inbox'[ForDocument(d)] = inbox[ForDocument(d)] + 1 /\ inbox[ForDocument(d)] > 0
      BY <1>3, Messages DEF Copied
    <2> QED
      BY <1>1, <1>2, <2>1, <2>2
  <1> QED
    BY <1>4, <1>5, AroundStep DEF CopiesNeedFault

LEMMA PromoteAround ==
    ASSUME CInv, WInv, Promote
    PROVE  WInv'
  <1>1. UNCHANGED <<rows, inbox, dead, orphaned, splittable, workers, primary, overlapped, docs, faults>>
    BY DEF Promote, custody, mail
  <1>2. active' \in 1..(MaxPromotions + 1) /\ active' >= active /\ faults \in Nat
    BY IntakeAssumption DEF Promote, WInv, WorkTypeOK, CInv, CustodyTypeOK
  <1>3. Around
    BY <1>1, <1>2 DEF Around, WInv, WorkTypeOK
  <1>4. CopiesNeedFault'
    BY <1>1 DEF WInv, CopiesNeedFault
  <1> QED
    BY <1>3, <1>4, AroundStep

------------------------------------------------------------------------------
(* ... and the steps of a worker.                                            *)

Label == {"idle", "splitting", "ack", "resolve", "pin", "pinned", "route", "failed"}

\* A worker begins, or goes on outside a split: nothing is written.
Turns(w, label, m, t) ==
    /\ pc' = [pc EXCEPT ![w] = label] /\ label \in Label \ {"idle", "splitting"}
    /\ job' = [job EXCEPT ![w] = m] /\ m \in Message
    /\ tx' = [tx EXCEPT ![w] = t] /\ t \in Nat
    /\ tries' \in [Worker -> 0..MaxDeliveries]
    /\ \/ pc[w] = "idle" /\ Deliverable(m)
       \/ pc[w] \notin {"idle", "splitting"} /\ m = job[w]
    /\ UNCHANGED <<rows, primary, mail, world, docs, faults>> /\ overlapped \subseteq overlapped'

LEMMA TurnStep ==
    ASSUME WInv, NEW w \in Worker, NEW label, NEW m, NEW t, Turns(w, label, m, t),
           label \in InTriage => \E p \in pages : m = ForPage(p),
           label \in {"pin", "pinned", "route"} => t \in 1..active,
           label = "route" => envelope[m.page] = t,
           label = "pinned" => /\ envelope[m.page] = NoVersion
                               /\ \A v \in Worker \ {w} : pc[v] = "pinned" => job[v] # m
    PROVE  WInv'
  <1>1. /\ UNCHANGED <<pages, splits, envelope, lanes, queued, primary, inbox, dead, orphaned, docs, faults>>
        /\ UNCHANGED <<active, splittable>>
    BY DEF Turns, rows, mail, world
  <1>2. Moves(w, label, m, t)
    BY DEF Turns, Moves, WInv, WorkTypeOK
  <1>3. WorkTypeOK'
    BY <1>1 DEF Turns, Label, WInv, WorkTypeOK
  <1>4. JobsAreKnown'
    BY <1>1, <1>2 DEF Turns, Moves, WInv, JobsAreKnown
  <1>5. StoredPages'
    BY <1>1, <1>2 DEF Turns, Moves, WInv, StoredPages
  <1>6. Pinning'
    BY <1>1, <1>2 DEF Moves, WInv, Pinning
  <1>7. OneVersionPerPage' /\ SplitLeavesPages' /\ CopiesNeedFault'
    BY <1>1 DEF WInv, OneVersionPerPage, SplitLeavesPages, CopiesNeedFault
  <1>8. Overlapping' /\ SplitOnceUnlessOverlapped'
    BY <1>1, <1>2 DEF Turns, Moves, WInv, Overlapping, SplitOnceUnlessOverlapped
  <1>9. CopyForEach'
    <2>1. CASE pc[w] = "idle"
      BY <1>1, <1>2, <2>1, BeginKeepsCopies DEF Turns
    <2>2. CASE pc[w] # "idle"
      <3>1. m = job[w] /\ label # "idle"
        BY <2>2 DEF Turns
      <3>2. \A n \in Message : inbox'[n] \in Nat /\ inbox'[n] >= inbox[n]
        BY <1>1 DEF WInv, WorkTypeOK
      <3> QED
        BY <1>2, <2>2, <3>1, <3>2, WorkKeepsCopies
    <2> QED
      BY <2>1, <2>2
  <1>10. SplitsNeedFault'
    <2>1. \A d \in Source : Splitters(d)' = Splitters(d)
      BY <1>2 DEF Turns, Moves, Splitters
    <2> QED
      BY <1>1, <2>1 DEF WInv, SplitsNeedFault
  <1> QED
    BY <1>3, <1>4, <1>5, <1>6, <1>7, <1>8, <1>9, <1>10 DEF WInv

\* A delivery is counted up to the limit.
LEMMA DeliverStep ==
    ASSUME WInv, NEW w \in Worker, NEW m, Deliver(w, m)
    PROVE  /\ tries' \in [Worker -> 0..MaxDeliveries]
           /\ \/ pc[w] = "idle" /\ Deliverable(m)
              \/ pc[w] = "failed" /\ m = job[w]
  <1>1. tries \in [Worker -> 0..MaxDeliveries] /\ MaxDeliveries \in Nat \ {0}
    BY IntakeAssumption DEF WInv, WorkTypeOK
  <1> QED
    BY <1>1 DEF Deliver

LEMMA BeginTriageStep ==
    ASSUME WInv, NEW w \in Worker, NEW p \in pages, BeginTriage(w, p)
    PROVE  WInv'
  <1> DEFINE label == IF envelope[p] = NoVersion THEN "resolve" ELSE "route"
  <1>1. p \in PageRow /\ envelope[p] \in 0..active /\ active \in Nat
    BY IntakeAssumption DEF WInv, WorkTypeOK
  <1>2. Turns(w, label, ForPage(p), envelope[p])
    BY <1>1, Messages, DeliverStep DEF BeginTriage, Begin, Turns, Label, custody
  <1> QED
    BY <1>1, <1>2, Messages, TurnStep DEF InTriage, NoVersion

LEMMA ResolveStep ==
    ASSUME WInv, NEW w \in Worker, Resolve(w)
    PROVE  WInv'
  <1>1. job[w] \in Message /\ tx[w] \in Nat /\ active \in Nat /\ active \in 1..active
    BY IntakeAssumption DEF WInv, WorkTypeOK
  <1>2. Turns(w, "pin", job[w], active)
    BY <1>1 DEF Resolve, Step, Turns, Label, custody, WInv, WorkTypeOK
  <1>3. \E p \in pages : job[w] = ForPage(p)
    BY DEF Resolve, Step, WInv, JobsAreKnown, InTriage
  <1> QED
    BY <1>1, <1>2, <1>3, TurnStep

LEMMA PinStep ==
    ASSUME WInv, NEW w \in Worker, Pin(w)
    PROVE  WInv'
  <1> DEFINE p == job[w].page
  <1>1. pc[w] = "pin" /\ job[w] \in Message /\ tx[w] \in 1..active /\ tx[w] \in Nat
    BY DEF Pin, Step, WInv, WorkTypeOK, Pinning
  <1>2. (\E q \in pages : job[w] = ForPage(q)) /\ p \in PageRow
    BY <1>1, Messages DEF WInv, WorkTypeOK, JobsAreKnown, InTriage
  <1>3. CASE envelope[p] = NoVersion
    <2>1. Turns(w, "pinned", job[w], tx[w])
      BY <1>1, <1>3 DEF Pin, Step, Turns, Label, custody, WInv, WorkTypeOK
    <2>2. \A v \in Worker \ {w} : pc[v] = "pinned" => job[v] # job[w]
      BY DEF Pin, Inserted
    <2> QED
      BY <1>1, <1>2, <1>3, <2>1, <2>2, TurnStep
  <1>4. CASE envelope[p] # NoVersion
    <2>1. envelope[p] \in 1..active /\ envelope[p] \in Nat
      BY <1>2, <1>4, IntakeAssumption DEF WInv, WorkTypeOK, NoVersion
    <2>2. Turns(w, "route", job[w], envelope[p])
      BY <1>1, <1>4, <2>1 DEF Pin, Step, Turns, Label, custody, WInv, WorkTypeOK
    <2> QED
      BY <1>2, <2>1, <2>2, TurnStep
  <1> QED
    BY <1>3, <1>4

\* A worker leaves its message, settled or pending.
LEMMA LeaveStep ==
    ASSUME WInv, NEW w \in Worker, NEW label \in {"idle", "failed"}, faults \in Nat, faults' \in Nat,
           faults' >= faults, pc[w] # "idle", pc' = [pc EXCEPT ![w] = label],
           dead' \subseteq Message, orphaned' \subseteq Message,
           inbox' = IF label = "idle" THEN [inbox EXCEPT ![job[w]] = @ - 1] ELSE inbox,
           UNCHANGED <<rows, primary, world, job, tx, tries, docs, overlapped>>
    PROVE  WInv'
  <1>1. /\ UNCHANGED <<pages, splits, envelope, lanes, queued, primary, job, tx, tries, docs, overlapped>>
        /\ UNCHANGED <<active, splittable>>
    BY DEF rows, world
  <1>2. Moves(w, label, job[w], tx[w])
    BY <1>1 DEF Moves, WInv, WorkTypeOK
  <1>3. CopyForEach' /\ inbox' \in [Message -> Nat] /\ \A m \in Message : inbox'[m] <= inbox[m]
    <2>1. CASE label = "idle"
      BY <1>2, <2>1, EndKeepsCopies
    <2>2. CASE label = "failed"
      <3>1. inbox' = inbox
        BY <2>2
      <3>2. inbox' \in [Message -> Nat] /\ \A m \in Message : inbox'[m] <= inbox[m] /\ inbox'[m] >= inbox[m]
        BY <3>1 DEF WInv, WorkTypeOK
      <3> QED
        BY <1>2, <2>2, <3>2, WorkKeepsCopies
    <2> QED
      BY <2>1, <2>2
  <1>4. WorkTypeOK'
    BY <1>1, <1>3 DEF WInv, WorkTypeOK
  <1>5. JobsAreKnown' /\ StoredPages' /\ Pinning'
    BY <1>1, <1>2 DEF Moves, WInv, JobsAreKnown, InTriage, StoredPages, Pinning
  <1>6. OneVersionPerPage' /\ SplitLeavesPages'
    BY <1>1 DEF WInv, OneVersionPerPage, SplitLeavesPages
  <1>7. Overlapping' /\ SplitOnceUnlessOverlapped'
    BY <1>1, <1>2 DEF Moves, WInv, Overlapping, SplitOnceUnlessOverlapped
  <1>8. CopiesNeedFault'
    <2>1. ASSUME NEW d \in Source
          PROVE  inbox'[ForDocument(d)] <= IF d \in docs' THEN 1 + faults' ELSE 0
      <3>1. /\ inbox[ForDocument(d)] <= (IF d \in docs THEN 1 + faults ELSE 0)
            /\ inbox[ForDocument(d)] \in Nat /\ inbox'[ForDocument(d)] \in Nat
            /\ inbox'[ForDocument(d)] <= inbox[ForDocument(d)]
        BY <1>3, Messages DEF WInv, WorkTypeOK, CopiesNeedFault
      <3> QED
        BY <1>1, <3>1
    <2> QED
      BY <2>1 DEF CopiesNeedFault
  <1>9. SplitsNeedFault'
    <2>1. ASSUME NEW d \in Source PROVE splits'[d] + Cardinality(Splitters(d)') <= 1 + faults'
      <3>1. Splitters(d)' \subseteq Splitters(d)
        BY <1>2 DEF Moves, Splitters
      <3>2. Cardinality(Splitters(d)') <= Cardinality(Splitters(d)) /\ Cardinality(Splitters(d)') \in Nat
        BY <3>1, CrowdsAreFinite, FS_Subset, FS_CardinalityType
      <3>3. splits[d] + Cardinality(Splitters(d)) <= 1 + faults /\ splits[d] \in Nat
        BY IntakeAssumption DEF WInv, SplitsNeedFault, WorkTypeOK
      <3> QED
        BY <1>1, <3>2, <3>3, CrowdsAreFinite
    <2> QED
      BY <2>1 DEF SplitsNeedFault
  <1> QED
    BY <1>3, <1>4, <1>5, <1>6, <1>7, <1>8, <1>9 DEF WInv

LEMMA EndsStep ==
    ASSUME CInv, WInv, NEW w \in Worker,
           Unsplittable(w) \/ Ack(w) \/ GiveUp(w) \/ WorkerFails(w) \/ Killed(w)
    PROVE  WInv'
  <1>1. /\ pc[w] # "idle" /\ job[w] \in Message
        /\ pc' \in {[pc EXCEPT ![w] = "idle"], [pc EXCEPT ![w] = "failed"]}
        /\ UNCHANGED <<rows, primary, world, job, tx, tries, overlapped>>
        /\ faults' = faults \/ faults' = faults + 1
    BY DEF Unsplittable, Ack, GiveUp, WorkerFails, Killed, Raised, Settled, WInv, WorkTypeOK
  <1>2. \/ pc' = [pc EXCEPT ![w] = "idle"] /\ inbox' = [inbox EXCEPT ![job[w]] = @ - 1]
        \/ pc' = [pc EXCEPT ![w] = "failed"] /\ inbox' = inbox
    BY DEF Unsplittable, Ack, GiveUp, WorkerFails, Killed, Raised, Settled
  <1>3. dead' \in {dead, dead \cup {job[w]}} /\ orphaned' \in {orphaned, orphaned \cup {job[w]}}
    BY DEF Unsplittable, Ack, GiveUp, WorkerFails, Killed, Raised, Settled
  <1>4. docs' = docs
    BY DEF Unsplittable, Ack, GiveUp, WorkerFails, Killed, Raised, custody
  <1>5. dead' \subseteq Message /\ orphaned' \subseteq Message
    BY <1>1, <1>3 DEF WInv, WorkTypeOK
  <1>6. faults \in Nat /\ faults' \in Nat /\ faults' >= faults
    BY <1>1 DEF CInv, CustodyTypeOK
  <1>7. CASE pc' = [pc EXCEPT ![w] = "idle"] /\ inbox' = [inbox EXCEPT ![job[w]] = @ - 1]
    BY <1>1, <1>4, <1>5, <1>6, <1>7, LeaveStep
  <1>8. CASE pc' = [pc EXCEPT ![w] = "failed"] /\ inbox' = inbox
    BY <1>1, <1>4, <1>5, <1>6, <1>8, LeaveStep
  <1> QED
    BY <1>2, <1>7, <1>8

LEMMA BeginSplitStep ==
    ASSUME CInv, WInv, NEW w \in Worker, NEW s \in Source, BeginSplit(w, s)
    PROVE  WInv'
  <1> DEFINE label == IF \E p \in pages : p.doc = s THEN "ack" ELSE "splitting"
             m == ForDocument(s)
  <1>1. /\ (pc[w] = "idle" /\ Deliverable(m)) \/ (pc[w] = "failed" /\ job[w] = m)
        /\ m \in Message /\ tries' \in [Worker -> 0..MaxDeliveries]
        /\ pc' = [pc EXCEPT ![w] = label] /\ job' = [job EXCEPT ![w] = m] /\ tx' = [tx EXCEPT ![w] = 0]
        /\ overlapped' = overlapped \cup Splitting(s)
        /\ UNCHANGED <<primary, rows, mail, world, docs, faults>>
    BY Messages, DeliverStep DEF BeginSplit, Begin, custody
  <1>2. CASE label = "ack"
    <2>1. Turns(w, "ack", m, 0)
      BY <1>1, <1>2 DEF Turns, Label
    <2> QED
      BY <2>1, TurnStep DEF InTriage
  <1>3. CASE label = "splitting"
    <2>1. Moves(w, "splitting", m, 0)
      BY <1>1, <1>3 DEF Moves, WInv, WorkTypeOK
    <2>2. UNCHANGED <<pages, splits, envelope, lanes, queued, primary, inbox, dead, orphaned, docs, faults>>
          /\ UNCHANGED <<active, splittable>>
      BY <1>1 DEF rows, mail, world
    <2>3. splits[s] = 0
      BY <1>3 DEF WInv, WorkTypeOK, SplitLeavesPages
    <2>4. WorkTypeOK'
      BY <1>1, <1>3, <2>2 DEF WInv, WorkTypeOK
    <2>5. JobsAreKnown' /\ StoredPages' /\ Pinning'
      BY <2>1, <2>2 DEF Moves, WInv, JobsAreKnown, InTriage, StoredPages, Pinning
    <2>6. OneVersionPerPage' /\ SplitLeavesPages' /\ CopiesNeedFault'
      BY <2>2 DEF WInv, OneVersionPerPage, SplitLeavesPages, CopiesNeedFault
    <2>7. SplitOnceUnlessOverlapped'
      BY <1>1, <2>2 DEF WInv, SplitOnceUnlessOverlapped
    <2>8. Overlapping'
      <3> SUFFICES ASSUME NEW u \in Worker, NEW d \in Source, pc'[u] = "splitting",
                          job'[u] = ForDocument(d)
                   PROVE  /\ splits[d] > 0 => d \in overlapped'
                          /\ \A v \in Worker \ {u} :
                                pc'[v] = "splitting" /\ job'[v] = job'[u] => d \in overlapped'
        BY <2>2 DEF Overlapping
      <3>1. \A v \in Worker \ {w} : pc[v] = "splitting" /\ job[v] = m => s \in overlapped'
        BY <1>1, Messages DEF Splitting, With
      <3>2. CASE u = w
        BY <2>1, <2>3, <3>1, <3>2, Messages DEF Moves
      <3>3. CASE u # w
        BY <1>1, <2>1, <3>1, <3>3, Messages DEF Moves, WInv, Overlapping
      <3> QED
        BY <3>2, <3>3
    <2>9. CopyForEach'
      <3>1. CASE pc[w] = "idle"
        BY <1>1, <2>1, <2>2, <3>1, BeginKeepsCopies
      <3>2. CASE pc[w] = "failed"
        <4>1. \A n \in Message : inbox'[n] \in Nat /\ inbox'[n] >= inbox[n]
          BY <2>2 DEF WInv, WorkTypeOK
        <4> QED
          BY <1>1, <2>1, <3>2, <4>1, WorkKeepsCopies
      <3> QED
        BY <1>1, <3>1, <3>2
    <2>10. SplitsNeedFault'
      <3> SUFFICES ASSUME NEW d \in Source PROVE splits[d] + Cardinality(Splitters(d)') <= 1 + faults
        BY <2>2 DEF SplitsNeedFault
      <3>1. CASE d # s
        <4>1. Splitters(d)' = Splitters(d)
          BY <2>1, <3>1, <1>1, Messages DEF Moves, Splitters
        <4> QED
          BY <4>1 DEF WInv, SplitsNeedFault
      <3>2. CASE d = s
        <4>1. Splitters(d)' \subseteq With(m)'
          BY <1>1, <2>1, <3>2, Messages DEF Moves, Splitters, With
        <4>2. Cardinality(Splitters(d)') <= Cardinality(With(m)')
          <5>1. With(m)' \subseteq Worker
            BY DEF With
          <5> QED
            BY <4>1, <5>1, IntakeAssumption, FS_Subset
        <4>3. Cardinality(With(m)') <= inbox[m] /\ inbox[m] \in Nat
          BY <1>1, <2>2, <2>9 DEF CopyForEach, WInv, WorkTypeOK
        <4>4. inbox[m] <= 1 + faults /\ faults \in Nat
          <5>1. inbox[m] <= (IF s \in docs THEN 1 + faults ELSE 0) /\ faults \in Nat
            BY DEF WInv, CopiesNeedFault, CInv, CustodyTypeOK
          <5> QED
            BY <4>3, <5>1
        <4>5. Cardinality(Splitters(d)') \in Nat /\ Cardinality(With(m)') \in Nat
          <5>1. Splitters(d)' \subseteq Worker /\ With(m)' \subseteq Worker
            BY DEF Splitters, With
          <5> QED
            BY <5>1, IntakeAssumption, FS_Subset, FS_CardinalityType
        <4> QED
          BY <2>3, <3>2, <4>2, <4>3, <4>4, <4>5
      <3> QED
        BY <3>1, <3>2
    <2> QED
      BY <2>4, <2>5, <2>6, <2>7, <2>8, <2>9, <2>10 DEF WInv
  <1> QED
    BY <1>2, <1>3

LEMMA StorePageStep ==
    ASSUME WInv, NEW w \in Worker, StorePage(w)
    PROVE  WInv'
  <1> DEFINE d == job[w].doc  n == tx[w] + 1
  <1>1. /\ pc[w] = "splitting" /\ tx[w] < NumPages /\ tx' = [tx EXCEPT ![w] = n]
        /\ primary' = primary \cup {<<DigestOf[d], n>>}
        /\ UNCHANGED <<rows, inbox, dead, orphaned, world, pc, job, tries, overlapped, faults, docs>>
    BY DEF StorePage, custody, mail
  <1>2. (\E s \in Source : job[w] = ForDocument(s)) /\ d \in Source /\ DigestOf[d] \in Digests
    BY <1>1, Messages DEF WInv, JobsAreKnown, Digests
  <1>3. tx[w] \in Nat /\ n \in 1..NumPages /\ NumPages \in Nat
    BY <1>1, IntakeAssumption DEF WInv, WorkTypeOK
  <1>4. Moves(w, "splitting", job[w], n)
    BY <1>1 DEF Moves, WInv, WorkTypeOK
  <1>5. UNCHANGED <<pages, splits, envelope, lanes, queued, inbox, dead, orphaned, docs, faults>>
        /\ UNCHANGED <<active, splittable>>
    BY <1>1 DEF rows, world
  <1>6. WorkTypeOK'
    BY <1>1, <1>2, <1>3, <1>5 DEF WInv, WorkTypeOK
  <1>7. JobsAreKnown' /\ Pinning'
    BY <1>1, <1>4, <1>5 DEF Moves, WInv, JobsAreKnown, Pinning
  <1>8. StoredPages'
    <2>1. ASSUME NEW v \in Worker, pc'[v] = "splitting", NEW i \in 1..NumPages, i <= tx'[v]
          PROVE  <<DigestOf[job'[v].doc], i>> \in primary'
      <3>1. CASE v = w /\ i = n
        BY <1>1, <1>4, <3>1 DEF Moves
      <3>2. CASE ~(v = w /\ i = n)
        <4>1. i <= tx[v]
          BY <1>3, <1>4, <2>1, <3>2 DEF Moves
        <4> QED
          BY <1>1, <2>1, <4>1 DEF WInv, StoredPages
      <3> QED
        BY <3>1, <3>2
    <2>2. \A p \in pages' : <<DigestOf[p.doc], p.index>> \in primary'
      BY <1>1, <1>5 DEF WInv, StoredPages
    <2> QED
      BY <2>1, <2>2 DEF StoredPages
  <1>9. OneVersionPerPage' /\ SplitLeavesPages' /\ CopiesNeedFault'
    BY <1>5 DEF WInv, OneVersionPerPage, SplitLeavesPages, CopiesNeedFault
  <1>10. Overlapping' /\ SplitOnceUnlessOverlapped'
    BY <1>1, <1>5 DEF WInv, Overlapping, SplitOnceUnlessOverlapped
  <1>11. CopyForEach' /\ SplitsNeedFault'
    <2>1. \A m \in Message : With(m)' = With(m)
      BY <1>1 DEF With
    <2>2. \A x \in Source : Splitters(x)' = Splitters(x)
      BY <1>1 DEF Splitters
    <2> QED
      BY <1>5, <2>1, <2>2 DEF WInv, CopyForEach, SplitsNeedFault
  <1> QED
    BY <1>6, <1>7, <1>8, <1>9, <1>10, <1>11 DEF WInv

LEMMA CommitSplitStep ==
    ASSUME CInv, WInv, NEW w \in Worker, CommitSplit(w)
    PROVE  WInv'
  <1> DEFINE d == job[w].doc
             new == [doc : {d}, index : 1..NumPages, split : {splits[d] + 1}]
             fresh == {ForPage(p) : p \in new}
  <1>1. /\ pc[w] = "splitting" /\ pc' = [pc EXCEPT ![w] = "ack"] /\ tx[w] = NumPages
        /\ pages' = pages \cup new /\ splits' = [splits EXCEPT ![d] = @ + 1]
        /\ inbox' = [m \in Message |-> inbox[m] + (IF m \in fresh THEN 1 ELSE 0)]
        /\ UNCHANGED <<primary, envelope, lanes, queued, dead, orphaned, world, job, tx, tries, overlapped,
                        faults>>
    BY DEF CommitSplit, Step
  <1>2. docs' = docs /\ UNCHANGED <<active, splittable>>
    BY <1>1 DEF CommitSplit, custody, world
  <1>3. job[w] = ForDocument(d) /\ d \in Source
    BY <1>1, Messages DEF WInv, JobsAreKnown
  <1>4. faults \in 0..MaxFaults /\ MaxFaults \in Nat /\ NumPages \in Nat \ {0} /\ splits[d] \in Nat
    BY <1>3, IntakeAssumption DEF CInv, CustodyTypeOK, WInv, WorkTypeOK
  <1>5. w \in Splitters(d) /\ splits[d] + Cardinality(Splitters(d)) <= 1 + faults
    BY <1>1, <1>3 DEF Splitters, WInv, SplitsNeedFault
  <1>6. splits[d] + 1 \in 1..(MaxFaults + 1)
    <2>1. Cardinality(Splitters(d)) # 0
      BY <1>5, CrowdsAreFinite, FS_EmptySet
    <2> QED
      BY <1>4, <1>5, <2>1, CrowdsAreFinite
  <1>7. new \subseteq PageRow
    BY <1>3, <1>6 DEF PageRow
  <1>8. Moves(w, "ack", job[w], tx[w])
    BY <1>1 DEF Moves, WInv, WorkTypeOK
  <1>9. /\ inbox' \in [Message -> Nat]
        /\ \A m \in Message : inbox'[m] \in Nat /\ inbox'[m] >= inbox[m]
        /\ \A s \in Source : inbox'[ForDocument(s)] = inbox[ForDocument(s)]
    <2>1. inbox \in [Message -> Nat]
      BY DEF WInv, WorkTypeOK
    <2>2. \A s \in Source : ForDocument(s) \in Message /\ ForDocument(s) \notin fresh
      BY <1>7, Messages
    <2> QED
      BY <1>1, <2>1, <2>2
  <1>10. WorkTypeOK'
    <2>1. splits' \in [Source -> 0..(MaxFaults + 1)]
      <3>1. splits[d] + 1 \in 0..(MaxFaults + 1)
        BY <1>4, <1>6
      <3>2. splits \in [Source -> 0..(MaxFaults + 1)] /\ splits' = [splits EXCEPT ![d] = splits[d] + 1]
        BY <1>1, <1>3 DEF WInv, WorkTypeOK
      <3> HIDE DEF d
      <3> QED
        BY <3>1, <3>2
    <2>2. pc' \in [Worker -> Label] /\ UNCHANGED <<job, tx, tries>>
      BY <1>1 DEF WInv, WorkTypeOK, Label
    <2>3. pages' \subseteq PageRow /\ pages \subseteq pages'
      BY <1>1, <1>7 DEF WInv, WorkTypeOK
    <2>4. lanes' \subseteq [page : pages', queue : {"TEXT_QUEUE", "MAP_QUEUE"}, version : 1..active']
      BY <1>1, <1>2, <2>3 DEF WInv, WorkTypeOK
    <2>5. UNCHANGED <<primary, splittable, envelope, queued, dead, orphaned, active, job, tx, tries>>
      BY <1>1, <1>2
    <2>6. WorkTypeOK
      BY DEF WInv
    <2> HIDE DEF new, fresh, d
    <2> QED
      BY <1>9, <2>1, <2>2, <2>3, <2>4, <2>5, <2>6 DEF WorkTypeOK, Label
  <1>11. JobsAreKnown'
    BY <1>1, <1>8 DEF Moves, WInv, JobsAreKnown, InTriage
  <1>12. StoredPages'
    <2>1. \A v \in Worker : pc'[v] = "splitting" =>
             \A i \in 1..NumPages : i <= tx'[v] => <<DigestOf[job'[v].doc], i>> \in primary'
      BY <1>1, <1>8 DEF Moves, WInv, StoredPages
    <2>2. ASSUME NEW p \in new PROVE <<DigestOf[p.doc], p.index>> \in primary
      BY <1>1, <1>4 DEF WInv, StoredPages
    <2> QED
      BY <1>1, <2>1, <2>2 DEF WInv, StoredPages
  <1>13. Pinning'
    BY <1>1, <1>2, <1>8 DEF Moves, WInv, Pinning
  <1>14. OneVersionPerPage'
    BY <1>1 DEF WInv, OneVersionPerPage
  <1>15. Overlapping'
    <2> SUFFICES ASSUME NEW u \in Worker, NEW e \in Source, pc'[u] = "splitting", job'[u] = ForDocument(e)
                 PROVE  /\ splits'[e] > 0 => e \in overlapped
                        /\ \A v \in Worker \ {u} :
                              pc'[v] = "splitting" /\ job'[v] = job'[u] => e \in overlapped
      BY <1>1 DEF Overlapping
    <2>1. u # w /\ pc[u] = "splitting" /\ job[u] = ForDocument(e)
      BY <1>8 DEF Moves
    <2>2. CASE e = d
      BY <1>1, <1>3, <2>1, <2>2 DEF WInv, Overlapping
    <2>3. CASE e # d
      <3>1. splits'[e] = splits[e]
        BY <1>1, <2>3 DEF WInv, WorkTypeOK
      <3> QED
        BY <1>8, <2>1, <3>1 DEF Moves, WInv, Overlapping
    <2> QED
      BY <2>2, <2>3
  <1>16. SplitOnceUnlessOverlapped'
    <2> SUFFICES ASSUME NEW e \in Source, splits'[e] > 1 PROVE e \in overlapped
      BY <1>1 DEF SplitOnceUnlessOverlapped
    <2>1. CASE e = d
      <3>1. splits[d] > 0
        BY <1>1, <1>3, <1>4, <2>1 DEF WInv, WorkTypeOK
      <3> QED
        BY <1>1, <1>3, <2>1, <3>1 DEF WInv, Overlapping
    <2>2. CASE e # d
      BY <1>1, <2>2 DEF WInv, WorkTypeOK, SplitOnceUnlessOverlapped
    <2> QED
      BY <2>1, <2>2
  <1>17. SplitLeavesPages'
    <2>1. [doc |-> d, index |-> 1, split |-> splits[d] + 1] \in new
      BY <1>4
    <2>2. \E p \in pages' : p.doc = d
      BY <1>1, <2>1
    <2>3. \A e \in Source : e # d => splits'[e] = splits[e]
      BY <1>1 DEF WInv, WorkTypeOK
    <2> QED
      BY <1>1, <2>2, <2>3 DEF WInv, SplitLeavesPages
  <1>18. CopyForEach'
    BY <1>1, <1>8, <1>9, WorkKeepsCopies
  <1>19. CopiesNeedFault'
    BY <1>1, <1>2, <1>9 DEF WInv, CopiesNeedFault
  <1>20. SplitsNeedFault'
    <2> SUFFICES ASSUME NEW e \in Source PROVE splits'[e] + Cardinality(Splitters(e)') <= 1 + faults
      BY <1>1 DEF SplitsNeedFault
    <2>1. CASE e = d
      <3>1. Splitters(d)' = Splitters(d) \ {w}
        <4>1. ForDocument(d)' = ForDocument(d)
          BY <1>1 DEF ForDocument
        <4> QED
          BY <1>3, <1>8, <4>1 DEF Moves, Splitters
      <3>2. Cardinality(Splitters(d) \ {w}) = Cardinality(Splitters(d)) - 1
        BY <1>5, CrowdsAreFinite, FS_RemoveElement
      <3>3. splits'[d] = splits[d] + 1
        BY <1>1, <1>3 DEF WInv, WorkTypeOK
      <3> QED
        BY <1>1, <1>4, <1>5, <2>1, <3>1, <3>2, <3>3, CrowdsAreFinite
    <2>2. CASE e # d
      <3>1. Splitters(e)' = Splitters(e)
        BY <1>1, <1>3, <1>8, <2>2, Messages DEF Moves, Splitters
      <3>2. splits'[e] = splits[e]
        BY <1>1, <2>2 DEF WInv, WorkTypeOK
      <3> QED
        BY <3>1, <3>2 DEF WInv, SplitsNeedFault
    <2> QED
      BY <2>1, <2>2
  <1> QED
    BY <1>10, <1>11, <1>12, <1>13, <1>14, <1>15, <1>16, <1>17, <1>18, <1>19, <1>20 DEF WInv

\* The envelope is the one pinned before, or the first; no other transaction
\* has read it as missing.
LEMMA CommitTriageStep ==
    ASSUME CInv, WInv, NEW w \in Worker, CommitTriage(w)
    PROVE  WInv'
  <1> DEFINE p == job[w].page
             queue == LaneFor(ClassOf[p.index].doc_type, ClassOf[p.index].page_role)
  <1>1. /\ pc[w] \in {"route", "pinned"} /\ pc' = [pc EXCEPT ![w] = "ack"]
        /\ envelope' = [envelope EXCEPT ![p] = tx[w]]
        /\ lanes' = lanes \cup [page : {p}, queue : queue, version : {tx[w]}]
        /\ queued' = [queued EXCEPT ![p] = @ + 1]
        /\ UNCHANGED <<primary, pages, splits, inbox, dead, orphaned, world, job, tx, tries, overlapped, faults>>
    BY DEF CommitTriage, Step, mail
  <1>2. docs' = docs /\ UNCHANGED <<active, splittable>>
    BY DEF CommitTriage, custody, world
  <1>3. job[w] = ForPage(p) /\ p \in pages /\ p \in PageRow
    BY <1>1, Messages DEF WInv, WorkTypeOK, JobsAreKnown, InTriage
  <1>4. tx[w] \in 1..active /\ active \in Nat
    BY <1>1, IntakeAssumption DEF WInv, WorkTypeOK, Pinning
  <1>5. queue \subseteq {"TEXT_QUEUE", "MAP_QUEUE"}
    BY DEF LaneFor
  <1>6. \A q \in PageRow : envelope'[q] = IF q = p THEN tx[w] ELSE envelope[q]
    BY <1>1 DEF WInv, WorkTypeOK
  <1>7. envelope[p] = tx[w] \/ envelope[p] = NoVersion
    BY <1>1 DEF WInv, Pinning
  <1>8. Moves(w, "ack", job[w], tx[w])
    BY <1>1 DEF Moves, WInv, WorkTypeOK
  <1>9. WorkTypeOK'
    <2>1. pc' \in [Worker -> Label]
      BY <1>1 DEF WInv, WorkTypeOK, Label
    <2>2. envelope' \in [PageRow -> 0..active]
      <3>1. tx[w] \in 0..active
        BY <1>4
      <3> QED
        BY <1>1, <3>1 DEF WInv, WorkTypeOK
    <2>3. lanes' \subseteq [page : pages, queue : {"TEXT_QUEUE", "MAP_QUEUE"}, version : 1..active]
      <3>1. [page : {p}, queue : queue, version : {tx[w]}]
               \subseteq [page : pages, queue : {"TEXT_QUEUE", "MAP_QUEUE"}, version : 1..active]
        BY <1>3, <1>4, <1>5
      <3> QED
        BY <1>1, <3>1 DEF WInv, WorkTypeOK
    <2>4. queued' \in [PageRow -> Nat]
      <3>1. queued \in [PageRow -> Nat] /\ queued[p] + 1 \in Nat
        BY <1>3 DEF WInv, WorkTypeOK
      <3>2. queued' = [queued EXCEPT ![p] = queued[p] + 1]
        BY <1>1
      <3> HIDE DEF p
      <3> QED
        BY <3>1, <3>2
    <2>5. UNCHANGED <<primary, splittable, pages, splits, inbox, dead, orphaned, active, job, tx, tries>>
      BY <1>1, <1>2
    <2>6. WorkTypeOK
      BY DEF WInv
    <2> HIDE DEF p, queue
    <2> QED
      BY <2>1, <2>2, <2>3, <2>4, <2>5, <2>6 DEF WorkTypeOK, Label
  <1>10. JobsAreKnown' /\ StoredPages'
    BY <1>1, <1>8 DEF Moves, WInv, JobsAreKnown, InTriage, StoredPages
  <1>11. Pinning'
    <2> SUFFICES ASSUME NEW u \in Worker
                 PROVE  /\ pc'[u] \in {"pin", "pinned", "route"} => tx'[u] \in 1..active
                        /\ pc'[u] = "route" => envelope'[job'[u].page] = tx'[u]
                        /\ pc'[u] = "pinned" => envelope'[job'[u].page] = NoVersion
                        /\ \A v \in Worker \ {u} : pc'[u] = "pinned" /\ pc'[v] = "pinned" => job'[u] # job'[v]
      BY <1>2 DEF Pinning
    <2>1. CASE u = w
      BY <1>8, <2>1 DEF Moves
    <2>2. CASE u # w
      <3>1. pc'[u] = pc[u] /\ tx'[u] = tx[u] /\ job'[u] = job[u]
        BY <1>8, <2>2 DEF Moves
      <3>2. /\ pc[u] \in {"pin", "pinned", "route"} => tx[u] \in 1..active
            /\ pc[u] = "route" => envelope[job[u].page] = tx[u]
            /\ pc[u] = "pinned" => envelope[job[u].page] = NoVersion
            /\ \A v \in Worker \ {u} : pc[u] = "pinned" /\ pc[v] = "pinned" => job[u] # job[v]
        BY DEF WInv, Pinning
      <3>3. pc[u] \in {"pinned", "route"} => job[u] = ForPage(job[u].page) /\ job[u].page \in PageRow
        BY Messages DEF WInv, WorkTypeOK, JobsAreKnown, InTriage
      <3>4. ASSUME pc[u] = "route", job[u].page = p PROVE tx[u] = tx[w]
        <4>1. tx[u] = envelope[p] /\ tx[u] \in 1..active
          BY <3>2, <3>4
        <4> QED
          BY <4>1, <1>4, <1>7 DEF NoVersion
      <3>5. ASSUME pc[u] = "pinned", job[u].page = p PROVE FALSE
        <4>1. envelope[p] = NoVersion /\ job[u] = job[w]
          BY <1>3, <3>2, <3>3, <3>5
        <4>2. pc[w] = "pinned"
          BY <1>1, <1>4, <4>1 DEF NoVersion, WInv, Pinning
        <4> QED
          BY <2>2, <3>2, <3>5, <4>1, <4>2
      <3>6. pc[u] = "route" => envelope'[job[u].page] = tx[u]
        BY <1>6, <3>2, <3>3, <3>4
      <3>7. pc[u] = "pinned" => envelope'[job[u].page] = NoVersion
        BY <1>6, <3>2, <3>3, <3>5
      <3>8. \A v \in Worker \ {u} : pc[u] = "pinned" /\ pc'[v] = "pinned" => job[u] # job'[v]
        BY <1>8, <3>2 DEF Moves
      <3> QED
        BY <3>1, <3>2, <3>6, <3>7, <3>8
    <2> QED
      BY <2>1, <2>2
  <1>12. OneVersionPerPage'
    <2> SUFFICES ASSUME NEW r \in lanes' PROVE r.version = envelope'[r.page]
      BY DEF OneVersionPerPage
    <2>1. CASE r \in lanes
      <3>1. r.version = envelope[r.page] /\ r.page \in PageRow /\ r.version \in 1..active
        BY <2>1 DEF WInv, WorkTypeOK, OneVersionPerPage
      <3> QED
        BY <1>4, <1>6, <1>7, <3>1 DEF NoVersion
    <2>2. CASE r \notin lanes
      BY <1>1, <1>3, <1>6, <2>2
    <2> QED
      BY <2>1, <2>2
  <1>13. SplitLeavesPages' /\ CopiesNeedFault'
    BY <1>1, <1>2 DEF WInv, SplitLeavesPages, CopiesNeedFault
  <1>14. Overlapping' /\ SplitOnceUnlessOverlapped'
    BY <1>1, <1>8 DEF Moves, WInv, Overlapping, SplitOnceUnlessOverlapped
  <1>15. CopyForEach'
    <2>1. \A m \in Message : inbox'[m] \in Nat /\ inbox'[m] >= inbox[m]
      BY <1>1 DEF WInv, WorkTypeOK
    <2> QED
      BY <1>1, <1>8, <2>1, WorkKeepsCopies
  <1>16. SplitsNeedFault'
    <2>1. \A d \in Source : Splitters(d)' = Splitters(d)
      BY <1>1, <1>8 DEF Moves, Splitters
    <2> QED
      BY <1>1, <2>1 DEF WInv, SplitsNeedFault
  <1> QED
    BY <1>9, <1>10, <1>11, <1>12, <1>13, <1>14, <1>15, <1>16 DEF WInv

\* What a worker does, or happens around it, leaves custody alone.
LEMMA WorkRests ==
    ASSUME CInv,
           (\E w \in Worker : Handle(w) \/ WorkerFails(w) \/ Killed(w)) \/ (\E m \in Message : Copied(m)) \/ Promote
    PROVE  CInv'
  <1>1. UNCHANGED custody
    BY DEF Handle, BeginSplit, BeginTriage, StorePage, CommitSplit, Unsplittable, Resolve, Pin,
           CommitTriage, Ack, GiveUp, WorkerFails, Killed, Raised, Copied, Promote
  <1>2. primary \subseteq primary' /\ overlapped \subseteq overlapped'
    BY DEF Handle, BeginSplit, BeginTriage, StorePage, CommitSplit, Unsplittable, Resolve, Pin,
           CommitTriage, Ack, GiveUp, WorkerFails, Killed, Raised, Copied, Promote
  <1>3. faults' = faults \/ (faults < MaxFaults /\ faults' = faults + 1)
    BY DEF Handle, BeginSplit, BeginTriage, StorePage, CommitSplit, Unsplittable, Resolve, Pin,
           CommitTriage, Ack, GiveUp, WorkerFails, Killed, Raised, Copied, Promote
  <1>4. faults' \in faults..MaxFaults
    BY <1>3, IntakeAssumption DEF CInv, CustodyTypeOK
  <1> QED
    BY <1>1, <1>2, <1>4, CustodyRestsStep DEF CustodyRests

------------------------------------------------------------------------------
(* The invariant.                                                            *)

IInv == CInv /\ WInv

LEMMA InitInv == Init => IInv
  <1> SUFFICES ASSUME Init PROVE IInv
    OBVIOUS
  <1>1. CInv
    BY IntakeAssumption
       DEF Init, CInv, CustodyTypeOK, StoredOnTheWay, StoredDocs, Inserting, OneDocumentUnlessOverlapped,
           SidecarLostHalfWay
  <1>2. (CHOOSE m \in Message : TRUE) \in Message
    <2>1. \E m \in Message : TRUE
      BY IntakeAssumption, Messages
    <2> QED
      BY <2>1
  <1>3. job \in [Worker -> Message]
    BY <1>2 DEF Init
  <1>4. WorkTypeOK
    BY <1>3, IntakeAssumption DEF Init, WorkTypeOK, NoVersion
  <1>5. /\ JobsAreKnown /\ StoredPages /\ Pinning /\ OneVersionPerPage /\ Overlapping
        /\ SplitOnceUnlessOverlapped /\ SplitLeavesPages
    BY DEF Init, JobsAreKnown, InTriage, StoredPages, Pinning, OneVersionPerPage, Overlapping,
           SplitOnceUnlessOverlapped, SplitLeavesPages
  <1>6. /\ \A m : With(m) = {} /\ Cardinality(With(m)) = 0
        /\ \A d : Splitters(d) = {} /\ Cardinality(Splitters(d)) = 0
    BY FS_EmptySet DEF Init, With, Splitters
  <1>7. CopyForEach /\ SplitsNeedFault
    BY <1>6 DEF Init, CopyForEach, SplitsNeedFault
  <1>8. CopiesNeedFault
    BY Messages DEF Init, CopiesNeedFault
  <1> QED
    BY <1>1, <1>4, <1>5, <1>7, <1>8 DEF IInv, WInv

LEMMA NextInv ==
    ASSUME IInv, [Next]_vars
    PROVE  IInv'
  <1> USE DEF IInv
  <1>1. ASSUME NEW s \in Source, Custody(s) PROVE IInv'
    <2>1. CASE CommitCustody(s)
      BY <2>1, CommitCustodyStep, CommitCustodyAround
    <2>2. CASE ~CommitCustody(s)
      BY <1>1, <2>2, EarlyStep, RefuseStep, LookUpStep, CustodyAround DEF Custody
    <2> QED
      BY <2>1, <2>2
  <1>2. ASSUME NEW s \in Source, Describe(s) PROVE IInv'
    BY <1>2, DescribeStep, CustodyAround
  <1>3. ASSUME NEW w \in Worker, Handle(w) PROVE IInv'
    <2>1. CInv'
      BY <1>3, WorkRests
    <2>2. WInv'
      BY <1>3, BeginSplitStep, BeginTriageStep, StorePageStep, CommitSplitStep, EndsStep, ResolveStep,
         PinStep, CommitTriageStep DEF Handle
    <2> QED
      BY <2>1, <2>2
  <1>4. ASSUME Faults PROVE IInv'
    <2>1. ASSUME NEW s \in Source, Interrupted(s) PROVE IInv'
      BY <2>1, InterruptedStep, CustodyAround
    <2>2. ASSUME NEW w \in Worker, WorkerFails(w) \/ Killed(w) PROVE IInv'
      BY <2>2, WorkRests, EndsStep
    <2>3. ASSUME NEW m \in Message, Copied(m) PROVE IInv'
      BY <2>3, WorkRests, CopiedAround
    <2> QED
      BY <1>4, <2>1, <2>2, <2>3 DEF Faults
  <1>5. CASE Promote
    BY <1>5, WorkRests, PromoteAround
  <1>6. CASE UNCHANGED vars
    <2>1. UNCHANGED custody /\ UNCHANGED <<rows, mail, world, workers, primary, overlapped, faults>>
      BY <1>6 DEF vars
    <2>2. faults \in 0..MaxFaults
      BY DEF CInv, CustodyTypeOK
    <2>3. CInv'
      BY <2>1, <2>2, IntakeAssumption, CustodyRestsStep DEF CustodyRests
    <2>4. docs' = docs /\ active' = active /\ splittable' = splittable
      BY <2>1 DEF custody, world
    <2>5. Around
      BY <2>1, <2>2, <2>4 DEF Around, WInv, WorkTypeOK, mail
    <2>6. CopiesNeedFault'
      BY <2>1, <2>4 DEF WInv, CopiesNeedFault, mail
    <2> QED
      BY <2>3, <2>5, <2>6, AroundStep
  <1> QED
    BY <1>1, <1>2, <1>3, <1>4, <1>5, <1>6 DEF Next

LEMMA Invariance == Spec => []IInv
  BY InitInv, NextInv, PTL DEF Spec

------------------------------------------------------------------------------
(* The theorems.                                                             *)

\* Files, rows, messages and workers are always what they are meant to be; in
\* particular no document is ever split more often than faults allow.
THEOREM TypeCorrect == Spec => []TypeOK
  <1>1. IInv => TypeOK
    BY DEF IInv, CInv, CustodyTypeOK, WInv, WorkTypeOK, TypeOK
  <1> QED
    BY <1>1, Invariance, PTL

\* No document and no page row without its bytes (ingest.ingest_document,
\* ingestion_consumer.handle).
THEOREM CustodyHolds == Spec => []CustodyBeforeRow
  <1>1. IInv => CustodyBeforeRow
    BY DEF IInv, CInv, StoredDocs, WInv, StoredPages, CustodyBeforeRow
  <1> QED
    BY <1>1, Invariance, PTL

\* A second document of one file, or a second split of one document, needs two
\* transactions that overlapped (ingest.py:157, ingestion_consumer.py:57).
THEOREM DoublesNeedOverlap == Spec => []OnceUnlessOverlapped
  <1>1. IInv => OnceUnlessOverlapped
    BY DEF IInv, CInv, WInv, OnceUnlessOverlapped
  <1> QED
    BY <1>1, Invariance, PTL

\* Every lane works on a page with the version its envelope pins, however many
\* triage workers raced for the page (pin.pin).
THEOREM VersionsAgree == Spec => []OneVersionPerPage
  <1>1. IInv => OneVersionPerPage
    BY DEF IInv, WInv
  <1> QED
    BY <1>1, Invariance, PTL

\* A good dropped file is rejected only if it was polled before its metadata
\* file had been written, or after a try at that very file failed half way
\* (drop_folder_watcher._ingest_one); one that came by the API never is.
THEOREM GoodFilesAreKept == Spec => GoodFilesLostHalfWay
  <1> DEFINE Fair == \A s \in Acceptable : at[s] # "rejected" /\ at'[s] = "rejected" =>
                        s \in Dropped /\ (s \in described => s \in interrupted)
  <1>1. ASSUME IInv, Next PROVE Fair
    <2> SUFFICES ASSUME NEW s \in Acceptable, at[s] # "rejected", at'[s] = "rejected"
                 PROVE  s \in Dropped /\ (s \in described => s \in interrupted)
      OBVIOUS
    <2>1. at \in [Source -> {"waiting", "door", "rejected", "stored", "copied", "link", "insert",
                             "committed", "done"}]
          /\ s \in Source
      BY <1>1, IntakeAssumption DEF IInv, CInv, CustodyTypeOK, Acceptable
    <2>2. PICK t \in Source : Custody(t) \/ Interrupted(t)
      <3>1. CASE \E t \in Source : Custody(t) \/ Interrupted(t)
        BY <3>1
      <3>2. CASE ~\E t \in Source : Custody(t) \/ Interrupted(t)
        <4>1. at' = at
          BY <1>1, <3>2 DEF Next, Describe, Handle, BeginSplit, BeginTriage, StorePage, CommitSplit, Unsplittable,
                Resolve, Pin, CommitTriage, Ack, GiveUp, Faults, WorkerFails, Killed, Raised, Copied, Promote, custody
        <4> QED
          BY <4>1
      <3> QED
        BY <3>1, <3>2
    <2>3. s = t /\ Refuse(s)
      <3>1. ASSUME ~Refuse(t) PROVE FALSE
        <4>1. \E to \in {"door", "stored", "copied", "link", "insert", "committed", "done", "waiting"} :
                 at' = [at EXCEPT ![t] = to]
          BY <2>2, <3>1 DEF Custody, Upload, ReadSidecar, StorePrimary, StoreSecondary, LookUp,
                            CommitCustody, Finish, Interrupted, Move
        <4> QED
          BY <2>1, <4>1
      <3>2. Refuse(t)
        BY <3>1
      <3> QED
        <4>1. at' = [at EXCEPT ![t] = "rejected"]
          BY <3>2 DEF Refuse
        <4>2. s = t
          BY <2>1, <4>1
        <4> QED
          BY <3>2, <4>2
    <2>4. s \in Dropped \ sidecar /\ at[s] = "waiting"
      BY <2>3 DEF Refuse
    <2> QED
      BY <1>1, <2>4 DEF IInv, CInv, SidecarLostHalfWay
  <1>2. IInv /\ [Next]_vars => [Fair]_vars
    BY <1>1
  <1> HIDE DEF Fair
  <1>3. Spec => [][Fair]_vars
    BY <1>2, Invariance, PTL DEF Spec
  <1> QED
    BY <1>3 DEF GoodFilesLostHalfWay, Fair

\* An envelope is written once: a later triage of the page, by any worker,
\* commits the version that is there (pin.pin, route_page).
THEOREM EnvelopesArePinned == Spec => PinnedForever
  <1> DEFINE Stays == \A p \in PageRow : envelope[p] # NoVersion => envelope'[p] = envelope[p]
  <1>1. ASSUME IInv, Next PROVE Stays
    <2>1. ASSUME NEW w \in Worker, CommitTriage(w) PROVE Stays
      <3>1. pc[w] \in {"route", "pinned"} /\ envelope' = [envelope EXCEPT ![job[w].page] = tx[w]]
        BY <2>1 DEF CommitTriage, Step
      <3>2. pc[w] = "route" => envelope[job[w].page] = tx[w]
        BY <1>1 DEF IInv, WInv, Pinning
      <3>3. pc[w] = "pinned" => envelope[job[w].page] = NoVersion
        BY <1>1 DEF IInv, WInv, Pinning
      <3>4. DOMAIN envelope = PageRow
        BY <1>1 DEF IInv, WInv, WorkTypeOK
      <3> QED
        BY <3>1, <3>2, <3>3, <3>4
    <2>2. CASE ~\E w \in Worker : CommitTriage(w)
      <3>1. envelope' = envelope
        BY <1>1, <2>2 DEF Next, Describe, Custody, Upload, ReadSidecar, Refuse, StorePrimary, StoreSecondary, LookUp,
              CommitCustody, Finish, Handle, BeginSplit, BeginTriage, StorePage, CommitSplit, Unsplittable,
              Resolve, Pin, Ack, GiveUp, Faults, Interrupted, WorkerFails, Killed, Raised, Copied, Promote, rows
      <3> QED
        BY <3>1
    <2> QED
      BY <2>1, <2>2
  <1>2. IInv /\ [Next]_vars => [Stays]_vars
    BY <1>1
  <1> HIDE DEF Stays
  <1>3. Spec => [][Stays]_vars
    BY <1>2, Invariance, PTL DEF Spec
  <1> QED
    BY <1>3 DEF PinnedForever, Stays

------------------------------------------------------------------------------
(* Extremes of sets of numbers, and the readings of a page.                  *)

\* A set of natural numbers that is not empty has a least element.
LEMMA Smallest ==
    ASSUME NEW T, T \subseteq Nat, T # {}
    PROVE  \E x \in T : \A y \in T : x <= y
  <1> DEFINE R == {p \in Nat \X Nat : p[1] < p[2]}
  <1>1. R = OpToRel(<, Nat)
    BY Zenon DEF OpToRel
  <1>2. IsWellFoundedOn(R, Nat)
    BY <1>1, NatLessThanWellFounded, Zenon
  <1>3. PICK less : less = R
    OBVIOUS
  <1>4. \A x, y \in T : <<y, x>> \in less <=> y < x
    BY <1>3
  <1> HIDE DEF R
  <1>5. PICK x \in T : \A y \in T : ~ (<<y, x>> \in less)
    BY <1>2, <1>3, WFMin
  <1>6. \A y \in T : ~ (y < x)
    BY <1>4, <1>5
  <1> QED
    BY <1>6

\* A set of integers that is not empty has a least element when it has a lower
\* bound, and a greatest one when it has an upper bound.
LEMMA MinIsLeast ==
    ASSUME NEW S, S \subseteq Int, S # {}, NEW b \in Int, \A y \in S : b <= y
    PROVE  Min(S) \in S /\ \A y \in S : Min(S) <= y
  <1> DEFINE T == {y - b : y \in S}
  <1>1. T \subseteq Nat /\ T # {}
    <2>1. \A y \in S : y - b \in Nat
      OBVIOUS
    <2> QED
      BY <2>1
  <1>2. PICK t \in T : \A u \in T : t <= u
    BY <1>1, Smallest
  <1>3. t + b \in S /\ \A y \in S : t + b <= y
    BY <1>2
  <1> QED
    BY <1>3 DEF Min

\* The minimum of natural numbers.
LEMMA MinOfNaturals ==
    ASSUME NEW S, S \subseteq Nat, S # {}
    PROVE  Min(S) \in S /\ \A y \in S : Min(S) <= y
  <1>1. PICK x \in S : \A y \in S : x <= y
    BY Smallest
  <1> QED
    BY <1>1 DEF Min

\* A set of integers with an upper bound has a greatest element.
LEMMA MaxIsGreatest ==
    ASSUME NEW S, S \subseteq Int, S # {}, NEW b \in Int, \A y \in S : y <= b
    PROVE  Max(S) \in S /\ \A y \in S : y <= Max(S)
  <1> DEFINE T == {b - y : y \in S}
  <1>1. T \subseteq Nat /\ T # {}
    <2>1. \A y \in S : b - y \in Nat
      OBVIOUS
    <2> QED
      BY <2>1
  <1>2. PICK t \in T : \A u \in T : t <= u
    BY <1>1, Smallest
  <1>3. b - t \in S /\ \A y \in S : y <= b - t
    BY <1>2
  <1> QED
    BY <1>3 DEF Max

\* A finite set of integers has an upper and a lower bound.
LEMMA FiniteIsBounded ==
    ASSUME NEW S, S \subseteq Int, IsFiniteSet(S)
    PROVE  \E b \in Nat : \A y \in S : -b <= y /\ y <= b
  <1> DEFINE Bounded(U) == \E b \in Nat : \A y \in U : -b <= y /\ y <= b
             N == {n \in Nat : \E U \in SUBSET S : Cardinality(U) = n /\ ~Bounded(U)}
  <1> SUFFICES ASSUME ~Bounded(S) PROVE FALSE
    OBVIOUS
  <1>1. Cardinality(S) \in N
    BY FS_CardinalityType
  <1>2. PICK n \in N : \A m \in N : n <= m
    BY <1>1, Smallest
  <1>3. PICK U \in SUBSET S : Cardinality(U) = n /\ ~Bounded(U)
    BY <1>2
  <1>4. IsFiniteSet(U)
    BY FS_Subset
  <1>5. PICK u \in U : TRUE
    BY <1>3
  <1>6. Cardinality(U \ {u}) = n - 1 /\ n - 1 \in Nat
    <2>1. IsFiniteSet(U \ {u}) /\ Cardinality(U \ {u}) = n - 1
      BY <1>3, <1>4, <1>5, FS_RemoveElement
    <2>2. Cardinality(U \ {u}) \in Nat
      BY <2>1, FS_CardinalityType
    <2> QED
      BY <2>1, <2>2
  <1>7. n - 1 \notin N
    <2>1. n \in Nat /\ ~(n <= n - 1)
      BY <1>2
    <2>2. n - 1 \in N => n <= n - 1
      BY <1>2, Zenon
    <2> QED
      BY <2>1, <2>2, Zenon
  <1>8. Bounded(U \ {u})
    BY <1>6, <1>7
  <1>9. PICK b \in Nat : \A y \in U \ {u} : -b <= y /\ y <= b
    BY <1>8
  <1>10. CASE u >= 0
    <2>1. b + u \in Nat /\ \A y \in U : -(b + u) <= y /\ y <= b + u
      BY <1>9, <1>10
    <2> QED
      BY <1>3, <2>1
  <1>11. CASE u < 0
    <2>1. b - u \in Nat /\ \A y \in U : -(b - u) <= y /\ y <= b - u
      BY <1>9, <1>11
    <2> QED
      BY <1>3, <2>1
  <1> QED
    BY <1>10, <1>11

\* A finite set of integers has both.
LEMMA FiniteExtremes ==
    ASSUME NEW S, S \subseteq Int, IsFiniteSet(S), S # {}
    PROVE  /\ Min(S) \in S /\ \A y \in S : Min(S) <= y
           /\ Max(S) \in S /\ \A y \in S : y <= Max(S)
  <1>1. PICK b \in Nat : \A y \in S : -b <= y /\ y <= b
    BY FiniteIsBounded
  <1>2. Min(S) \in S /\ \A y \in S : Min(S) <= y
    <2>1. -b \in Int /\ \A y \in S : -b <= y
      BY <1>1
    <2> QED
      BY <2>1, MinIsLeast
  <1>3. Max(S) \in S /\ \A y \in S : y <= Max(S)
    <2>1. b \in Int /\ \A y \in S : y <= b
      BY <1>1
    <2> QED
      BY <2>1, MaxIsGreatest
  <1> QED
    BY <1>2, <1>3

------------------------------------------------------------------------------
Route == {"non_text_map", "ruled_table", "handwritten_text", "printed_text"}

\* A page has a route for every region, and at least one.
LEMMA PagesHaveRoutes ==
    ASSUME NEW page, IsSequence(page.regions)
    PROVE  /\ PageRoutes(page) \in Seq(Route) /\ PageRoutes(page) # <<>>
           /\ Len(PageRoutes(page)) \in Nat
           /\ DOMAIN PageRoutes(page) = 1..Len(PageRoutes(page))
  <1>1. CASE page.regions # <<>>
    <2>1. \A hints : RegionRoute(hints) \in Route
      BY DEF RegionRoute, Route
    <2>2. Len(page.regions) \in Nat /\ DOMAIN page.regions = 1..Len(page.regions) /\ page.regions # <<>>
      BY <1>1 DEF IsSequence
    <2>3. PageRoutes(page) = [i \in 1..Len(page.regions) |-> RegionRoute(page.regions[i])]
      BY <1>1, <2>2 DEF PageRoutes
    <2>4. PageRoutes(page) \in Seq(Route)
      BY <2>1, <2>2, <2>3
    <2>5. 1 \in DOMAIN PageRoutes(page)
      <3>1. Len(page.regions) # 0
        BY <1>1, <2>2, EmptySeq DEF IsSequence
      <3> QED
        BY <2>2, <2>3, <3>1
    <2> QED
      BY <2>4, <2>5
  <1>2. CASE page.regions = <<>>
    <2>1. PageRoutes(page) \in {<<r>> : r \in Route}
      BY <1>2 DEF PageRoutes, Route
    <2>2. PICK r \in Route : PageRoutes(page) = <<r>>
      BY <2>1
    <2> QED
      BY <2>2
  <1> QED
    BY <1>1, <1>2

\* The dominant route is the route of a region, and no other has more of them.
LEMMA DominantIsThere ==
    ASSUME NEW routes \in Seq(Route), routes # <<>>
    PROVE  \E i \in DOMAIN routes : DominantRoute(routes) = routes[i]
  <1>1. Len(routes) \in Nat /\ DOMAIN routes = 1..Len(routes) /\ 1 \in DOMAIN routes
    BY EmptySeq
  <1>2. \A route : Times(route, routes) \in Nat /\ Times(route, routes) <= Len(routes)
    <2> SUFFICES ASSUME NEW route
                 PROVE  Times(route, routes) \in Nat /\ Times(route, routes) <= Len(routes)
      OBVIOUS
    <2>1. IsFiniteSet(1..Len(routes)) /\ Cardinality(1..Len(routes)) = Len(routes)
      BY <1>1, FS_Interval
    <2>2. {i \in DOMAIN routes : routes[i] = route} \in SUBSET (1..Len(routes))
      BY <1>1
    <2> QED
      BY <2>1, <2>2, FS_Subset, FS_CardinalityType DEF Times
  <1> DEFINE T == {Len(routes) - Times(routes[i], routes) : i \in DOMAIN routes}
             D == {i \in DOMAIN routes :
                     \A j \in DOMAIN routes : Times(routes[j], routes) <= Times(routes[i], routes)}
  <1>3. T \subseteq Nat /\ T # {}
    BY <1>1, <1>2
  <1>4. PICK t \in T : \A u \in T : t <= u
    BY <1>3, Smallest
  <1>5. D # {}
    <2>1. PICK i \in DOMAIN routes : t = Len(routes) - Times(routes[i], routes)
      BY <1>4
    <2>2. \A j \in DOMAIN routes :
             Len(routes) - Times(routes[i], routes) <= Len(routes) - Times(routes[j], routes)
      BY <1>4, <2>1
    <2>3. \A j \in DOMAIN routes : Times(routes[j], routes) <= Times(routes[i], routes)
      BY <1>1, <1>2, <2>2
    <2> QED
      BY <2>1, <2>3
  <1>6. Min(D) \in D
    <2>1. D \subseteq Nat
      BY <1>1
    <2> HIDE DEF D
    <2> QED
      BY <1>5, <2>1, MinOfNaturals
  <1> QED
    BY <1>6 DEF DominantRoute

\* A page is read as its regions are routed (process_page_text).
LEMMA PagesAreRead ==
    ASSUME case.kind = "page", IsSequence(case.page.regions)
    PROVE  PageIsRead
  <1> DEFINE page == case.page
             routes == PageRoutes(page)
             read == {r[2] : r \in ProcessPageText(page)}
             empty == [words |-> {}, shape |-> "unsupported"]
  <1>1. /\ routes \in Seq(Route) /\ routes # <<>> /\ Len(routes) \in Nat
        /\ DOMAIN routes = 1..Len(routes)
    BY PagesHaveRoutes
  <1>2. PICK i \in DOMAIN routes : DominantRoute(routes) = routes[i]
    BY <1>1, DominantIsThere
  <1>3. \A t : t \in read <=>
          /\ page.image
          /\ \A k \in DOMAIN routes : ~(page.engine_fails /\ routes[k] \in {"printed_text", "ruled_table"})
          /\ \E k \in DOMAIN routes : t \in TokensOfRegion(routes[k], page.tokens)
    <2>1. CASE ~page.image \/ \E k \in DOMAIN routes :
                 page.engine_fails /\ routes[k] \in {"printed_text", "ruled_table"}
      <3>1. ProcessPageText(page) = {}
        BY <2>1 DEF ProcessPageText
      <3> QED
        BY <2>1, <3>1
    <2>2. CASE ~(~page.image \/ \E k \in DOMAIN routes :
                 page.engine_fails /\ routes[k] \in {"printed_text", "ruled_table"})
      <3>1. ProcessPageText(page)
              = UNION {{k} \X TokensOfRegion(routes[k], page.tokens) : k \in DOMAIN routes}
        BY <2>2 DEF ProcessPageText
      <3>2. \A r : r \in ProcessPageText(page) <=>
              \E k \in DOMAIN routes : \E t \in TokensOfRegion(routes[k], page.tokens) : r = <<k, t>>
        BY <3>1
      <3>3. \A t : t \in read <=> \E k \in DOMAIN routes : t \in TokensOfRegion(routes[k], page.tokens)
        <4>1. ASSUME NEW t \in read
              PROVE  \E k \in DOMAIN routes : t \in TokensOfRegion(routes[k], page.tokens)
          <5>1. PICK r \in ProcessPageText(page) : t = r[2]
            OBVIOUS
          <5>2. PICK k \in DOMAIN routes : \E u \in TokensOfRegion(routes[k], page.tokens) : r = <<k, u>>
            BY <3>2
          <5> QED
            BY <5>1, <5>2
        <4>2. ASSUME NEW t, NEW k \in DOMAIN routes, t \in TokensOfRegion(routes[k], page.tokens)
              PROVE  t \in read
          <5>1. <<k, t>> \in ProcessPageText(page)
            BY <3>2, <4>2
          <5>2. <<k, t>>[2] = t
            OBVIOUS
          <5> QED
            BY <5>1, <5>2
        <4> QED
          BY <4>1, <4>2
      <3> QED
        BY <2>2, <3>3
    <2> QED
      BY <2>1, <2>2
  <1>4. page.route = {} => RoutesText(page) \/ RoutesMap(page)
    BY DEF RoutesText, RoutesMap
  <1>5. ASSUME Times("non_text_map", routes) = Len(routes)
        PROVE  read = {} /\ DominantRoute(routes) = "non_text_map"
    <2>1. IsFiniteSet(1..Len(routes)) /\ Cardinality(1..Len(routes)) = Len(routes)
      BY <1>1, FS_Interval
    <2>2. {k \in DOMAIN routes : routes[k] = "non_text_map"} = 1..Len(routes)
      BY <1>1, <1>5, <2>1, FS_Subset DEF Times
    <2>3. \A k \in DOMAIN routes : TokensOfRegion(routes[k], page.tokens) = {}
      BY <1>1, <2>2 DEF TokensOfRegion
    <2> QED
      BY <1>1, <1>2, <1>3, <2>2, <2>3
  <1>6. ASSUME DominantRoute(routes) \in {"printed_text", "ruled_table"}, page.image, ~page.engine_fails
        PROVE  page.tokens \subseteq read
    <2>1. TokensOfRegion(routes[i], page.tokens) = page.tokens
      BY <1>2, <1>6 DEF TokensOfRegion
    <2> QED
      BY <1>2, <1>3, <1>6, <2>1
  <1>7. ASSUME NEW t \in read \ page.tokens
        PROVE  ClassifyFieldName(t, page.doc) = "text_line"
    <2>1. t = empty
      BY <1>3, <1>7 DEF TokensOfRegion
    <2>2. t.words = {} /\ t.shape = "unsupported"
      BY <2>1
    <2> QED
      BY <2>2 DEF ClassifyFieldName
  <1> QED
    BY <1>4, <1>5, <1>6, <1>7 DEF PageIsRead

------------------------------------------------------------------------------
(* The places of a sequence, and the pages that are missing.                 *)

\* The range of a function on a finite set is finite.
LEMMA FiniteRange ==
    ASSUME NEW f, IsFiniteSet(DOMAIN f)
    PROVE  IsFiniteSet(Range(f)) /\ Cardinality(Range(f)) <= Cardinality(DOMAIN f)
  <1> DEFINE g == [x \in DOMAIN f |-> f[x]]
  <1>1. g \in Surjection(DOMAIN f, Range(f))
    BY DEF Surjection, Range
  <1> QED
    BY <1>1, FS_Surjection

\* More than one: two that differ.
LEMMA SeveralDiffer ==
    ASSUME NEW S, Cardinality(S) > 1
    PROVE  \E a, b \in S : a # b
  <1> SUFFICES ASSUME \A a, b \in S : a = b PROVE FALSE
    OBVIOUS
  <1>1. CASE S = {}
    BY <1>1, FS_EmptySet
  <1>2. CASE S # {}
    <2>1. PICK a \in S : TRUE
      BY <1>2
    <2>2. S = {a}
      BY <2>1
    <2> QED
      BY <2>2, FS_Singleton
  <1> QED
    BY <1>1, <1>2

\* Two different elements are more than one.
LEMMA DifferAreSeveral ==
    ASSUME NEW S, IsFiniteSet(S), NEW a \in S, NEW b \in S, a # b
    PROVE  Cardinality(S) > 1
  <1>1. Cardinality(S) \in Nat /\ S # {}
    BY FS_CardinalityType
  <1>2. Cardinality(S) # 0
    BY <1>1, FS_EmptySet
  <1>3. Cardinality(S) # 1
    BY FS_Singleton
  <1> QED
    BY <1>1, <1>2, <1>3

\* A sequence's domain.
LEMMA SequenceDomain ==
    ASSUME NEW s, IsSequence(s)
    PROVE  /\ Len(s) \in Nat /\ DOMAIN s = 1..Len(s) /\ IsFiniteSet(DOMAIN s)
           /\ Cardinality(DOMAIN s) = Len(s) /\ (s # <<>> => 1 \in DOMAIN s)
  <1>1. Len(s) \in Nat /\ DOMAIN s = 1..Len(s)
    BY DEF IsSequence
  <1>2. s # <<>> => Len(s) # 0
    BY EmptySeq DEF IsSequence
  <1>3. IsFiniteSet(1..Len(s)) /\ Cardinality(1..Len(s)) = Len(s)
    <2>1. 1 \in Int /\ Len(s) \in Int /\ ~(1 > Len(s)) => Len(s) - 1 + 1 = Len(s)
      BY <1>1
    <2>2. 1 > Len(s) => Len(s) = 0
      BY <1>1
    <2> QED
      BY <1>1, <2>1, <2>2, FS_Interval
  <1> QED
    BY <1>1, <1>2, <1>3

------------------------------------------------------------------------------
\* What can be ordered: pages with numbers at places that are numbers.
Ordered(metas) ==
    /\ IsFiniteSet(DOMAIN metas) /\ DOMAIN metas \subseteq Nat
    /\ \A k \in DOMAIN metas : metas[k].index \in Int

\* Of any pages one is the last and one the first.
LEMMA EndsOfPages ==
    ASSUME NEW metas, Ordered(metas), NEW S \in SUBSET DOMAIN metas, S # {}
    PROVE  /\ \E k \in S : \A m \in S : m = k \/ Before(m, k, metas)
           /\ \E k \in S : \A m \in S : m = k \/ Before(k, m, metas)
  <1> DEFINE I == {metas[k].index : k \in S}
  <1>1. IsFiniteSet(S) /\ S \subseteq Nat /\ I # {} /\ I \subseteq Int
    BY FS_Subset DEF Ordered
  <1>2. IsFiniteSet(I)
    <2> DEFINE f == [k \in S |-> metas[k].index]
    <2>1. Range(f) = I
      BY DEF Range
    <2>2. IsFiniteSet(DOMAIN f)
      BY <1>1
    <2> HIDE DEF f
    <2> QED
      BY <2>1, <2>2, FiniteRange
  <1>3. /\ Min(I) \in I /\ \A i \in I : Min(I) <= i
        /\ Max(I) \in I /\ \A i \in I : i <= Max(I)
    <2> HIDE DEF I
    <2> QED
      BY <1>1, <1>2, FiniteExtremes
  <1>4. ASSUME NEW i \in I
        PROVE  LET T == {k \in S : metas[k].index = i}
               IN /\ Min(T) \in T /\ \A k \in T : Min(T) <= k
                  /\ Max(T) \in T /\ \A k \in T : k <= Max(T)
    <2> DEFINE T == {k \in S : metas[k].index = i}
    <2>1. T # {} /\ T \subseteq Int /\ T \in SUBSET S
      BY <1>1, <1>4
    <2>2. IsFiniteSet(T)
      BY <1>1, <2>1, FS_Subset
    <2> HIDE DEF T
    <2>3. /\ Min(T) \in T /\ \A k \in T : Min(T) <= k
          /\ Max(T) \in T /\ \A k \in T : k <= Max(T)
      BY <2>1, <2>2, FiniteExtremes
    <2> QED
      BY <2>3 DEF T
  <1>5. \E k \in S : \A m \in S : m = k \/ Before(m, k, metas)
    <2> DEFINE T == {k \in S : metas[k].index = Max(I)}
    <2>1. Max(T) \in T /\ \A k \in T : k <= Max(T)
      BY <1>3, <1>4
    <2>2. ASSUME NEW m \in S PROVE m = Max(T) \/ Before(m, Max(T), metas)
      <3>1. metas[m].index <= Max(I) /\ metas[m].index \in Int /\ Max(I) \in Int
        BY <1>1, <1>3
      <3>2. metas[Max(T)].index = Max(I) /\ Max(T) \in Nat /\ m \in Nat
        BY <1>1, <2>1
      <3>3. metas[m].index = Max(I) => m <= Max(T)
        BY <2>1
      <3> HIDE DEF T, I
      <3> QED
        BY <3>1, <3>2, <3>3 DEF Before
    <2> QED
      BY <2>1, <2>2
  <1>6. \E k \in S : \A m \in S : m = k \/ Before(k, m, metas)
    <2> DEFINE T == {k \in S : metas[k].index = Min(I)}
    <2>1. Min(T) \in T /\ \A k \in T : Min(T) <= k
      BY <1>3, <1>4
    <2>2. ASSUME NEW m \in S PROVE m = Min(T) \/ Before(Min(T), m, metas)
      <3>1. Min(I) <= metas[m].index /\ metas[m].index \in Int /\ Min(I) \in Int
        BY <1>1, <1>3
      <3>2. metas[Min(T)].index = Min(I) /\ Min(T) \in Nat /\ m \in Nat
        BY <1>1, <2>1
      <3>3. metas[m].index = Min(I) => Min(T) <= m
        BY <2>1
      <3> HIDE DEF T, I
      <3> QED
        BY <3>1, <3>2, <3>3 DEF Before
    <2> QED
      BY <2>1, <2>2
  <1> QED
    BY <1>5, <1>6

\* Exactly the numbers between the first page and the last that no page has.
LEMMA MissingAreMissing ==
    ASSUME NEW metas, Ordered(metas), DOMAIN metas # {}
    PROVE  LET indices == {metas[k].index : k \in DOMAIN metas}
           IN MissingPages(metas) = {i \in Min(indices)..Max(indices) : i \notin indices}
  <1> DEFINE D == DOMAIN metas
             indices == {metas[k].index : k \in D}
             Follows(l, k) == /\ Before(k, l, metas)
                              /\ \A m \in D : ~(Before(k, m, metas) /\ Before(m, l, metas))
             Gap(k, l) == IF Follows(l, k) THEN (metas[k].index + 1)..(metas[l].index - 1) ELSE {}
  <1>1. \A k \in D : metas[k].index \in Int /\ k \in Nat
    BY DEF Ordered
  <1>2. indices # {} /\ indices \subseteq Int /\ IsFiniteSet(indices)
    <2> DEFINE f == [k \in D |-> metas[k].index]
    <2>1. Range(f) = indices
      BY DEF Range
    <2>2. IsFiniteSet(DOMAIN f)
      BY DEF Ordered
    <2>3. IsFiniteSet(Range(f))
      <3> HIDE DEF f
      <3> QED
        BY <2>2, FiniteRange
    <2> QED
      BY <1>1, <2>1, <2>3
  <1>3. /\ Min(indices) \in indices /\ \A i \in indices : Min(indices) <= i
        /\ Max(indices) \in indices /\ \A i \in indices : i <= Max(indices)
    <2> HIDE DEF indices
    <2> QED
      BY <1>2, FiniteExtremes
  <1>4. \A i : i \in MissingPages(metas) <=> \E k, l \in D : i \in Gap(k, l)
    <2>1. MissingPages(metas) = UNION {Gap(k, l) : k, l \in D}
      BY DEF MissingPages
    <2> HIDE DEF Gap, D
    <2> QED
      BY <2>1
  <1>5. ASSUME NEW k \in D, NEW l \in D, NEW i \in Gap(k, l)
        PROVE  i \in Min(indices)..Max(indices) /\ i \notin indices
    <2>1. /\ Follows(l, k) /\ i \in Int /\ metas[k].index < i /\ i < metas[l].index
      BY <1>1, <1>5
    <2>2. ASSUME NEW m \in D, metas[m].index = i PROVE FALSE
      <3>1. Before(k, m, metas) /\ Before(m, l, metas)
        BY <1>1, <2>1, <2>2 DEF Before
      <3> QED
        BY <2>1, <3>1
    <2>3. Min(indices) <= metas[k].index /\ metas[l].index <= Max(indices)
      BY <1>3
    <2>4. {Min(indices), Max(indices)} \subseteq Int
      BY <1>2, <1>3
    <2> QED
      BY <1>1, <2>1, <2>2, <2>3, <2>4
  <1>6. ASSUME NEW i \in Min(indices)..Max(indices), i \notin indices
        PROVE  \E k, l \in D : i \in Gap(k, l)
    <2> DEFINE L == {m \in D : metas[m].index < i}
               R == {m \in D : metas[m].index > i}
    <2>1. /\ i \in Int /\ Min(indices) <= i /\ i <= Max(indices)
          /\ {Min(indices), Max(indices)} \subseteq Int
      BY <1>2, <1>3, <1>6
    <2>2. PICK k1, l1 \in D : Min(indices) = metas[k1].index /\ Max(indices) = metas[l1].index
      BY <1>3
    <2>3. \A m \in D : metas[m].index # i
      BY <1>6
    <2>4. metas[k1].index < i /\ i < metas[l1].index
      BY <1>1, <2>1, <2>2, <2>3
    <2>5. PICK k \in L : \A m \in L : m = k \/ Before(m, k, metas)
      <3>1. L # {} /\ L \in SUBSET D
        BY <2>4
      <3> HIDE DEF L
      <3> QED
        BY <3>1, EndsOfPages
    <2>6. PICK l \in R : \A m \in R : m = l \/ Before(l, m, metas)
      <3>1. R # {} /\ R \in SUBSET D
        BY <2>4
      <3> HIDE DEF R
      <3> QED
        BY <3>1, EndsOfPages
    <2>7. Before(k, l, metas)
      BY <1>1, <2>1 DEF Before
    <2>8. ASSUME NEW m \in D, Before(k, m, metas), Before(m, l, metas) PROVE FALSE
      <3>1. m \in L \/ m \in R
        BY <1>1, <2>1, <2>3
      <3>2. m \in L => ~Before(k, m, metas)
        BY <1>1, <2>5 DEF Before
      <3>3. m \in R => ~Before(m, l, metas)
        BY <1>1, <2>6 DEF Before
      <3> QED
        BY <2>8, <3>1, <3>2, <3>3
    <2>9. Gap(k, l) = (metas[k].index + 1)..(metas[l].index - 1)
      BY <2>7, <2>8
    <2>10. i \in Gap(k, l)
      <3>1. metas[k].index \in Int /\ metas[l].index \in Int
        BY <1>1
      <3>2. metas[k].index < i /\ i < metas[l].index
        OBVIOUS
      <3>3. i \in (metas[k].index + 1)..(metas[l].index - 1)
        BY <2>1, <3>1, <3>2
      <3> QED
        BY <2>9, <3>3, Zenon
    <2> QED
      BY <2>10
  <1>7. MissingPages(metas) = {i \in Min(indices)..Max(indices) : i \notin indices}
    <2> HIDE DEF indices, Gap
    <2> QED
      BY <1>4, <1>5, <1>6
  <1> QED
    BY <1>7

------------------------------------------------------------------------------
(* The order of readings and pages.                                          *)

\* Of any readings that are kept one is the earliest.
LEMMA EarliestReading ==
    ASSUME NEW extractions, NEW metas, Ordered(metas), DOMAIN extractions \subseteq Nat,
           NEW S \in SUBSET Kept(extractions, metas), S # {}
    PROVE  \E p \in S : \A q \in S : q = p \/ Earlier(p, q, metas)
  <1> DEFINE K == {p[1] : p \in S}
  <1>1. \A p \in S : /\ p[1] \in DOMAIN metas /\ p[2] \in DOMAIN extractions
                     /\ p = <<p[1], p[2]>>
    BY DEF Kept
  <1>2. K \in SUBSET DOMAIN metas /\ K # {}
    BY <1>1
  <1>3. PICK k \in K : \A m \in K : m = k \/ Before(k, m, metas)
    <2> HIDE DEF K
    <2> QED
      BY <1>2, EndsOfPages
  <1> DEFINE I == {p[2] : p \in {q \in S : q[1] = k}}
  <1>4. I \subseteq Nat /\ I # {}
    BY <1>1, <1>3
  <1>5. PICK i \in I : \A j \in I : i <= j
    BY <1>4, Smallest
  <1>6. PICK p \in S : p[1] = k /\ p[2] = i
    BY <1>5
  <1>7. ASSUME NEW q \in S PROVE q = p \/ Earlier(p, q, metas)
    <2>1. CASE q[1] = k
      <3>1. q[2] \in I /\ i <= q[2] /\ {i, q[2]} \subseteq Nat
        BY <1>4, <1>5, <2>1
      <3>2. q[2] = i => q = p
        BY <1>1, <1>6, <2>1
      <3> QED
        BY <1>6, <2>1, <3>1, <3>2 DEF Earlier
    <2>2. CASE q[1] # k
      BY <1>3, <1>6, <2>2 DEF Earlier
    <2> QED
      BY <2>1, <2>2
  <1> QED
    BY <1>7

\* No reading is earlier than itself, and of two one is earlier.
LEMMA ReadingsAreOrdered ==
    ASSUME NEW extractions, NEW metas, Ordered(metas), DOMAIN extractions \subseteq Nat,
           NEW p \in Kept(extractions, metas), NEW q \in Kept(extractions, metas), p # q
    PROVE  Earlier(p, q, metas) \/ Earlier(q, p, metas)
  <1> DEFINE S == {p, q}
  <1>1. S \in SUBSET Kept(extractions, metas) /\ S # {}
    OBVIOUS
  <1>2. PICK r \in S : \A s \in S : s = r \/ Earlier(r, s, metas)
    <2> HIDE DEF S
    <2> QED
      BY <1>1, EarliestReading
  <1> QED
    BY <1>2

\* No reading comes before itself, and earlier is transitive.
LEMMA EarlierIsStrict ==
    ASSUME NEW extractions, NEW metas, Ordered(metas), DOMAIN extractions \subseteq Nat,
           NEW p \in Kept(extractions, metas), NEW q \in Kept(extractions, metas),
           Earlier(p, q, metas)
    PROVE  p # q /\ ~Earlier(q, p, metas)
  <1>1. /\ {p[1], q[1]} \subseteq DOMAIN metas /\ {p[1], q[1], p[2], q[2]} \subseteq Nat
        /\ metas[p[1]].index \in Int /\ metas[q[1]].index \in Int
    BY DEF Kept, Ordered
  <1> QED
    BY <1>1 DEF Earlier, Before

\* Two values that were both read make a conflict: the first reading of the later
\* one is it.
LEMMA DifferingConflict ==
    ASSUME NEW extractions, NEW metas, Ordered(metas), DOMAIN extractions \subseteq Nat,
           NEW field,
           NEW p \in Kept(extractions, metas), extractions[p[2]].field = field,
           NEW q \in Kept(extractions, metas), extractions[q[2]].field = field,
           extractions[p[2]].value # Unread, extractions[q[2]].value # Unread,
           extractions[p[2]].value # extractions[q[2]].value
    PROVE  Conflicting(field, extractions, metas)
  <1> DEFINE Value(r) == extractions[r[2]].value
             of == {r \in Kept(extractions, metas) : extractions[r[2]].field = field}
             First(v) == {r \in of : Value(r) = v}
  <1>1. ASSUME NEW r \in of PROVE \E f \in of : /\ Value(f) = Value(r)
                                                /\ \A s \in of : Value(s) = Value(r) => ~Earlier(s, f, metas)
    <2>1. First(Value(r)) \in SUBSET Kept(extractions, metas) /\ First(Value(r)) # {}
      OBVIOUS
    <2>2. PICK f \in First(Value(r)) : \A s \in First(Value(r)) : s = f \/ Earlier(f, s, metas)
      <3> HIDE DEF First
      <3> QED
        BY <2>1, EarliestReading
    <2>3. \A s \in of : Value(s) = Value(r) => ~Earlier(s, f, metas)
      BY <2>2, EarlierIsStrict
    <2> QED
      BY <2>2, <2>3
  <1>2. PICK a \in of : Value(a) = Value(p) /\ \A s \in of : Value(s) = Value(p) => ~Earlier(s, a, metas)
    BY <1>1
  <1>3. PICK b \in of : Value(b) = Value(q) /\ \A s \in of : Value(s) = Value(q) => ~Earlier(s, b, metas)
    BY <1>1
  <1>4. Earlier(a, b, metas) \/ Earlier(b, a, metas)
    BY <1>2, <1>3, ReadingsAreOrdered
  <1>5. CASE Earlier(a, b, metas)
    BY <1>2, <1>3, <1>5 DEF Conflicting
  <1>6. CASE Earlier(b, a, metas)
    BY <1>2, <1>3, <1>6 DEF Conflicting
  <1> QED
    BY <1>4, <1>5, <1>6

------------------------------------------------------------------------------
\* The pages that are numbered as they appear have no gap, and lose no extraction.
LEMMA DefaultsAreOrdered ==
    ASSUME NEW extractions, IsSequence(extractions)
    PROVE  LET metas == DefaultMetas(extractions)
           IN /\ Ordered(metas)
              /\ \A i \in DOMAIN extractions : \E k \in DOMAIN metas : metas[k].page = extractions[i].page
  <1> DEFINE metas == DefaultMetas(extractions)
             first == {i \in DOMAIN extractions :
                         \A j \in 1..(i - 1) : extractions[j].page # extractions[i].page}
  <1>1. /\ DOMAIN metas = first
        /\ \A k \in first : /\ metas[k].index = Cardinality({j \in first : j <= k})
                            /\ metas[k].page = extractions[k].page
    BY DEF DefaultMetas
  <1>2. IsFiniteSet(first) /\ first \subseteq Nat
    <2>1. first \in SUBSET DOMAIN extractions
      OBVIOUS
    <2> HIDE DEF first
    <2> QED
      BY <2>1, SequenceDomain, FS_Subset
  <1>3. \A k \in first : metas[k].index \in Int
    <2>1. ASSUME NEW k \in first PROVE Cardinality({j \in first : j <= k}) \in Int
      <3>1. {j \in first : j <= k} \in SUBSET first
        OBVIOUS
      <3> HIDE DEF first
      <3>2. Cardinality({j \in first : j <= k}) \in Nat
        BY <1>2, <3>1, FS_Subset, FS_CardinalityType
      <3> QED
        BY <3>2
    <2> HIDE DEF metas, first
    <2> QED
      BY <1>1, <2>1
  <1>4. ASSUME NEW i \in DOMAIN extractions
        PROVE  \E k \in DOMAIN metas : metas[k].page = extractions[i].page
    <2> DEFINE T == {j \in DOMAIN extractions : extractions[j].page = extractions[i].page}
    <2>1. T \subseteq Nat /\ T # {} /\ DOMAIN extractions = 1..Len(extractions) /\ Len(extractions) \in Nat
      BY SequenceDomain
    <2>2. PICK k \in T : \A j \in T : k <= j
      BY <2>1, Smallest
    <2>3. k \in first
      BY <2>1, <2>2
    <2> QED
      BY <1>1, <2>2, <2>3
  <1> QED
    BY <1>1, <1>2, <1>3, <1>4 DEF Ordered

\* The places that stand for pages nobody described leave none out.
LEMMA DefaultsHaveNoGap ==
    ASSUME NEW extractions, IsSequence(extractions)
    PROVE  MissingPages(DefaultMetas(extractions)) = {}
  <1> DEFINE metas == DefaultMetas(extractions)
             first == {i \in DOMAIN extractions :
                         \A j \in 1..(i - 1) : extractions[j].page # extractions[i].page}
             UpTo(k) == {j \in first : j <= k}
             Follows(l, k) == /\ Before(k, l, metas)
                              /\ \A m \in first : ~(Before(k, m, metas) /\ Before(m, l, metas))
             Gap(k, l) == IF Follows(l, k) THEN (metas[k].index + 1)..(metas[l].index - 1) ELSE {}
  <1>1. /\ DOMAIN metas = first
        /\ \A k \in first : metas[k].index = Cardinality(UpTo(k))
    BY DEF DefaultMetas
  <1>2. IsFiniteSet(first) /\ first \subseteq Nat /\ \A k \in first : metas[k].index \in Int
    BY <1>1, DefaultsAreOrdered DEF Ordered
  <1>3. \A k \in first : IsFiniteSet(UpTo(k)) /\ Cardinality(UpTo(k)) \in Nat
    <2> SUFFICES ASSUME NEW k \in first
                 PROVE  IsFiniteSet(UpTo(k)) /\ Cardinality(UpTo(k)) \in Nat
      OBVIOUS
    <2>1. UpTo(k) \in SUBSET first
      OBVIOUS
    <2> HIDE DEF first, UpTo
    <2> QED
      BY <1>2, <2>1, FS_Subset, FS_CardinalityType
  <1>4. ASSUME NEW k \in first, NEW l \in first, k <= l
        PROVE  /\ Cardinality(UpTo(k)) <= Cardinality(UpTo(l))
               /\ k < l => Cardinality(UpTo(k)) < Cardinality(UpTo(l))
    <2>1. UpTo(k) \in SUBSET UpTo(l)
      BY <1>2, <1>4
    <2>2. k < l => l \in UpTo(l) /\ l \notin UpTo(k)
      BY <1>2
    <2>3. Cardinality(UpTo(k)) = Cardinality(UpTo(l)) => UpTo(l) = UpTo(k)
      <3> HIDE DEF UpTo
      <3> QED
        BY <1>3, <2>1, FS_Subset
    <2>4. Cardinality(UpTo(k)) <= Cardinality(UpTo(l))
      <3> HIDE DEF UpTo
      <3> QED
        BY <1>3, <2>1, FS_Subset
    <2>5. Cardinality(UpTo(k)) \in Nat /\ Cardinality(UpTo(l)) \in Nat
      BY <1>3
    <2>6. k < l => UpTo(l) # UpTo(k)
      <3> HIDE DEF UpTo
      <3> QED
        BY <2>2
    <2> HIDE DEF UpTo
    <2> QED
      BY <2>3, <2>4, <2>5, <2>6
  <1>5. ASSUME NEW k \in first, NEW l \in first, Follows(l, k)
        PROVE  metas[l].index = metas[k].index + 1
    <2>1. k < l
      <3>1. CASE l <= k
        <4>1. Cardinality(UpTo(l)) <= Cardinality(UpTo(k))
          BY <1>4, <3>1
        <4>2. metas[l].index <= metas[k].index
          BY <1>1, <4>1
        <4>3. metas[k].index < metas[l].index \/ (metas[k].index = metas[l].index /\ k < l)
          BY <1>5 DEF Before
        <4> QED
          BY <1>2, <3>1, <4>2, <4>3
      <3> QED
        BY <1>2, <3>1
    <2> DEFINE M == {m \in first : k < m}
    <2>2. M \subseteq Nat /\ M # {}
      BY <1>2, <2>1
    <2>3. PICK m \in M : \A j \in M : m <= j
      BY <2>2, Smallest
    <2>4. k < m /\ m <= l
      BY <2>1, <2>3
    <2>5. m = l
      <3>1. CASE m < l
        <4>1. Cardinality(UpTo(k)) < Cardinality(UpTo(m)) /\ Cardinality(UpTo(m)) < Cardinality(UpTo(l))
          <5>1. m \in first /\ k <= m /\ m <= l
            BY <1>2, <2>3, <2>4
          <5> HIDE DEF UpTo
          <5> QED
            BY <1>4, <2>4, <3>1, <5>1
        <4>2. Before(k, m, metas) /\ Before(m, l, metas)
          BY <1>1, <2>3, <4>1 DEF Before
        <4> QED
          BY <1>5, <2>3, <4>2
      <3> QED
        BY <1>2, <2>3, <2>4, <3>1
    <2>6. UpTo(m) = UpTo(k) \cup {m} /\ m \notin UpTo(k)
      BY <1>2, <2>3
    <2>7. Cardinality(UpTo(m)) = Cardinality(UpTo(k)) + 1
      <3> HIDE DEF UpTo
      <3> QED
        BY <1>3, <2>6, FS_AddElement
    <2> QED
      BY <1>1, <2>5, <2>7
  <1>6. \A k, l \in first : Gap(k, l) = {}
    <2> SUFFICES ASSUME NEW k \in first, NEW l \in first, Follows(l, k)
                 PROVE  (metas[k].index + 1)..(metas[l].index - 1) = {}
      OBVIOUS
    <2>1. metas[l].index = metas[k].index + 1 /\ metas[k].index \in Int
      BY <1>2, <1>5
    <2> HIDE DEF metas
    <2> QED
      BY <2>1
  <1>7. MissingPages(metas) = UNION {Gap(k, l) : k, l \in first}
    <2> HIDE DEF metas, first
    <2> QED
      BY <1>1 DEF MissingPages
  <1> QED
    <2> HIDE DEF metas, first, Gap
    <2> QED
      BY <1>6, <1>7 DEF metas

\* The pages of a record are in one order, given or by default.
LEMMA RecordsAreOrdered ==
    ASSUME NEW i, IsRecord(i)
    PROVE  /\ Ordered(i.metas) /\ DOMAIN i.metas # {} /\ DOMAIN i.extractions \subseteq Nat
           /\ IsFiniteSet(DOMAIN i.extractions)
  BY SequenceDomain DEF IsRecord, Ordered

\* What is kept are the extractions of the known pages.
LEMMA KeptOfKnownPages ==
    ASSUME NEW extractions, NEW metas
    PROVE  {extractions[p[2]] : p \in Kept(extractions, metas)}
             = {e \in Range(extractions) : e.page \in {metas[k].page : k \in DOMAIN metas}}
  <1> DEFINE kept == {extractions[p[2]] : p \in Kept(extractions, metas)}
             known == {e \in Range(extractions) : e.page \in {metas[k].page : k \in DOMAIN metas}}
  <1>1. ASSUME NEW e \in kept PROVE e \in known
    <2>1. PICK p \in Kept(extractions, metas) : e = extractions[p[2]]
      OBVIOUS
    <2>2. p[1] \in DOMAIN metas /\ p[2] \in DOMAIN extractions /\ extractions[p[2]].page = metas[p[1]].page
      BY DEF Kept
    <2> QED
      BY <2>1, <2>2 DEF Range
  <1>2. ASSUME NEW e \in known PROVE e \in kept
    <2>1. PICK j \in DOMAIN extractions : e = extractions[j]
      BY DEF Range
    <2>2. PICK k \in DOMAIN metas : e.page = metas[k].page
      OBVIOUS
    <2>3. <<k, j>> \in Kept(extractions, metas) /\ <<k, j>>[2] = j
      BY <2>1, <2>2 DEF Kept
    <2> QED
      BY <2>1, <2>3
  <1> QED
    BY <1>1, <1>2

\* A conflict has two values, of extractions that are kept.
LEMMA ConflictsDiffer ==
    ASSUME NEW extractions, NEW metas, NEW field, Conflicting(field, extractions, metas)
    PROVE  \E p, q \in Kept(extractions, metas) :
             /\ extractions[p[2]].field = field /\ extractions[q[2]].field = field
             /\ extractions[p[2]].value # extractions[q[2]].value
  BY DEF Conflicting

\* What assemble does with any extractions of any pages.
LEMMA RecordsAreAssembled ==
    ASSUME case.kind = "record", IsRecord(case)
    PROVE  AssemblyIsSound
  <1> DEFINE extractions == case.extractions
             metas == case.metas
             record == Assemble(extractions, metas)
             indices == {m.index : m \in Range(metas)}
             leaves == {m.page : m \in Range(metas)}
             Values(f) == {e.value : e \in {d \in Range(extractions) : d.field = f /\ d.page \in leaves}}
             kept == {extractions[p[2]] : p \in Kept(extractions, metas)}
  <1>1. /\ Ordered(metas) /\ DOMAIN metas # {} /\ DOMAIN extractions \subseteq Nat
        /\ IsFiniteSet(DOMAIN extractions)
    BY RecordsAreOrdered
  <1>2. /\ record.extraction_ids = {e.id : e \in kept}
        /\ record.missing = MissingPages(metas)
        /\ record.strategy = Strategy(metas)
        /\ record.conflicts = {f \in {e.field : e \in kept} : Conflicting(f, extractions, metas)}
    BY DEF Assemble
  <1>3. leaves = {metas[k].page : k \in DOMAIN metas} /\ indices = {metas[k].index : k \in DOMAIN metas}
    BY DEF Range
  <1>4. kept = {e \in Range(extractions) : e.page \in leaves}
    <2>1. kept = {e \in Range(extractions) : e.page \in {metas[k].page : k \in DOMAIN metas}}
      <3> HIDE DEF extractions, metas
      <3> QED
        BY KeptOfKnownPages
    <2> HIDE DEF extractions, metas, kept, leaves
    <2> QED
      BY <1>3, <2>1
  <1>5. record.missing = {i \in Min(indices)..Max(indices) : i \notin indices}
    <2> HIDE DEF record, metas, indices
    <2> QED
      BY <1>1, <1>2, <1>3, MissingAreMissing
  <1>6. ASSUME NEW f, Cardinality(Values(f) \ {Unread}) > 1
        PROVE  f \in record.conflicts
    <2>1. PICK v, w \in Values(f) \ {Unread} : v # w
      <3> HIDE DEF Values
      <3> QED
        BY <1>6, SeveralDiffer
    <2>2. PICK d, e \in kept : /\ d.field = f /\ d.value = v
                               /\ e.field = f /\ e.value = w
      <3> HIDE DEF kept
      <3> QED
        BY <1>4, <2>1
    <2>3. PICK p, q \in Kept(extractions, metas) : d = extractions[p[2]] /\ e = extractions[q[2]]
      OBVIOUS
    <2>4. Conflicting(f, extractions, metas)
      <3> HIDE DEF extractions, metas, kept, Values
      <3> QED
        BY <1>1, <2>1, <2>2, <2>3, DifferingConflict
    <2> HIDE DEF record, kept
    <2> QED
      BY <1>2, <2>2, <2>4
  <1>7. ASSUME NEW f \in record.conflicts
        PROVE  Cardinality(Values(f)) > 1
    <2>1. Conflicting(f, extractions, metas)
      <3> HIDE DEF record
      <3> QED
        BY <1>2, <1>7
    <2>2. PICK p, q \in Kept(extractions, metas) :
             /\ extractions[p[2]].field = f /\ extractions[q[2]].field = f
             /\ extractions[p[2]].value # extractions[q[2]].value
      BY <2>1, ConflictsDiffer
    <2>3. extractions[p[2]] \in kept /\ extractions[q[2]] \in kept
      OBVIOUS
    <2>4. extractions[p[2]].value \in Values(f) /\ extractions[q[2]].value \in Values(f)
      <3> HIDE DEF kept
      <3> QED
        BY <1>4, <2>2, <2>3
    <2>5. IsFiniteSet(Values(f))
      <3> DEFINE g == [j \in DOMAIN extractions |-> extractions[j].value]
      <3>1. IsFiniteSet(DOMAIN g)
        BY <1>1
      <3>2. Values(f) \in SUBSET Range(g)
        BY DEF Range
      <3> HIDE DEF g, Values
      <3> QED
        BY <3>1, <3>2, FiniteRange, FS_Subset
    <2> HIDE DEF Values, extractions
    <2> QED
      BY <2>2, <2>4, <2>5, DifferAreSeveral
  <1>8. record.extraction_ids = {e.id : e \in {d \in Range(extractions) : d.page \in leaves}}
    <2> HIDE DEF record, kept
    <2> QED
      BY <1>2, <1>4
  <1>9. ASSUME record.strategy = "single_page",
               NEW d \in Range(extractions), NEW e \in Range(extractions),
               d.id \in record.extraction_ids, e.id \in record.extraction_ids
        PROVE  d.page = e.page
    <2>1. ~(Cardinality(DOMAIN metas) > 1)
      BY <1>2, <1>9 DEF Strategy
    <2>2. \A j, k \in DOMAIN metas : j = k
      <3> HIDE DEF metas
      <3> QED
        BY <1>1, <2>1, DifferAreSeveral DEF Ordered
    <2>3. \A x, y \in leaves : x = y
      BY <1>3, <2>2
    <2>4. ASSUME NEW x \in Range(extractions), x.id \in record.extraction_ids PROVE x.page \in leaves
      <3>1. PICK y \in Range(extractions) : y.page \in leaves /\ y.id = x.id
        <4> HIDE DEF record, leaves, extractions
        <4> QED
          BY <1>8, <2>4
      <3>2. PICK j, k \in DOMAIN extractions : x = extractions[j] /\ y = extractions[k]
        BY DEF Range
      <3>3. j = k
        BY <3>1, <3>2 DEF IsRecord
      <3> QED
        BY <3>1, <3>2, <3>3
    <2> HIDE DEF record, leaves, extractions
    <2> QED
      BY <1>9, <2>3, <2>4
  <1>10. LET own == Assemble(extractions, DefaultMetas(extractions))
         IN own.missing = {} /\ own.extraction_ids = {e.id : e \in Range(extractions)}
    <2> DEFINE own == Assemble(extractions, DefaultMetas(extractions))
               all == {extractions[p[2]] : p \in Kept(extractions, DefaultMetas(extractions))}
    <2>1. own.missing = MissingPages(DefaultMetas(extractions)) /\ own.extraction_ids = {e.id : e \in all}
      BY DEF Assemble
    <2>2. IsSequence(extractions)
      BY DEF IsRecord
    <2>3. \A i \in DOMAIN extractions :
             extractions[i].page \in {DefaultMetas(extractions)[k].page : k \in DOMAIN DefaultMetas(extractions)}
      <3> HIDE DEF extractions
      <3> QED
        BY <2>2, DefaultsAreOrdered
    <2>4. all = Range(extractions)
      <3>1. \A e \in Range(extractions) :
               e.page \in {DefaultMetas(extractions)[k].page : k \in DOMAIN DefaultMetas(extractions)}
        BY <2>3 DEF Range
      <3> HIDE DEF extractions
      <3> QED
        BY <3>1, KeptOfKnownPages
    <2>5. MissingPages(DefaultMetas(extractions)) = {}
      <3> HIDE DEF extractions
      <3> QED
        BY <2>2, DefaultsHaveNoGap
    <2> HIDE DEF own, all
    <2> QED
      BY <2>1, <2>4, <2>5 DEF own
  <1>11. AssemblyIsSound <=>
           /\ record.missing = {i \in Min(indices)..Max(indices) : i \notin indices}
           /\ \A f \in {e.field : e \in Range(extractions)} :
                /\ Cardinality(Values(f) \ {Unread}) > 1 => f \in record.conflicts
                /\ f \in record.conflicts => Cardinality(Values(f)) > 1
           /\ record.extraction_ids = {e.id : e \in {d \in Range(extractions) : d.page \in leaves}}
           /\ record.strategy = "single_page" => \A d, e \in Range(extractions) :
                {d.id, e.id} \subseteq record.extraction_ids => d.page = e.page
           /\ extractions # <<>> =>
                LET own == Assemble(extractions, DefaultMetas(extractions))
                IN own.missing = {} /\ own.extraction_ids = {e.id : e \in Range(extractions)}
    BY DEF AssemblyIsSound
  <1> HIDE DEF record, indices, Values, leaves, extractions
  <1> QED
    BY <1>5, <1>6, <1>7, <1>8, <1>9, <1>10, <1>11

------------------------------------------------------------------------------
(* Owners and parcels.                                                       *)

\* The last parcel of some of them, in the order of heights.
LEMMA LastParcel ==
    ASSUME NEW parcels, IsSequence(parcels), Range(parcels) \subseteq Nat,
           NEW S \in SUBSET DOMAIN parcels, S # {}
    PROVE  \E p \in S : \A q \in S : q = p \/ Below(p, q, parcels)
  <1> DEFINE metas == [p \in DOMAIN parcels |-> [index |-> parcels[p]]]
  <1>1. DOMAIN parcels \subseteq Nat /\ IsFiniteSet(DOMAIN parcels)
    BY SequenceDomain
  <1>2. \A p \in DOMAIN parcels : parcels[p] \in Nat
    BY DEF Range
  <1>3. DOMAIN metas = DOMAIN parcels /\ \A p \in DOMAIN parcels : metas[p].index = parcels[p]
    OBVIOUS
  <1>4. Ordered(metas)
    BY <1>1, <1>2, <1>3 DEF Ordered
  <1>5. \A p, q \in DOMAIN parcels : Before(q, p, metas) => Below(p, q, parcels)
    BY <1>2, <1>3 DEF Before, Below
  <1> HIDE DEF metas
  <1>6. PICK p \in S : \A q \in S : q = p \/ Before(q, p, metas)
    BY <1>3, <1>4, EndsOfPages
  <1> QED
    BY <1>5, <1>6

\* Two parcels follow one another.
LEMMA ParcelsAreOrdered ==
    ASSUME NEW parcels, IsSequence(parcels), Range(parcels) \subseteq Nat,
           NEW p \in DOMAIN parcels, NEW q \in DOMAIN parcels, p # q
    PROVE  Below(p, q, parcels) \/ Below(q, p, parcels)
  <1>1. p \in Nat /\ q \in Nat
    BY SequenceDomain
  <1>2. parcels[p] \in Nat /\ parcels[q] \in Nat
    BY DEF Range
  <1> QED
    BY <1>1, <1>2 DEF Below

\* The owners of any column of parcels are placed.
LEMMA OwnersHavePlaces ==
    ASSUME case.kind = "owners", IsColumn(case)
    PROVE  OwnersArePlaced
  <1> DEFINE parcels == case.parcels
             owners == case.owners
             slack == case.slack
             first == IF parcels = <<>> THEN 0 ELSE Min(Range(parcels))
             In(p) == Band(owners, p, parcels, slack)
             Share(p) == FirstOf(Band(case.shares, p, parcels, slack))
             above == {o \in DOMAIN owners : owners[o] < first - slack}
             Alone == Len(parcels) <= 1 /\ Len(owners) <= 1
             bindings == ExtractRelationships(parcels, owners, case.shares, slack)
             Of(o) == {b \in bindings : o \in b.owners}
             At(p) == Binding(p, In(p), Share(p),
                       In(p) = {} \/ (Len(parcels) > 1 /\ Cardinality(In(p)) > 2 /\ Share(p) = 0))
             Only == Binding(Len(parcels), DOMAIN owners, FirstOf(DOMAIN case.shares),
                       Len(parcels) = 0 \/ Len(owners) = 0)
  <1>1. /\ IsSequence(parcels) /\ IsSequence(owners) /\ slack \in Nat
        /\ Range(parcels) \subseteq Nat /\ \A o \in DOMAIN owners : owners[o] \in Nat
        /\ \A p \in DOMAIN parcels : parcels[p] \in Nat
        /\ Len(parcels) \in Nat /\ Len(owners) \in Nat
        /\ DOMAIN owners = 1..Len(owners) /\ DOMAIN parcels = 1..Len(parcels)
    <2>1. IsSequence(parcels) /\ IsSequence(owners) /\ slack \in Nat
          /\ Range(parcels) \subseteq Nat /\ Range(owners) \subseteq Nat
      BY DEF IsColumn
    <2>2. \A o \in DOMAIN owners : owners[o] \in Nat
      BY <2>1 DEF Range
    <2>3. \A p \in DOMAIN parcels : parcels[p] \in Nat
      BY <2>1 DEF Range
    <2> HIDE DEF parcels, owners
    <2> QED
      BY <2>1, <2>2, <2>3, SequenceDomain
  <1>2. Alone => bindings = {Only}
    BY DEF ExtractRelationships
  <1>3. ~Alone => bindings = {At(p) : p \in DOMAIN parcels}
                               \cup (IF above = {} THEN {} ELSE {Binding(0, above, 0, TRUE)})
    BY DEF ExtractRelationships
  <1>4. \A a, b, c, d : Binding(a, b, c, d).owners = b
    BY DEF Binding
  <1>5. parcels # <<>> => /\ first \in Nat
                          /\ \E p \in DOMAIN parcels : parcels[p] = first
                          /\ \A p \in DOMAIN parcels : first <= parcels[p]
    <2> SUFFICES ASSUME parcels # <<>>
                 PROVE  /\ first \in Nat
                        /\ \E p \in DOMAIN parcels : parcels[p] = first
                        /\ \A p \in DOMAIN parcels : first <= parcels[p]
      OBVIOUS
    <2>1. Range(parcels) # {} /\ Range(parcels) \subseteq Int /\ \A y \in Range(parcels) : 0 <= y
      <3>1. 1 \in DOMAIN parcels
        BY <1>1, SequenceDomain
      <3>2. parcels[1] \in Range(parcels)
        BY <3>1 DEF Range
      <3>3. Range(parcels) \subseteq Nat
        BY <1>1
      <3> HIDE DEF parcels
      <3> QED
        BY <3>2, <3>3
    <2>2. Min(Range(parcels)) \in Range(parcels) /\ \A y \in Range(parcels) : Min(Range(parcels)) <= y
      BY <2>1, MinIsLeast
    <2>3. first = Min(Range(parcels))
      OBVIOUS
    <2> HIDE DEF first, parcels
    <2> QED
      BY <1>1, <2>2, <2>3 DEF Range
  <1> HIDE DEF parcels, owners, slack, first
  <1>6. \A o, p : o \in In(p) <=>
           /\ o \in DOMAIN owners /\ owners[o] >= parcels[p] - slack
           /\ \A q \in DOMAIN parcels : Below(q, p, parcels) => owners[o] < parcels[q]
    BY DEF Band
  <1>7. ASSUME NEW o \in DOMAIN owners, parcels # <<>> \/ Len(owners) = 1
        PROVE  \E b \in bindings : o \in b.owners
    <2>1. CASE Alone
      BY <1>2, <1>4, <2>1
    <2>2. CASE ~Alone /\ o \in above
      <3>1. Binding(0, above, 0, TRUE) \in bindings
        <4> HIDE DEF bindings, At, above
        <4> QED
          BY <1>3, <2>2
      <3>2. Binding(0, above, 0, TRUE).owners = above
        BY DEF Binding
      <3> HIDE DEF bindings, above
      <3> QED
        BY <2>2, <3>1, <3>2
    <2>3. CASE ~Alone /\ o \notin above
      <3>1. parcels # <<>>
        <4>1. parcels = <<>> => Len(parcels) = 0
          BY <1>1, EmptySeq
        <4> QED
          BY <1>1, <1>7, <2>3, <4>1
      <3>2. owners[o] >= first - slack
        BY <1>1, <1>5, <2>3, <3>1
      <3> DEFINE P == {p \in DOMAIN parcels : parcels[p] <= owners[o]}
      <3>3. \E p \in DOMAIN parcels : o \in In(p)
        <4>1. CASE P # {}
          <5>1. PICK p \in P : \A q \in P : q = p \/ Below(p, q, parcels)
            <6>1. P \in SUBSET DOMAIN parcels
              OBVIOUS
            <6> HIDE DEF P
            <6> QED
              BY <1>1, <4>1, <6>1, LastParcel
          <5>2. owners[o] >= parcels[p] - slack
            BY <1>1
          <5>3. ASSUME NEW q \in DOMAIN parcels, Below(q, p, parcels) PROVE owners[o] < parcels[q]
            <6>1. ~(q = p \/ Below(p, q, parcels))
              BY <1>1, <5>3 DEF Below
            <6>2. q \notin P
              BY <5>1, <6>1
            <6> QED
              BY <1>1, <6>2
          <5> HIDE DEF In
          <5> QED
            BY <1>6, <5>2, <5>3
        <4>2. CASE P = {}
          <5>1. PICK p \in DOMAIN parcels : parcels[p] = first
            BY <1>5, <3>1
          <5>2. \A q \in DOMAIN parcels : owners[o] < parcels[q]
            BY <1>1, <4>2
          <5> HIDE DEF In
          <5> QED
            BY <1>6, <3>2, <5>1, <5>2
        <4> QED
          BY <4>1, <4>2
      <3>4. PICK p \in DOMAIN parcels : o \in In(p)
        BY <3>3
      <3>5. At(p) \in bindings
        <4> HIDE DEF bindings, At, above
        <4> QED
          BY <1>3, <2>3
      <3>6. At(p).owners = In(p)
        BY <1>4
      <3> HIDE DEF bindings, At, In
      <3> QED
        BY <3>4, <3>5, <3>6
    <2> QED
      BY <2>1, <2>2, <2>3
  <1>8. ASSUME NEW o \in DOMAIN owners,
               NEW p \in DOMAIN parcels, NEW q \in DOMAIN parcels, p # q, o \in In(p), o \in In(q)
        PROVE  \E r \in Range(parcels) : owners[o] \in (r - slack)..(r - 1)
    <2>1. ASSUME NEW k \in DOMAIN parcels, NEW l \in DOMAIN parcels,
                 Below(l, k, parcels), o \in In(k), o \in In(l)
          PROVE  owners[o] \in (parcels[l] - slack)..(parcels[l] - 1)
      <3>1. owners[o] < parcels[l] /\ owners[o] >= parcels[l] - slack
        <4> HIDE DEF In
        <4> QED
          BY <1>6, <2>1
      <3> QED
        BY <1>1, <3>1
    <2>2. Below(p, q, parcels) \/ Below(q, p, parcels)
      BY <1>1, <1>8, ParcelsAreOrdered
    <2>3. parcels[p] \in Range(parcels) /\ parcels[q] \in Range(parcels)
      BY DEF Range
    <2> HIDE DEF In
    <2> QED
      BY <1>8, <2>1, <2>2, <2>3
  <1>9. ASSUME NEW o \in DOMAIN owners, NEW b \in Of(o), NEW c \in Of(o), b # c
        PROVE  \E r \in Range(parcels) : owners[o] \in (r - slack)..(r - 1)
    <2>1. ~Alone
      BY <1>2, <1>9
    <2>2. ASSUME NEW d \in Of(o)
          PROVE  \/ \E p \in DOMAIN parcels : d = At(p) /\ o \in In(p)
                 \/ d = Binding(0, above, 0, TRUE) /\ o \in above
      <3>1. d \in bindings /\ o \in d.owners
        OBVIOUS
      <3>2. (\E p \in DOMAIN parcels : d = At(p)) \/ d = Binding(0, above, 0, TRUE)
        <4> HIDE DEF bindings, At, above
        <4> QED
          BY <1>3, <2>1, <3>1
      <3>3. \A p : At(p).owners = In(p)
        BY <1>4
      <3>4. Binding(0, above, 0, TRUE).owners = above
        BY DEF Binding
      <3> HIDE DEF bindings, At, above, In
      <3> QED
        BY <3>1, <3>2, <3>3, <3>4
    <2>3. ~(o \in above /\ \E p \in DOMAIN parcels : o \in In(p))
      <3> SUFFICES ASSUME o \in above, NEW p \in DOMAIN parcels, o \in In(p) PROVE FALSE
        OBVIOUS
      <3>1. owners[o] >= parcels[p] - slack /\ owners[o] < first - slack
        <4> HIDE DEF In
        <4> QED
          BY <1>6
      <3>2. parcels # <<>>
        BY <1>1, EmptySeq
      <3> QED
        BY <1>1, <1>5, <3>1, <3>2
    <2>4. PICK p, q \in DOMAIN parcels : b = At(p) /\ o \in In(p) /\ c = At(q) /\ o \in In(q)
      <3> HIDE DEF Of, At, In, above
      <3> QED
        BY <1>9, <2>2, <2>3
    <2>5. p # q
      <3> HIDE DEF At
      <3> QED
        BY <1>9, <2>4
    <2> HIDE DEF Of, At, In
    <2> QED
      BY <1>8, <2>4, <2>5
  <1>10. OwnersArePlaced <=>
           \A o \in DOMAIN owners :
            /\ parcels # <<>> \/ Len(owners) = 1 => Of(o) # {}
            /\ Cardinality(Of(o)) > 1 => \E r \in Range(parcels) : owners[o] \in (r - slack)..(r - 1)
    BY DEF OwnersArePlaced, parcels, owners, slack
  <1>11. ASSUME NEW o \in DOMAIN owners, Cardinality(Of(o)) > 1
         PROVE  \E r \in Range(parcels) : owners[o] \in (r - slack)..(r - 1)
    <2>1. PICK b, c \in Of(o) : b # c
      <3> HIDE DEF Of
      <3> QED
        BY <1>11, SeveralDiffer
    <2> HIDE DEF Of
    <2> QED
      BY <1>9, <2>1
  <1>12. \A o \in DOMAIN owners : parcels # <<>> \/ Len(owners) = 1 => Of(o) # {}
    <2> HIDE DEF bindings
    <2> QED
      BY <1>7
  <1> HIDE DEF Of
  <1> QED
    BY <1>10, <1>11, <1>12

------------------------------------------------------------------------------
(* Cuts, cells and their spans.                                              *)

\* The cuts left when each one close to the cut before it is dropped.
IsKernel(cuts, S, tolerance) ==
    \A c \in S : c \in cuts <=> \A k \in cuts : k < c => c - k >= tolerance

\* Coordinates can be clustered: the greatest is a cut or it is not, after the others.
LEMMA KernelExists ==
    ASSUME NEW S, IsFiniteSet(S), S \subseteq Int, NEW tolerance \in Int
    PROVE  \E cuts \in SUBSET S : IsKernel(cuts, S, tolerance)
  <1> DEFINE Clustered(U) == \E cuts \in SUBSET U : IsKernel(cuts, U, tolerance)
             N == {n \in Nat : \E U \in SUBSET S : Cardinality(U) = n /\ ~Clustered(U)}
  <1> SUFFICES ASSUME ~Clustered(S) PROVE FALSE
    OBVIOUS
  <1>1. Cardinality(S) \in N
    BY FS_CardinalityType
  <1>2. PICK n \in N : \A m \in N : n <= m
    <2>1. N \subseteq Nat
      OBVIOUS
    <2> HIDE DEF N
    <2> QED
      BY <1>1, <2>1, Smallest
  <1>3. PICK U \in SUBSET S : Cardinality(U) = n /\ ~Clustered(U)
    BY <1>2
  <1>4. IsFiniteSet(U) /\ U \subseteq Int
    BY FS_Subset
  <1>5. U # {}
    <2> SUFFICES ASSUME U = {} PROVE Clustered(U)
      BY <1>3
    <2>1. IsKernel({}, U, tolerance) /\ {} \in SUBSET U
      BY DEF IsKernel
    <2> QED
      BY <2>1
  <1> DEFINE top == Max(U)
             V == U \ {top}
  <1>6. top \in U /\ \A y \in U : y <= top
    BY <1>4, <1>5, FiniteExtremes
  <1> HIDE DEF top
  <1>7. Cardinality(V) = n - 1 /\ n - 1 \in Nat
    <2>1. IsFiniteSet(V) /\ Cardinality(V) = n - 1
      BY <1>3, <1>4, <1>6, FS_RemoveElement
    <2>2. Cardinality(V) \in Nat
      BY <2>1, FS_CardinalityType
    <2> HIDE DEF V
    <2> QED
      BY <2>1, <2>2
  <1>8. Clustered(V)
    <2>1. n - 1 \notin N
      BY <1>2, <1>7
    <2>2. V \in SUBSET S
      OBVIOUS
    <2> HIDE DEF V, Clustered
    <2> QED
      BY <1>7, <2>1, <2>2
  <1>9. PICK cuts \in SUBSET V : IsKernel(cuts, V, tolerance)
    BY <1>8
  <1>10. \A k \in V : k < top /\ k \in Int
    BY <1>4, <1>6
  <1>11. CASE \A k \in cuts : top - k >= tolerance
    <2>1. cuts \cup {top} \in SUBSET U
      BY <1>6
    <2>2. IsKernel(cuts \cup {top}, U, tolerance)
      BY <1>4, <1>6, <1>9, <1>10, <1>11 DEF IsKernel
    <2> QED
      BY <1>3, <2>1, <2>2
  <1>12. CASE ~ \A k \in cuts : top - k >= tolerance
    <2>1. cuts \in SUBSET U
      OBVIOUS
    <2>2. IsKernel(cuts, U, tolerance)
      BY <1>4, <1>6, <1>9, <1>10, <1>12 DEF IsKernel
    <2> QED
      BY <1>3, <2>1, <2>2
  <1> QED
    BY <1>11, <1>12

\* The cuts are coordinates, the least coordinate is one, and of any other one is
\* close before it.
LEMMA Clusters ==
    ASSUME NEW S, IsFiniteSet(S), S \subseteq Int, S # {}, NEW tolerance \in Int
    PROVE  /\ Cluster(S, tolerance) \in SUBSET S
           /\ Min(S) \in Cluster(S, tolerance)
           /\ \A c \in S \ Cluster(S, tolerance) :
                 \E k \in Cluster(S, tolerance) : k < c /\ c - k < tolerance
  <1> DEFINE cuts == Cluster(S, tolerance)
  <1>1. cuts \in SUBSET S /\ IsKernel(cuts, S, tolerance)
    BY KernelExists DEF Cluster, IsKernel
  <1> HIDE DEF cuts
  <1>2. Min(S) \in S /\ \A y \in S : Min(S) <= y
    BY FiniteExtremes
  <1>3. \A k \in cuts : ~(k < Min(S))
    <2> SUFFICES ASSUME NEW k \in cuts PROVE ~(k < Min(S))
      OBVIOUS
    <2>1. Min(S) \in Int /\ k \in Int /\ Min(S) <= k
      BY <1>1, <1>2
    <2> QED
      BY <2>1
  <1>4. Min(S) \in cuts
    BY <1>1, <1>2, <1>3 DEF IsKernel
  <1>5. \A c \in S \ cuts : \E k \in cuts : k < c /\ c - k < tolerance
    BY <1>1 DEF IsKernel
  <1> QED
    BY <1>1, <1>4, <1>5 DEF cuts

\* A table has cuts, and they are finite in number.
LEMMA CutsAreThere ==
    ASSUME NEW i, IsTable(i), i.tokens # {}
    PROVE  LET cuts == Cuts(i.lines, i.tokens, i.tolerance)
           IN /\ IsFiniteSet(cuts) /\ cuts \subseteq Nat /\ cuts # {}
              /\ i.lines = {} => \A t \in i.tokens :
                    /\ \E k \in cuts : k <= t.x
                    /\ t.w >= i.tolerance + i.inset => \E k \in cuts : k > t.x + i.inset
  <1> DEFINE ends == {t.x : t \in i.tokens} \cup {t.x + t.w : t \in i.tokens}
             S == IF i.lines # {} THEN i.lines ELSE ends
             cluster == Cluster(S, i.tolerance)
             cuts == Cuts(i.lines, i.tokens, i.tolerance)
  <1>1. /\ IsFiniteSet(i.tokens) /\ \A t \in i.tokens : t.x \in Nat /\ t.w \in Nat /\ t.w >= 1
        /\ IsFiniteSet(i.lines) /\ i.lines \subseteq Nat
        /\ i.tolerance \in Nat /\ i.tolerance >= 1 /\ i.inset \in Nat
    BY DEF IsTable
  <1>2. IsFiniteSet(ends) /\ ends \subseteq Nat /\ ends # {}
    <2> DEFINE f == [t \in i.tokens |-> t.x]
               g == [t \in i.tokens |-> t.x + t.w]
    <2>1. ends = Range(f) \cup Range(g)
      BY DEF Range
    <2>2. DOMAIN f = i.tokens /\ DOMAIN g = i.tokens
      OBVIOUS
    <2>3. IsFiniteSet(Range(f)) /\ IsFiniteSet(Range(g))
      <3> HIDE DEF f, g
      <3> QED
        BY <1>1, <2>2, FiniteRange
    <2>4. IsFiniteSet(Range(f) \cup Range(g))
      <3> HIDE DEF f, g
      <3> QED
        BY <2>3, FS_Union
    <2> HIDE DEF f, g
    <2>5. ends \subseteq Nat /\ ends # {}
      BY <1>1
    <2> QED
      BY <2>1, <2>4, <2>5
  <1>3. /\ Min(ends) \in ends /\ \A y \in ends : Min(ends) <= y
        /\ Max(ends) \in ends /\ \A y \in ends : y <= Max(ends)
    <2>1. ends \subseteq Int
      BY <1>2
    <2> HIDE DEF ends
    <2> QED
      BY <1>2, <2>1, FiniteExtremes
  <1>4. \A t \in i.tokens : t.x \in ends /\ t.x + t.w \in ends
    OBVIOUS
  <1>5. cuts = IF Cardinality(cluster) >= 2 THEN cluster ELSE {Min(ends), Max(ends)}
    BY DEF Cuts
  <1>6. IsFiniteSet(S) /\ S \subseteq Nat /\ S # {}
    <2> HIDE DEF ends
    <2> QED
      BY <1>1, <1>2
  <1>7. /\ cluster \in SUBSET S /\ Min(S) \in cluster
        /\ \A c \in S \ cluster : \E k \in cluster : k < c /\ c - k < i.tolerance
    <2>1. S \subseteq Int /\ i.tolerance \in Int
      BY <1>1, <1>6
    <2> HIDE DEF S
    <2> QED
      BY <1>6, <2>1, Clusters
  <1>8. i.lines = {} => S = ends
    OBVIOUS
  <1> HIDE DEF ends, S, cluster, cuts
  <1>9. IsFiniteSet(cuts) /\ cuts \subseteq Nat /\ cuts # {}
    <2>1. CASE cuts = cluster
      BY <1>6, <1>7, <2>1, FS_Subset
    <2>2. CASE cuts = {Min(ends), Max(ends)}
      <3>1. cuts \in SUBSET ends
        BY <1>3, <2>2
      <3> QED
        BY <1>2, <2>2, <3>1, FS_Subset
    <2> QED
      BY <1>5, <2>1, <2>2
  <1>10. ASSUME i.lines = {}, NEW t \in i.tokens
         PROVE  /\ \E k \in cuts : k <= t.x
                /\ t.w >= i.tolerance + i.inset => \E k \in cuts : k > t.x + i.inset
    <2>1. /\ t.x \in Nat /\ t.w \in Nat /\ t.w >= 1
          /\ i.tolerance \in Nat /\ i.tolerance >= 1 /\ i.inset \in Nat
      BY <1>1
    <2>2. Min(ends) \in Int /\ Max(ends) \in Int /\ Min(ends) <= t.x /\ t.x + t.w <= Max(ends)
      <3>1. \A e \in ends : e \in Int
        BY <1>2
      <3>2. Min(ends) \in Int /\ Max(ends) \in Int /\ t.x \in Int /\ t.x + t.w \in Int
        BY <1>3, <1>4, <3>1
      <3>3. Min(ends) <= t.x /\ t.x + t.w <= Max(ends)
        BY <1>3, <1>4
      <3> QED
        BY <3>2, <3>3
    <2>3. CASE cuts = {Min(ends), Max(ends)}
      BY <2>1, <2>2, <2>3
    <2>4. CASE cuts = cluster
      <3>1. \E k \in cuts : k <= t.x
        BY <1>7, <1>8, <1>10, <2>2, <2>4
      <3>2. CASE t.x + t.w \in cluster
        BY <2>1, <2>4, <3>1, <3>2
      <3>3. CASE t.x + t.w \notin cluster
        <4> DEFINE e == t.x + t.w
        <4>1. e \in S \ cluster
          BY <1>4, <1>8, <1>10, <3>3
        <4> HIDE DEF e
        <4>4. PICK k \in cluster : k < e /\ e - k < i.tolerance
          BY <1>7, <4>1
        <4>2. k \in Nat
          BY <1>6, <1>7
        <4>3. t.w >= i.tolerance + i.inset => k > t.x + i.inset
          <5>1. e = t.x + t.w
            BY DEF e
          <5> QED
            BY <2>1, <4>2, <4>4, <5>1
        <4> QED
          BY <2>4, <3>1, <4>3
      <3> QED
        BY <3>2, <3>3
    <2> QED
      BY <1>5, <2>3, <2>4
  <1> QED
    BY <1>9, <1>10 DEF cuts

\* The anchor is in the left half of the token.
LEMMA Anchors ==
    ASSUME NEW t, t.x \in Nat, t.w \in Nat, NEW inset \in Nat
    PROVE  /\ Anchor(t, inset) \in Nat /\ 2 * t.x <= Anchor(t, inset)
           /\ Anchor(t, inset) <= 2 * t.x + 2 * inset
           /\ t.w >= 2 * inset => Anchor(t, inset) = 2 * t.x + 2 * inset
  <1> DEFINE S == {2 * inset, t.w}
  <1>1. S \subseteq Nat /\ S # {}
    OBVIOUS
  <1>2. Min(S) \in S /\ \A y \in S : Min(S) <= y
    <2> HIDE DEF S
    <2> QED
      BY <1>1, MinOfNaturals
  <1>3. Anchor(t, inset) = 2 * t.x + Min(S)
    BY DEF Anchor
  <1> HIDE DEF S
  <1>4. Min(S) \in Nat /\ Min(S) <= 2 * inset /\ (t.w >= 2 * inset => Min(S) = 2 * inset)
    BY <1>2 DEF S
  <1> QED
    BY <1>3, <1>4

\* A token that begins behind a cut and has a cut behind its anchor is in a cell.
LEMMA BetweenCuts ==
    ASSUME NEW cuts, cuts \subseteq Nat,
           NEW t, NEW inset, Anchor(t, inset) \in Nat,
           NEW a \in cuts, 2 * a <= Anchor(t, inset),
           NEW z \in cuts, 2 * z > Anchor(t, inset)
    PROVE  CellOf(t, cuts, inset) # NoCell
  <1> DEFINE L == {k \in cuts : 2 * k <= Anchor(t, inset)}
             m == Max(L)
  <1>1. \A k \in cuts : k \in Nat
    OBVIOUS
  <1>2. L \subseteq Int /\ L # {} /\ Anchor(t, inset) \in Int /\ \A y \in L : y <= Anchor(t, inset)
    <2>1. \A y \in L : y \in Int /\ y <= Anchor(t, inset)
      BY <1>1
    <2>2. a \in L
      OBVIOUS
    <2> HIDE DEF L
    <2> QED
      BY <2>1, <2>2
  <1>3. m \in L /\ \A y \in L : y <= m
    <2> HIDE DEF L
    <2> QED
      BY <1>2, MaxIsGreatest
  <1> HIDE DEF m
  <1>4. m \in CellsOf(t, cuts, inset)
    <2>1. m \in cuts /\ 2 * m <= Anchor(t, inset) /\ m \in Nat
      BY <1>3
    <2>2. z > m
      BY <1>1, <2>1
    <2>3. ASSUME NEW k \in cuts, k > m PROVE Anchor(t, inset) <= 2 * k
      <3>1. k \in Nat /\ k \notin L
        BY <1>1, <1>3, <2>1, <2>3
      <3> QED
        BY <3>1
    <2>4. \A k \in {l \in cuts : l > m} : Anchor(t, inset) <= 2 * k
      BY <2>3
    <2>5. z \in {l \in cuts : l > m}
      BY <2>2
    <2> HIDE DEF L
    <2> QED
      BY <2>1, <2>4, <2>5 DEF CellsOf
  <1>5. CellsOf(t, cuts, inset) \subseteq cuts
    BY DEF CellsOf
  <1>6. Min(CellsOf(t, cuts, inset)) \in cuts
    BY <1>4, <1>5, MinOfNaturals
  <1>7. Min(CellsOf(t, cuts, inset)) # -1
    BY <1>1, <1>6
  <1> QED
    BY <1>4, <1>7 DEF CellOf, NoCell

\* The cell of a token is one of the cells that hold it.
LEMMA CellHolds ==
    ASSUME NEW cuts, cuts \subseteq Nat, NEW t, NEW inset, CellOf(t, cuts, inset) # NoCell
    PROVE  CellOf(t, cuts, inset) \in CellsOf(t, cuts, inset)
  <1>1. CellsOf(t, cuts, inset) # {} /\ CellOf(t, cuts, inset) = Min(CellsOf(t, cuts, inset))
    BY DEF CellOf
  <1>2. CellsOf(t, cuts, inset) \subseteq cuts
    BY DEF CellsOf
  <1> QED
    BY <1>1, <1>2, MinOfNaturals

\* A span ends behind its tokens, and within the table when they do.
LEMMA SpansHold ==
    ASSUME NEW cuts, IsFiniteSet(cuts), cuts \subseteq Nat, NEW c \in cuts,
           NEW z \in cuts, c < z, \A k \in cuts : k <= z,
           NEW tokens, \A u \in tokens : u.x \in Nat /\ u.w \in Nat /\ u.x + u.w <= z
    PROVE  LET Width(k) == Cardinality({j \in cuts : c < j /\ j <= k})
               span == ColSpan(c, tokens, cuts)
           IN /\ Width(z) >= span
              /\ \A k \in cuts : Width(k) >= span => \A t \in tokens : t.x + t.w <= k
  <1> DEFINE Within(k) == {j \in cuts : c < j /\ j <= k}
             Inner(t) == {k \in cuts : c < k /\ k < t.x + t.w}
             spans == {1} \cup {1 + Cardinality(Inner(t)) : t \in tokens}
             span == ColSpan(c, tokens, cuts)
             n == Cardinality(cuts)
  <1>1. n \in Nat
    BY FS_CardinalityType
  <1>2. \A S \in SUBSET cuts : IsFiniteSet(S) /\ Cardinality(S) \in Nat /\ Cardinality(S) <= n
    BY FS_Subset, FS_CardinalityType
  <1>3. \A k : Within(k) \in SUBSET cuts
    OBVIOUS
  <1>4. \A t : Inner(t) \in SUBSET cuts
    OBVIOUS
  <1>5. \A k \in cuts : k \in Nat
    OBVIOUS
  <1>6. span \in spans /\ \A s \in spans : s <= span
    <2>1. span = Max(spans)
      BY DEF ColSpan
    <2>2. spans \subseteq Int /\ spans # {} /\ \A s \in spans : s <= 1 + n
      <3>1. \A t : Cardinality(Inner(t)) \in Nat /\ Cardinality(Inner(t)) <= n
        BY <1>2, <1>4
      <3> HIDE DEF Inner, n
      <3> QED
        BY <1>1, <3>1
    <2>3. 1 + n \in Int
      BY <1>1
    <2> HIDE DEF spans, span, n
    <2> QED
      BY <2>1, <2>2, <2>3, MaxIsGreatest
  <1> HIDE DEF span
  <1>7. Cardinality(Within(z)) >= span
    <2>1. CASE span = 1
      <3>1. {z} \in SUBSET Within(z) /\ IsFiniteSet(Within(z))
        BY <1>2, <1>3, <1>5
      <3>2. Cardinality({z}) = 1
        BY FS_Singleton
      <3>3. Cardinality({z}) <= Cardinality(Within(z))
        <4> HIDE DEF Within
        <4> QED
          BY <3>1, FS_Subset
      <3>4. Cardinality(Within(z)) \in Nat
        BY <1>2, <1>3
      <3> HIDE DEF Within
      <3> QED
        BY <2>1, <3>2, <3>3, <3>4
    <2>2. ASSUME NEW t \in tokens, span = 1 + Cardinality(Inner(t))
          PROVE  Cardinality(Within(z)) >= span
      <3>1. t.x + t.w <= z /\ t.x + t.w \in Nat
        OBVIOUS
      <3>2. z \notin Inner(t)
        BY <1>5, <3>1
      <3>3. Inner(t) \cup {z} \in SUBSET Within(z)
        BY <1>5
      <3>4. /\ IsFiniteSet(Inner(t)) /\ Cardinality(Inner(t)) \in Nat
            /\ IsFiniteSet(Within(z)) /\ Cardinality(Within(z)) \in Nat
        <4> HIDE DEF Inner, Within
        <4> QED
          BY <1>2, <1>3, <1>4
      <3> HIDE DEF Inner, Within
      <3>5. Cardinality(Inner(t) \cup {z}) = Cardinality(Inner(t)) + 1
        BY <3>2, <3>4, FS_AddElement
      <3>6. Cardinality(Inner(t) \cup {z}) <= Cardinality(Within(z))
        BY <3>3, <3>4, FS_Subset
      <3> QED
        BY <2>2, <3>4, <3>5, <3>6
    <2>3. span = 1 \/ \E t \in tokens : span = 1 + Cardinality(Inner(t))
      <3> HIDE DEF Inner
      <3> QED
        BY <1>6
    <2> HIDE DEF Within, Inner
    <2> QED
      BY <2>1, <2>2, <2>3
  <1>8. ASSUME NEW k \in cuts, Cardinality(Within(k)) >= span, NEW t \in tokens
        PROVE  t.x + t.w <= k
    <2> SUFFICES ASSUME ~(t.x + t.w <= k) PROVE FALSE
      OBVIOUS
    <2>1. t.x + t.w \in Nat /\ k \in Nat /\ k < t.x + t.w
      BY <1>5
    <2>2. Within(k) \in SUBSET Inner(t)
      <3> SUFFICES ASSUME NEW j \in cuts, j <= k PROVE j < t.x + t.w
        OBVIOUS
      <3>1. j \in Nat
        BY <1>5
      <3> QED
        BY <2>1, <3>1
    <2>3. /\ IsFiniteSet(Inner(t)) /\ Cardinality(Inner(t)) \in Nat
          /\ Cardinality(Within(k)) \in Nat
      <3> HIDE DEF Inner, Within
      <3> QED
        BY <1>2, <1>3, <1>4
    <2>4. 1 + Cardinality(Inner(t)) \in spans
      OBVIOUS
    <2>5. 1 + Cardinality(Inner(t)) <= span
      <3> HIDE DEF spans, Inner
      <3> QED
        BY <1>6, <2>4
    <2>6. span \in Int
      <3>1. \A u : Cardinality(Inner(u)) \in Nat
        BY <1>2, <1>4
      <3> HIDE DEF Inner
      <3> QED
        BY <1>6, <3>1
    <2> HIDE DEF Inner, Within
    <2>7. Cardinality(Within(k)) <= Cardinality(Inner(t))
      BY <2>2, <2>3, FS_Subset
    <2> QED
      BY <1>8, <2>3, <2>5, <2>6, <2>7
  <1> QED
    <2> HIDE DEF Within
    <2>1. Cardinality(Within(z)) >= span /\ \A k \in cuts : Cardinality(Within(k)) >= span => \A t \in tokens : t.x + t.w <= k
      BY <1>7, <1>8
    <2> QED
      BY <2>1 DEF Within, span

\* The tokens of any table are kept.
LEMMA TokensHaveCells ==
    ASSUME case.kind = "table", IsTable(case)
    PROVE  TokensAreKept
  <1> DEFINE tokens == case.tokens
             inset == case.inset
             cuts == Cuts(case.lines, tokens, case.tolerance)
             Cell(t) == CellOf(t, cuts, inset)
             Kin(c) == {u \in tokens : Cell(u) = c}
             Width(c, k) == Cardinality({j \in cuts : c < j /\ j <= k})
  <1> SUFFICES ASSUME tokens # {}
               PROVE  TokensAreKept
    <2>1. tokens = {} => TokensAreKept
      BY DEF TokensAreKept
    <2> QED
      BY <2>1
  <1>1. /\ \A t \in tokens : t.x \in Nat /\ t.w \in Nat /\ t.w >= 1
        /\ case.tolerance \in Nat /\ case.tolerance >= 1 /\ inset \in Nat
    BY DEF IsTable
  <1>2. /\ IsFiniteSet(cuts) /\ cuts \subseteq Nat /\ cuts # {}
        /\ case.lines = {} => \A t \in tokens :
              /\ \E k \in cuts : k <= t.x
              /\ t.w >= case.tolerance + inset => \E k \in cuts : k > t.x + inset
    BY CutsAreThere
  <1>3. \A t \in tokens : /\ Anchor(t, inset) \in Nat /\ 2 * t.x <= Anchor(t, inset)
                          /\ Anchor(t, inset) <= 2 * t.x + 2 * inset
                          /\ t.w >= 2 * inset => Anchor(t, inset) = 2 * t.x + 2 * inset
    BY <1>1, Anchors
  <1> HIDE DEF cuts, inset
  <1>4. \A k \in cuts : k \in Nat
    BY <1>2
  <1>5. \A t \in tokens : Cell(t) # NoCell => Cell(t) \in CellsOf(t, cuts, inset)
    BY <1>2, CellHolds
  <1>6. ASSUME case.lines = {}, NEW t \in tokens, t.w >= case.tolerance + inset
        PROVE  Cell(t) # NoCell
    <2>1. PICK a \in cuts : a <= t.x
      BY <1>2, <1>6
    <2>2. PICK z \in cuts : z > t.x + inset
      BY <1>2, <1>6
    <2>3. 2 * a <= Anchor(t, inset) /\ 2 * z > Anchor(t, inset)
      BY <1>1, <1>3, <1>4, <2>1, <2>2
    <2> QED
      BY <1>2, <1>3, <2>3, BetweenCuts
  <1>7. ASSUME NEW t \in tokens, Cell(t) # NoCell, \A u \in tokens : u.x + u.w <= Max(cuts)
        PROVE  LET span == ColSpan(Cell(t), Kin(Cell(t)), cuts)
               IN /\ Width(Cell(t), Max(cuts)) >= span
                  /\ \A k \in cuts : Width(Cell(t), k) >= span => t.x + t.w <= k
    <2> DEFINE c == Cell(t)
               z == Max(cuts)
    <2>1. z \in cuts /\ \A k \in cuts : k <= z
      <3>1. cuts \subseteq Int
        BY <1>4
      <3> QED
        BY <1>2, <3>1, FiniteExtremes
    <2>2. c \in cuts /\ {k \in cuts : k > c} # {}
      BY <1>5, <1>7 DEF CellsOf
    <2> HIDE DEF c, z
    <2>3. c < z
      BY <1>4, <2>1, <2>2
    <2>4. \A u \in Kin(c) : u.x \in Nat /\ u.w \in Nat /\ u.x + u.w <= z
      BY <1>1, <1>7 DEF z
    <2>5. t \in Kin(c)
      BY DEF c
    <2> HIDE DEF Kin, Width
    <2>6. /\ Cardinality({j \in cuts : c < j /\ j <= z}) >= ColSpan(c, Kin(c), cuts)
          /\ \A k \in cuts : Cardinality({j \in cuts : c < j /\ j <= k}) >= ColSpan(c, Kin(c), cuts)
               => \A u \in Kin(c) : u.x + u.w <= k
      BY <1>2, <2>1, <2>2, <2>3, <2>4, SpansHold
    <2> QED
      BY <2>5, <2>6 DEF c, z, Width
  <1>8. ASSUME NEW t \in tokens, NEW u \in tokens,
               t.x < u.x, t.w >= 2 * inset, u.w >= 2 * inset, Cell(t) # NoCell, Cell(u) # NoCell
        PROVE  Cell(t) <= Cell(u)
    <2> DEFINE c == Cell(t)
               d == Cell(u)
    <2>1. c \in CellsOf(t, cuts, inset) /\ d \in CellsOf(u, cuts, inset)
      BY <1>5, <1>8
    <2>2. Anchor(t, inset) < Anchor(u, inset) /\ Anchor(t, inset) \in Nat /\ Anchor(u, inset) \in Nat
      BY <1>1, <1>3, <1>8
    <2>3. /\ c \in cuts /\ 2 * c <= Anchor(t, inset)
          /\ d \in cuts /\ \A k \in cuts : k > d => Anchor(u, inset) <= 2 * k
      BY <2>1 DEF CellsOf
    <2> HIDE DEF c, d
    <2>4. c <= d
      BY <1>4, <2>2, <2>3
    <2> QED
      BY <2>4 DEF c, d
  <1>9. TokensAreKept <=>
          /\ case.lines = {} => \A t \in tokens : t.w >= case.tolerance + inset => Cell(t) # NoCell
          /\ \A t \in tokens : LET span == ColSpan(Cell(t), Kin(Cell(t)), cuts)
               IN Cell(t) # NoCell /\ (\A u \in tokens : u.x + u.w <= Max(cuts)) =>
                    Width(Cell(t), Max(cuts)) >= span
                      /\ \A k \in cuts : Width(Cell(t), k) >= span => t.x + t.w <= k
          /\ \A t, u \in tokens :
               t.x < u.x /\ t.w >= 2 * inset /\ u.w >= 2 * inset
                 /\ Cell(t) # NoCell /\ Cell(u) # NoCell => Cell(t) <= Cell(u)
    BY DEF TokensAreKept, cuts, inset
  <1> HIDE DEF Cell, Kin, Width, tokens
  <1> QED
    BY <1>6, <1>7, <1>8, <1>9

------------------------------------------------------------------------------
(* The features and their names.                                             *)

\* A list of names and a vector agree on a field.
Agree(names, vector, f) ==
    /\ IsSequence(names) /\ IsSequence(vector) /\ Len(names) = Len(vector)
    /\ \A i \in DOMAIN names : vector[i] = Named(names[i], f)

\* What a concatenation has at each place.
LEMMA Concatenated ==
    ASSUME NEW s, NEW t, IsSequence(s), IsSequence(t)
    PROVE  /\ IsSequence(s \o t) /\ Len(s \o t) = Len(s) + Len(t)
           /\ \A i \in 1..Len(s) : (s \o t)[i] = s[i]
           /\ \A i \in 1..Len(t) : (s \o t)[Len(s) + i] = t[i]
           /\ Range(s \o t) = Range(s) \cup Range(t)
  <1> DEFINE S == Range(s) \cup Range(t)
  <1>1. s \in Seq(Range(s)) /\ t \in Seq(Range(t))
    BY DEF IsSequence
  <1>2. s \in Seq(S) /\ t \in Seq(S)
    BY <1>1
  <1> HIDE DEF S
  <1>3. /\ s \o t \in Seq(S) /\ Len(s \o t) = Len(s) + Len(t)
        /\ \A i \in 1..(Len(s) + Len(t)) :
              (s \o t)[i] = IF i <= Len(s) THEN s[i] ELSE t[i - Len(s)]
    BY <1>2, ConcatProperties
  <1>4. Len(s) \in Nat /\ Len(t) \in Nat
    BY <1>2
  <1>5. \A i \in 1..Len(s) : (s \o t)[i] = s[i]
    BY <1>3, <1>4
  <1>6. \A i \in 1..Len(t) : (s \o t)[Len(s) + i] = t[i]
    BY <1>3, <1>4
  <1>7. DOMAIN s = 1..Len(s) /\ DOMAIN t = 1..Len(t) /\ DOMAIN (s \o t) = 1..(Len(s) + Len(t))
    BY <1>2, <1>3
  <1>8. Range(s \o t) \subseteq Range(s) \cup Range(t)
    <2> SUFFICES ASSUME NEW i \in 1..(Len(s) + Len(t))
                 PROVE  (s \o t)[i] \in Range(s) \cup Range(t)
      BY <1>7 DEF Range
    <2>1. CASE i <= Len(s)
      BY <2>1, <1>4, <1>5, <1>7 DEF Range
    <2>2. CASE i > Len(s)
      <3>1. i - Len(s) \in 1..Len(t) /\ (s \o t)[i] = t[i - Len(s)]
        BY <2>2, <1>3, <1>4
      <3> QED
        BY <3>1, <1>7 DEF Range
    <2> QED
      BY <2>1, <2>2, <1>4
  <1>9. Range(s) \cup Range(t) \subseteq Range(s \o t)
    <2>1. ASSUME NEW i \in 1..Len(s) PROVE s[i] \in Range(s \o t)
      <3>1. i \in 1..(Len(s) + Len(t))
        BY <1>4
      <3> QED
        BY <3>1, <1>5, <1>7 DEF Range
    <2>2. ASSUME NEW i \in 1..Len(t) PROVE t[i] \in Range(s \o t)
      <3>1. Len(s) + i \in 1..(Len(s) + Len(t))
        BY <1>4
      <3>2. (s \o t)[Len(s) + i] \in Range(s \o t)
        BY <3>1, <1>7 DEF Range
      <3> QED
        BY <3>2, <1>6
    <2> QED
      BY <2>1, <2>2, <1>7 DEF Range
  <1>10. \A i \in 1..(Len(s) + Len(t)) : (s \o t)[i] \in Range(s \o t)
    BY <1>7 DEF Range
  <1>11. IsSequence(s \o t)
    <2> DEFINE w == s \o t
               R == Range(s \o t)
    <2>1. w \in Seq(S) /\ DOMAIN w = 1..Len(w) /\ \A i \in 1..Len(w) : w[i] \in R
      BY <1>3, <1>7, <1>10
    <2> HIDE DEF w, R
    <2>2. w \in Seq(R)
      BY <2>1
    <2> QED
      BY <2>2 DEF w, R, IsSequence
  <1> QED
    BY <1>3, <1>5, <1>6, <1>8, <1>9, <1>11

\* Lists that agree still do when they are appended to lists that agree.
LEMMA AgreeTogether ==
    ASSUME NEW f, NEW m, NEW u, NEW n, NEW v, Agree(m, u, f), Agree(n, v, f)
    PROVE  Agree(m \o n, u \o v, f)
  <1>1. /\ IsSequence(m) /\ IsSequence(u) /\ IsSequence(n) /\ IsSequence(v)
        /\ Len(m) = Len(u) /\ Len(n) = Len(v)
    BY DEF Agree
  <1>2. /\ IsSequence(m \o n) /\ Len(m \o n) = Len(m) + Len(n)
        /\ \A i \in 1..Len(m) : (m \o n)[i] = m[i]
        /\ \A i \in 1..Len(n) : (m \o n)[Len(m) + i] = n[i]
    BY <1>1, Concatenated
  <1>3. /\ IsSequence(u \o v) /\ Len(u \o v) = Len(m) + Len(n)
        /\ \A i \in 1..Len(m) : (u \o v)[i] = u[i]
        /\ \A i \in 1..Len(n) : (u \o v)[Len(m) + i] = v[i]
    BY <1>1, Concatenated
  <1>4. /\ Len(m) \in Nat /\ Len(n) \in Nat /\ DOMAIN m = 1..Len(m) /\ DOMAIN n = 1..Len(n)
        /\ DOMAIN (m \o n) = 1..(Len(m) + Len(n))
    BY <1>1, <1>2 DEF IsSequence
  <1>5. ASSUME NEW i \in DOMAIN (m \o n) PROVE (u \o v)[i] = Named((m \o n)[i], f)
    <2>1. CASE i <= Len(m)
      <3>1. i \in 1..Len(m)
        BY <2>1, <1>4
      <3>2. u[i] = Named(m[i], f)
        BY <3>1, <1>4 DEF Agree
      <3> QED
        BY <3>1, <3>2, <1>2, <1>3
    <2>2. CASE i > Len(m)
      <3> DEFINE k == i - Len(m)
      <3>1. k \in 1..Len(n) /\ Len(m) + k = i
        BY <2>2, <1>4
      <3>2. v[k] = Named(n[k], f)
        BY <3>1, <1>4 DEF Agree
      <3> HIDE DEF k
      <3>3. (u \o v)[Len(m) + k] = v[k] /\ (m \o n)[Len(m) + k] = n[k]
        BY <3>1, <1>2, <1>3
      <3> QED
        BY <3>1, <3>2, <3>3
    <2>3. i <= Len(m) \/ i > Len(m)
      BY <1>4
    <2> QED
      BY <2>1, <2>2, <2>3, Zenon
  <1> QED
    BY <1>2, <1>3, <1>5 DEF Agree

\* Empty lists agree.
LEMMA AgreeOnNothing ==
    ASSUME NEW f
    PROVE  Agree(<<>>, <<>>, f)
  BY DEF Agree, IsSequence, Range

\* A name and what it says of the field agree.
LEMMA AgreeOnOne ==
    ASSUME NEW name, NEW f
    PROVE  Agree(<<name>>, <<Named(name, f)>>, f)
  <1> DEFINE w == Named(name, f)
  <1> HIDE DEF w
  <1>1. /\ DOMAIN <<name>> = {1} /\ <<name>>[1] = name /\ Len(<<name>>) = 1
        /\ DOMAIN <<w>> = {1} /\ <<w>>[1] = w /\ Len(<<w>>) = 1
    OBVIOUS
  <1>2. Range(<<name>>) = {name} /\ Range(<<w>>) = {w}
    BY <1>1 DEF Range
  <1>3. IsSequence(<<name>>) /\ IsSequence(<<w>>)
    BY <1>2 DEF IsSequence
  <1>4. Agree(<<name>>, <<w>>, f)
    BY <1>1, <1>3 DEF Agree, w
  <1> QED
    BY <1>4 DEF w

\* Two names and what they say of the field agree.
LEMMA AgreeOnTwo ==
    ASSUME NEW name, NEW other, NEW f
    PROVE  Agree(<<name, other>>, <<Named(name, f), Named(other, f)>>, f)
  <1> DEFINE w == Named(name, f)
             x == Named(other, f)
  <1> HIDE DEF w, x
  <1>1. /\ DOMAIN <<name, other>> = {1, 2} /\ <<name, other>>[1] = name /\ <<name, other>>[2] = other
        /\ Len(<<name, other>>) = 2
        /\ DOMAIN <<w, x>> = {1, 2} /\ <<w, x>>[1] = w /\ <<w, x>>[2] = x /\ Len(<<w, x>>) = 2
    OBVIOUS
  <1>2. Range(<<name, other>>) = {name, other} /\ Range(<<w, x>>) = {w, x}
    BY <1>1 DEF Range
  <1>3. IsSequence(<<name, other>>) /\ IsSequence(<<w, x>>)
    BY <1>2 DEF IsSequence
  <1>4. Agree(<<name, other>>, <<w, x>>, f)
    BY <1>1, <1>3 DEF Agree, w, x
  <1> QED
    BY <1>4 DEF w, x

\* The names of the positions that every vector has.
BaseNames ==
    {"token_confidence", "layout_certainty", "layout_is_missing", "normalization_confidence",
     "normalization_is_missing", "validator_pass_ratio", "validator_has_failure", "has_validators",
     "is_handwritten", "legibility_score"}

\* The names that are not categories.
LEMMA BaseIsNamed ==
    Range(FeatureNames(<<>>, TRUE)) = BaseNames
  <1>1. \A x, y : /\ IsSequence(<<x, y>>) /\ IsSequence(<<x>>)
                  /\ Range(<<x, y>>) = {x, y} /\ Range(<<x>>) = {x}
    <2> TAKE x, y
    <2>1. /\ DOMAIN <<x, y>> = {1, 2} /\ <<x, y>>[1] = x /\ <<x, y>>[2] = y
          /\ DOMAIN <<x>> = {1} /\ <<x>>[1] = x
      OBVIOUS
    <2>2. Range(<<x, y>>) = {x, y} /\ Range(<<x>>) = {x}
      BY <2>1 DEF Range
    <2> QED
      BY <2>2 DEF IsSequence
  <1>2. IsSequence(<<>>) /\ Range(<<>>) = {}
    BY DEF IsSequence, Range
  <1>3. \A s, t : IsSequence(s) /\ IsSequence(t)
                    => IsSequence(s \o t) /\ Range(s \o t) = Range(s) \cup Range(t)
    BY Concatenated
  <1> DEFINE a == <<"token_confidence", "layout_certainty">>
             b == <<"layout_is_missing">>
             c == <<"normalization_confidence">>
             d == <<"normalization_is_missing">>
             e == <<"validator_pass_ratio", "validator_has_failure">>
             g == <<"has_validators">>
             h == <<"is_handwritten", "legibility_score">>
  <1>4. FeatureNames(<<>>, TRUE) = a \o b \o c \o d \o e \o g \o h \o <<>>
    BY DEF FeatureNames
  <1>5. /\ IsSequence(a) /\ IsSequence(b) /\ IsSequence(c) /\ IsSequence(d)
        /\ IsSequence(e) /\ IsSequence(g) /\ IsSequence(h)
    BY <1>1
  <1>6. BaseNames = Range(a) \cup Range(b) \cup Range(c) \cup Range(d) \cup Range(e) \cup Range(g)
                      \cup Range(h) \cup Range(<<>>)
    <2>1. /\ Range(a) = {"token_confidence", "layout_certainty"}
          /\ Range(e) = {"validator_pass_ratio", "validator_has_failure"}
          /\ Range(h) = {"is_handwritten", "legibility_score"}
      BY <1>1
    <2>2. /\ Range(b) = {"layout_is_missing"} /\ Range(c) = {"normalization_confidence"}
          /\ Range(d) = {"normalization_is_missing"} /\ Range(g) = {"has_validators"}
      BY <1>1
    <2> HIDE DEF a, b, c, d, e, g, h
    <2> QED
      BY <2>1, <2>2, <1>2 DEF BaseNames
  <1> HIDE DEF a, b, c, d, e, g, h
  <1>7. IsSequence(a \o b) /\ Range(a \o b) = Range(a) \cup Range(b)
    BY <1>3, <1>5
  <1>8. /\ IsSequence(a \o b \o c)
        /\ Range(a \o b \o c) = Range(a) \cup Range(b) \cup Range(c)
    BY <1>3, <1>5, <1>7
  <1>9. /\ IsSequence(a \o b \o c \o d)
        /\ Range(a \o b \o c \o d) = Range(a) \cup Range(b) \cup Range(c) \cup Range(d)
    BY <1>3, <1>5, <1>8
  <1>10. /\ IsSequence(a \o b \o c \o d \o e)
         /\ Range(a \o b \o c \o d \o e) = Range(a) \cup Range(b) \cup Range(c) \cup Range(d) \cup Range(e)
    BY <1>3, <1>5, <1>9
  <1>11. /\ IsSequence(a \o b \o c \o d \o e \o g)
         /\ Range(a \o b \o c \o d \o e \o g)
               = Range(a) \cup Range(b) \cup Range(c) \cup Range(d) \cup Range(e) \cup Range(g)
    BY <1>3, <1>5, <1>10
  <1>12. /\ IsSequence(a \o b \o c \o d \o e \o g \o h)
         /\ Range(a \o b \o c \o d \o e \o g \o h)
               = Range(a) \cup Range(b) \cup Range(c) \cup Range(d) \cup Range(e) \cup Range(g) \cup Range(h)
    BY <1>3, <1>5, <1>11
  <1>13. Range(a \o b \o c \o d \o e \o g \o h \o <<>>)
           = Range(a \o b \o c \o d \o e \o g \o h) \cup Range(<<>>)
    BY <1>2, <1>3, <1>12
  <1> QED
    BY <1>4, <1>6, <1>12, <1>13

\* What the names say, a category's only when it is none of them.
LEMMA NamesOfBase ==
    ASSUME NEW f
    PROVE  /\ Named("token_confidence", f) = f.confidence
           /\ Named("layout_certainty", f) = Signal(f.layout)
           /\ Named("layout_is_missing", f) = Flag(f.layout = None)
           /\ Named("normalization_confidence", f) = Signal(f.norm)
           /\ Named("normalization_is_missing", f) = Flag(f.norm = None)
           /\ Named("validator_pass_ratio", f) = PassRatio(f.verdicts)
           /\ Named("validator_has_failure", f) = Flag(\E v \in f.verdicts : v[2] = "fail")
           /\ Named("has_validators", f) = Flag(f.verdicts # {})
           /\ Named("is_handwritten", f) = Flag(f.handwritten)
           /\ Named("legibility_score", f) = f.legibility
           /\ \A name : name \notin BaseNames => Named(name, f) = Flag(name \in f.categories)
  <1>1. \A name : name \notin BaseNames => Named(name, f) = Flag(name \in f.categories)
    BY DEF Named, BaseNames
  <1> QED
    BY <1>1 DEF Named

\* The names and the vector agree on every field (feature_names, encode).
LEMMA FeaturesHaveNames ==
    ASSUME NEW f, NEW categories, NEW indicators, IsEncodable([categories |-> categories])
    PROVE  Agree(FeatureNames(categories, indicators), Encode(f, categories, indicators), f)
  <1> DEFINE Optional(x) == IF indicators THEN <<x>> ELSE <<>>
             flags == [i \in DOMAIN categories |-> Flag(categories[i] \in f.categories)]
  <1>1. Agree(categories, flags, f)
    <2>1. IsSequence(categories) /\ Range(categories) \cap BaseNames = {}
      BY BaseIsNamed DEF IsEncodable
    <2>2. DOMAIN categories = 1..Len(categories) /\ Len(categories) \in Nat
      BY <2>1 DEF IsSequence
    <2>3. flags \in [1..Len(categories) -> Range(flags)]
      BY <2>2 DEF Range
    <2>4. flags \in Seq(Range(flags)) /\ Len(flags) = Len(categories)
      BY <2>2, <2>3
    <2>5. ASSUME NEW i \in DOMAIN categories PROVE flags[i] = Named(categories[i], f)
      <3>1. categories[i] \notin BaseNames
        BY <2>1 DEF Range
      <3> QED
        BY <3>1, NamesOfBase
    <2> QED
      BY <2>1, <2>4, <2>5 DEF Agree, IsSequence
  <1>2. \A name : Agree(Optional(name), Optional(Named(name, f)), f)
    BY AgreeOnNothing, AgreeOnOne
  <1>3. \A m, u, n, v : Agree(m, u, f) /\ Agree(n, v, f) => Agree(m \o n, u \o v, f)
    BY AgreeTogether
  <1>4. Agree(<<"token_confidence", "layout_certainty">>, <<f.confidence, Signal(f.layout)>>, f)
    <2>1. Agree(<<"token_confidence", "layout_certainty">>,
                <<Named("token_confidence", f), Named("layout_certainty", f)>>, f)
      BY AgreeOnTwo
    <2> QED
      BY <2>1, NamesOfBase
  <1>5. Agree(Optional("layout_is_missing"), Optional(Flag(f.layout = None)), f)
    BY <1>2, NamesOfBase
  <1>6. Agree(<<"normalization_confidence">>, <<Signal(f.norm)>>, f)
    <2>1. Agree(<<"normalization_confidence">>, <<Named("normalization_confidence", f)>>, f)
      BY AgreeOnOne
    <2> QED
      BY <2>1, NamesOfBase
  <1>7. Agree(Optional("normalization_is_missing"), Optional(Flag(f.norm = None)), f)
    BY <1>2, NamesOfBase
  <1>8. Agree(<<"validator_pass_ratio", "validator_has_failure">>,
              <<PassRatio(f.verdicts), Flag(\E v \in f.verdicts : v[2] = "fail")>>, f)
    <2>1. Agree(<<"validator_pass_ratio", "validator_has_failure">>,
                <<Named("validator_pass_ratio", f), Named("validator_has_failure", f)>>, f)
      BY AgreeOnTwo
    <2> QED
      BY <2>1, NamesOfBase
  <1>9. Agree(Optional("has_validators"), Optional(Flag(f.verdicts # {})), f)
    BY <1>2, NamesOfBase
  <1>10. Agree(<<"is_handwritten", "legibility_score">>, <<Flag(f.handwritten), f.legibility>>, f)
    <2>1. Agree(<<"is_handwritten", "legibility_score">>,
                <<Named("is_handwritten", f), Named("legibility_score", f)>>, f)
      BY AgreeOnTwo
    <2> QED
      BY <2>1, NamesOfBase
  <1> DEFINE m1 == <<"token_confidence", "layout_certainty">> \o Optional("layout_is_missing")
             u1 == <<f.confidence, Signal(f.layout)>> \o Optional(Flag(f.layout = None))
             m2 == m1 \o <<"normalization_confidence">>
             u2 == u1 \o <<Signal(f.norm)>>
             m3 == m2 \o Optional("normalization_is_missing")
             u3 == u2 \o Optional(Flag(f.norm = None))
             m4 == m3 \o <<"validator_pass_ratio", "validator_has_failure">>
             u4 == u3 \o <<PassRatio(f.verdicts), Flag(\E v \in f.verdicts : v[2] = "fail")>>
             m5 == m4 \o Optional("has_validators")
             u5 == u4 \o Optional(Flag(f.verdicts # {}))
             m6 == m5 \o <<"is_handwritten", "legibility_score">>
             u6 == u5 \o <<Flag(f.handwritten), f.legibility>>
  <1>11. FeatureNames(categories, indicators) = m6 \o categories
    BY DEF FeatureNames
  <1>12. Encode(f, categories, indicators) = u6 \o flags
    BY DEF Encode
  <1> HIDE DEF Optional, flags
  <1>13. Agree(m1, u1, f)
    BY <1>3, <1>4, <1>5
  <1> HIDE DEF m1, u1
  <1>14. Agree(m2, u2, f)
    BY <1>3, <1>6, <1>13
  <1> HIDE DEF m2, u2
  <1>15. Agree(m3, u3, f)
    BY <1>3, <1>7, <1>14
  <1> HIDE DEF m3, u3
  <1>16. Agree(m4, u4, f)
    BY <1>3, <1>8, <1>15
  <1> HIDE DEF m4, u4
  <1>17. Agree(m5, u5, f)
    BY <1>3, <1>9, <1>16
  <1> HIDE DEF m5, u5
  <1>18. Agree(m6, u6, f)
    BY <1>3, <1>10, <1>17
  <1> HIDE DEF m6, u6
  <1> QED
    BY <1>1, <1>3, <1>11, <1>12, <1>18

\* The names and the vector of the input at hand agree.
LEMMA FeaturesSpeak ==
    ASSUME case.kind = "features" => IsEncodable(case)
    PROVE  FeaturesAreNamed
  <1> SUFFICES ASSUME case.kind = "features" PROVE FeaturesAreNamed
    BY DEF FeaturesAreNamed
  <1> DEFINE f == [case.f EXCEPT !.verdicts = Verdicts(case.id, case.results)]
  <1>1. IsEncodable([categories |-> case.categories])
    BY DEF IsEncodable
  <1> HIDE DEF f
  <1>2. Agree(FeatureNames(case.categories, case.indicators),
              Encode(f, case.categories, case.indicators), f)
    BY <1>1, FeaturesHaveNames
  <1> QED
    BY <1>2 DEF Agree, FeaturesAreNamed, f

------------------------------------------------------------------------------
(* The split of the labels by their pages.                                   *)

\* What a whole-number division leaves.
LEMMA Divided ==
    ASSUME NEW a \in Nat, NEW d \in Nat, d > 0
    PROVE  /\ a \div d \in Nat
           /\ (a \div d) * d <= a /\ a < (a \div d) * d + d
  OBVIOUS

\* A fraction below one of some pages is not all of them.
LEMMA BelowOne ==
    ASSUME NEW n \in Nat, n > 0, NEW num \in Nat, NEW den \in Nat, num < den
    PROVE  (n * num) \div den < n /\ (n * num) \div den \in Nat
  <1> DEFINE q == (n * num) \div den
  <1>1. n * num \in Nat
    OBVIOUS
  <1>2. q \in Nat /\ q * den <= n * num
    BY <1>1, Divided
  <1> HIDE DEF q
  <1>3. n * num < n * den
    OBVIOUS
  <1>4. q >= n => q * den >= n * den
    BY <1>2
  <1>5. q * den \in Nat /\ n * den \in Nat
    BY <1>2
  <1>6. q < n
    BY <1>1, <1>2, <1>3, <1>4, <1>5
  <1> QED
    BY <1>2, <1>6 DEF q

\* The pages of labels are finite in number and each has a label.
LEMMA LabelsHavePages ==
    ASSUME NEW labels, IsSequence(labels), \A k \in DOMAIN labels : labels[k].page \in Int
    PROVE  /\ IsFiniteSet(DOMAIN labels) /\ IsFiniteSet(PagesOf(labels)) /\ PagesOf(labels) \subseteq Int
           /\ \A p \in PagesOf(labels) : \E k \in DOMAIN labels : labels[k].page = p
           /\ \A k \in DOMAIN labels : labels[k].page \in PagesOf(labels)
  <1>1. IsFiniteSet(DOMAIN labels)
    BY SequenceDomain
  <1> DEFINE f == [k \in DOMAIN labels |-> labels[k].page]
  <1>2. IsFiniteSet(Range(f))
    BY <1>1, FiniteRange
  <1>3. PagesOf(labels) = Range(f)
    BY DEF PagesOf, Range
  <1> QED
    BY <1>1, <1>2, <1>3 DEF PagesOf, Range

\* The pages of which fewer than `held' are greater.
LastPages(leaves, held) == {p \in leaves : Cardinality({q \in leaves : q > p}) < held}

\* When fewer pages than there are, but one at least, are held out, the
\* greatest is one of them and the least is not.
LEMMA LastAreSome ==
    ASSUME NEW leaves, leaves \subseteq Int, IsFiniteSet(leaves),
           NEW held \in Nat, held > 0, held < Cardinality(leaves)
    PROVE  LastPages(leaves, held) # {} /\ leaves \ LastPages(leaves, held) # {}
  <1>1. Cardinality(leaves) \in Nat
    BY FS_CardinalityType
  <1>2. leaves # {}
    BY <1>1, FS_EmptySet
  <1>3. PICK g \in leaves : \A p \in leaves : p <= g
    BY <1>2, FiniteExtremes
  <1>4. PICK m \in leaves : \A p \in leaves : m <= p
    BY <1>2, FiniteExtremes
  <1>5. \A p, q \in leaves : p <= q => ~(p > q)
    OBVIOUS
  <1>6. {q \in leaves : q > g} = {}
    BY <1>3, <1>5, Zenon
  <1>7. g \in LastPages(leaves, held)
    BY <1>6, FS_EmptySet DEF LastPages
  <1>8. {q \in leaves : q > m} = leaves \ {m}
    <2>1. \A q \in leaves : m <= q => (q > m <=> q # m)
      OBVIOUS
    <2>2. \A q \in leaves : q > m <=> q # m
      BY <1>4, <2>1, Zenon
    <2> QED
      BY <2>2, Zenon
  <1>9. Cardinality(leaves \ {m}) = Cardinality(leaves) - 1
    BY FS_RemoveElement
  <1>10. m \notin LastPages(leaves, held)
    BY <1>1, <1>8, <1>9 DEF LastPages
  <1> QED
    BY <1>7, <1>10

\* How many of several pages are held out.
LEMMA HeldOut ==
    ASSUME NEW n \in Nat, n > 1, NEW num \in Nat, NEW den \in Nat, num < den
    PROVE  LET held == Max({1, (n * num) \div den})
           IN held \in Nat /\ held > 0 /\ held < n
  <1> DEFINE q == (n * num) \div den
  <1>1. q < n /\ q \in Nat
    BY BelowOne
  <1> HIDE DEF q
  <1>2. {1, q} \subseteq Int /\ {1, q} # {} /\ \A y \in {1, q} : y <= n
    BY <1>1
  <1>3. Max({1, q}) \in {1, q} /\ \A y \in {1, q} : y <= Max({1, q})
    <2> DEFINE S == {1, q}
    <2> HIDE DEF S
    <2>1. Max(S) \in S /\ \A y \in S : y <= Max(S)
      <3>1. n \in Int
        OBVIOUS
      <3> QED
        BY <1>2, <3>1, MaxIsGreatest DEF S
    <2> QED
      BY <2>1 DEF S
  <1>4. Max({1, q}) \in Nat /\ Max({1, q}) > 0 /\ Max({1, q}) < n
    BY <1>1, <1>3
  <1> QED
    BY <1>4 DEF q

\* A split of the labels, refused or by the pages of one side.
IsSplit(split, labels, suite) ==
    \/ /\ split.refused = TRUE /\ Leaks(labels, suite) /\ split.train = <<>> /\ split.eval = <<>>
    \/ \E side \in SUBSET PagesOf(labels) :
          /\ split.refused = FALSE /\ ~Leaks(labels, suite)
          /\ split.eval = Restrict(labels, {i \in DOMAIN labels : labels[i].page \in side})
          /\ split.train = Restrict(labels, {i \in DOMAIN labels : labels[i].page \notin side})
          /\ Cardinality(PagesOf(labels)) > 1 => side # {} /\ side # PagesOf(labels)

\* partition_training_and_evaluation splits by pages or refuses.
LEMMA LabelsAreSplit ==
    ASSUME NEW labels, IsSequence(labels), \A k \in DOMAIN labels : labels[k].page \in Int,
           NEW num \in Nat, NEW den \in Nat, num < den, NEW suite
    PROVE  IsSplit(Partition(labels, num, den, suite), labels, suite)
  <1>1. CASE Leaks(labels, suite)
    BY <1>1 DEF Partition, IsSplit
  <1>2. CASE ~Leaks(labels, suite)
    <2> DEFINE leaves == PagesOf(labels)
               n == Cardinality(leaves)
               held == IF n <= 1 THEN 0 ELSE Max({1, (n * num) \div den})
               side == LastPages(leaves, held)
               On(s) == Restrict(labels, {i \in DOMAIN labels : labels[i].page \in s})
    <2>1. Partition(labels, num, den, suite) =
             [refused |-> FALSE, train |-> On(leaves \ side), eval |-> On(side)]
      BY <1>2 DEF Partition, LastPages
    <2>2. IsFiniteSet(leaves) /\ leaves \subseteq Int /\ \A k \in DOMAIN labels : labels[k].page \in leaves
      BY LabelsHavePages
    <2>3. n \in Nat
      BY <2>2, FS_CardinalityType
    <2>4. n > 1 => held \in Nat /\ held > 0 /\ held < n
      BY <2>3, HeldOut
    <2> HIDE DEF held
    <2>5. n > 1 => side # {} /\ leaves \ side # {}
      BY <2>2, <2>4, LastAreSome
    <2>6. side \in SUBSET leaves
      BY DEF LastPages
    <2> HIDE DEF side
    <2>7. {i \in DOMAIN labels : labels[i].page \in leaves \ side}
            = {i \in DOMAIN labels : labels[i].page \notin side}
      BY <2>2
    <2>8. On(leaves \ side) = Restrict(labels, {i \in DOMAIN labels : labels[i].page \notin side})
      BY <2>7
    <2>9. n > 1 => side # leaves
      BY <2>5
    <2> DEFINE split == Partition(labels, num, den, suite)
    <2>10. split.refused = FALSE /\ split.eval = On(side) /\ split.train = On(leaves \ side)
      BY <2>1
    <2> HIDE DEF split
    <2>11. /\ split.eval = Restrict(labels, {i \in DOMAIN labels : labels[i].page \in side})
           /\ split.train = Restrict(labels, {i \in DOMAIN labels : labels[i].page \notin side})
      BY <2>8, <2>10
    <2>12. Cardinality(PagesOf(labels)) > 1 => side # {} /\ side # PagesOf(labels)
      BY <2>5, <2>9
    <2>13. IsSplit(split, labels, suite)
      BY <1>2, <2>6, <2>10, <2>11, <2>12 DEF IsSplit
    <2> QED
      BY <2>13 DEF split
  <1> QED
    BY <1>1, <1>2

\* What a restriction is.
LEMMA RestrictedTo ==
    ASSUME NEW f, NEW S \in SUBSET DOMAIN f
    PROVE  DOMAIN Restrict(f, S) = S /\ \A x \in S : Restrict(f, S)[x] = f[x]
  BY DEF Restrict

\* A stratum with its own model has enough labels of pages not held out.
LEMMA OwnModelHasLabels ==
    ASSUME NEW labels, IsSequence(labels), NEW S \in SUBSET DOMAIN labels,
           NEW leaves, \A i \in S : labels[i].page \notin leaves,
           NEW min \in Nat, NEW s,
           Regime(TrainPerStratum(Restrict(labels, S), min), s) = "stratum_specific"
    PROVE  Cardinality({i \in DOMAIN labels :
              labels[i].stratum = s /\ labels[i].page \notin leaves}) >= min
  <1> DEFINE train == Restrict(labels, S)
             T == {i \in DOMAIN train : train[i].stratum = s}
             U == {i \in DOMAIN labels : labels[i].stratum = s /\ labels[i].page \notin leaves}
  <1>1. DOMAIN train = S /\ \A i \in S : train[i] = labels[i]
    BY RestrictedTo
  <1> HIDE DEF train
  <1>2. Cardinality(T) >= min
    BY DEF Regime, TrainPerStratum, CountOf, train
  <1>3. T \in SUBSET U
    BY <1>1
  <1>4. U \in SUBSET DOMAIN labels /\ IsFiniteSet(DOMAIN labels)
    BY SequenceDomain
  <1> HIDE DEF T, U
  <1>5. IsFiniteSet(U)
    BY <1>4, FS_Subset
  <1>6. IsFiniteSet(T) /\ Cardinality(T) <= Cardinality(U)
    BY <1>3, <1>5, FS_Subset
  <1>7. Cardinality(T) \in Nat /\ Cardinality(U) \in Nat
    BY <1>5, <1>6, FS_CardinalityType
  <1>8. Cardinality(U) >= min
    BY <1>2, <1>6, <1>7
  <1> QED
    BY <1>8 DEF U

\* The split of any labels keeps its promises.
LEMMA PagesAreIsolated ==
    ASSUME case.kind = "labels", IsLabelled(case)
    PROVE  PagesIsolated
  <1> DEFINE labels == case.labels
             split == Partition(case.labels, case.num, case.den, case.suite)
             strata == {l.stratum : l \in Range(labels)}
             Enough(s) == Cardinality({i \in DOMAIN labels :
                /\ labels[i].stratum = s
                /\ labels[i].page \notin PagesOf(split.eval)}) >= case.min
  <1>1. /\ IsSequence(labels) /\ \A k \in DOMAIN labels : labels[k].page \in Int
        /\ case.num \in Nat /\ case.den \in Nat /\ case.num < case.den /\ case.min \in Nat
    BY DEF IsLabelled
  <1>2. /\ \A p \in PagesOf(labels) : \E k \in DOMAIN labels : labels[k].page = p
        /\ \A k \in DOMAIN labels : labels[k].page \in PagesOf(labels)
    BY <1>1, LabelsHavePages
  <1>3. Leaks(labels, case.suite) <=> \E l \in Range(labels) : l.page \in case.suite
    BY DEF Leaks, PagesOf
  <1>6. IsSplit(split, labels, case.suite)
    BY <1>1, LabelsAreSplit
  <1>4. CASE split.refused = TRUE
    <2> HIDE DEF split
    <2>1. split.refused /\ Leaks(labels, case.suite) /\ split.train = <<>> /\ split.eval = <<>>
      BY <1>4, <1>6 DEF IsSplit
    <2>2. DOMAIN split.train = {} /\ PagesOf(split.train) = {} /\ PagesOf(split.eval) = {}
      BY <2>1 DEF PagesOf, Range
    <2>3. ~Leaks(split.train, PagesOf(split.eval) \cup case.suite)
      BY <2>2 DEF Leaks
    <2>4. ASSUME NEW s, Regime(TrainPerStratum(split.train, case.min), s) = "stratum_specific"
          PROVE  Enough(s)
      BY <2>2, <2>4 DEF Regime, TrainPerStratum
    <2> HIDE DEF Enough
    <2> QED
      BY <1>3, <2>1, <2>3, <2>4 DEF PagesIsolated, split, Enough
  <1>5. CASE split.refused = FALSE
    <2> HIDE DEF split
    <2>1. PICK side \in SUBSET PagesOf(labels) :
             /\ ~Leaks(labels, case.suite)
             /\ split.eval = Restrict(labels, {i \in DOMAIN labels : labels[i].page \in side})
             /\ split.train = Restrict(labels, {i \in DOMAIN labels : labels[i].page \notin side})
             /\ Cardinality(PagesOf(labels)) > 1 => side # {} /\ side # PagesOf(labels)
      BY <1>5, <1>6 DEF IsSplit
    <2> DEFINE E == {i \in DOMAIN labels : labels[i].page \in side}
               T == {i \in DOMAIN labels : labels[i].page \notin side}
    <2>2. DOMAIN split.eval = E /\ \A i \in E : split.eval[i] = labels[i]
      BY <2>1, RestrictedTo
    <2>3. DOMAIN split.train = T /\ \A i \in T : split.train[i] = labels[i]
      BY <2>1, RestrictedTo
    <2>4. PagesOf(split.eval) \subseteq side
      BY <2>2 DEF PagesOf, Range
    <2>5. PagesOf(split.train) \subseteq PagesOf(labels) \ side
      BY <1>2, <2>3 DEF PagesOf, Range
    <2>6. ~Leaks(split.train, PagesOf(split.eval) \cup case.suite)
      BY <2>1, <2>4, <2>5 DEF Leaks
    <2>7. DOMAIN split.train \cup DOMAIN split.eval = DOMAIN labels
      BY <2>2, <2>3
    <2>8. Cardinality(PagesOf(labels)) > 1 => DOMAIN split.train # {} /\ DOMAIN split.eval # {}
      <3>1. side # {} => E # {}
        BY <1>2, Zenon
      <3>2. side # PagesOf(labels) => T # {}
        BY <1>2, Zenon
      <3> HIDE DEF E, T
      <3> QED
        BY <2>1, <2>2, <2>3, <3>1, <3>2, Zenon
    <2>9. ASSUME NEW s, Regime(TrainPerStratum(split.train, case.min), s) = "stratum_specific"
          PROVE  Enough(s)
      <3>1. \A i \in T : labels[i].page \notin PagesOf(split.eval)
        BY <2>4
      <3>2. split.train = Restrict(labels, T) /\ T \in SUBSET DOMAIN labels
        BY <2>1
      <3> HIDE DEF T
      <3> QED
        BY <1>1, <2>9, <3>1, <3>2, OwnModelHasLabels
    <2> HIDE DEF Enough
    <2>10. \A s \in strata : Regime(TrainPerStratum(split.train, case.min), s) = "stratum_specific"
                               => Enough(s)
      BY <2>9
    <2> QED
      BY <1>3, <1>5, <2>1, <2>6, <2>7, <2>8, <2>10 DEF PagesIsolated, split, Enough
  <1>7. split.refused = TRUE \/ split.refused = FALSE
    BY <1>6 DEF IsSplit
  <1> QED
    BY <1>4, <1>5, <1>7

------------------------------------------------------------------------------
(* Sums.                                                                     *)

\* Induction along the places of a sequence, on a set of them.
LEMMA Upwards ==
    ASSUME NEW n \in Nat, NEW S, 0 \in S, \A k \in 1..n : k - 1 \in S => k \in S
    PROVE  n \in S /\ \A k \in 0..n : k \in S
  <1> SUFFICES ASSUME NEW k \in 0..n, k \notin S PROVE FALSE
    OBVIOUS
  <1> DEFINE T == {i \in 0..n : i \notin S}
  <1>1. T \subseteq Nat /\ T # {}
    OBVIOUS
  <1>2. PICK x \in T : \A y \in T : x <= y
    BY <1>1, Smallest
  <1>3. x \in 1..n
    BY <1>2
  <1>4. x - 1 \notin T
    BY <1>1, <1>2, <1>3
  <1>5. x - 1 \in S
    BY <1>3, <1>4
  <1> QED
    BY <1>2, <1>3, <1>5

\* The sums of the beginnings of a sequence; Total is the last one.
IsSums(sum, v) == sum = [n \in 0..Len(v) |-> IF n = 0 THEN 0 ELSE sum[n - 1] + v[n]]
Sums(v) == CHOOSE sum : IsSums(sum, v)

\* A sequence of n integers.
LEMMA LengthOf ==
    ASSUME NEW n \in Nat, NEW v \in [1..n -> Int]
    PROVE  Len(v) = n /\ v \in Seq(Int) /\ DOMAIN v = 1..n /\ \A i \in 1..n : v[i] \in Int
  OBVIOUS

\* The recursive function that Total takes its last value from exists.
LEMMA SumsExist ==
    ASSUME NEW n \in Nat, NEW v \in [1..n -> Int]
    PROVE  \E sum : IsSums(sum, v)
  <1> DEFINE Upto(sum, m) == sum = [k \in 0..m |-> IF k = 0 THEN 0 ELSE sum[k - 1] + v[k]]
             S == {m \in 0..n : \E sum : Upto(sum, m)}
  <1>1. 0 \in S
    <2>1. Upto([k \in 0..0 |-> 0], 0)
      OBVIOUS
    <2>2. 0 \in 0..n
      OBVIOUS
    <2> QED
      BY <2>1, <2>2, Zenon
  <1>2. ASSUME NEW m \in 1..n, m - 1 \in S PROVE m \in S
    <2>1. PICK sum : Upto(sum, m - 1)
      BY <1>2
    <2> DEFINE new == [k \in 0..m |-> IF k = m THEN sum[m - 1] + v[m] ELSE sum[k]]
    <2>2. \A k \in 0..(m - 1) : new[k] = sum[k]
      OBVIOUS
    <2>3. DOMAIN sum = 0..(m - 1)
      BY <2>1
    <2>4. ASSUME NEW k \in 0..m PROVE new[k] = IF k = 0 THEN 0 ELSE new[k - 1] + v[k]
      <3>1. CASE k = m
        <4>1. m - 1 \in 0..(m - 1) /\ k # 0
          BY <3>1
        <4>2. new[m - 1] = sum[m - 1]
          BY <2>2, <4>1
        <4> QED
          BY <3>1, <4>1, <4>2
      <3>2. CASE k # m /\ k = 0
        <4>1. sum[0] = 0 /\ new[0] = sum[0]
          BY <2>1, <2>2
        <4> QED
          BY <3>2, <4>1
      <3>3. CASE k # m /\ k # 0
        <4>1. k \in 0..(m - 1) /\ k - 1 \in 0..(m - 1)
          BY <3>3
        <4>2. sum[k] = sum[k - 1] + v[k]
          BY <2>1, <3>3, <4>1
        <4>3. new[k] = sum[k] /\ new[k - 1] = sum[k - 1]
          BY <2>2, <4>1
        <4> HIDE DEF new
        <4> QED
          BY <3>3, <4>2, <4>3
      <3> QED
        BY <3>1, <3>2, <3>3
    <2>5. DOMAIN new = 0..m
      OBVIOUS
    <2>6. new = [k \in 0..m |-> new[k]]
      OBVIOUS
    <2> HIDE DEF new
    <2>7. Upto(new, m)
      BY <2>4, <2>6
    <2> QED
      BY <2>7
  <1> HIDE DEF S
  <1>3. n \in S
    BY <1>1, <1>2, Upwards
  <1>4. PICK sum : Upto(sum, n)
    BY <1>3 DEF S
  <1>5. IsSums(sum, v)
    BY <1>4, LengthOf DEF IsSums
  <1> QED
    BY <1>5

\* And it is the one its definition describes.
LEMMA SumsAre ==
    ASSUME NEW n \in Nat, NEW v \in [1..n -> Int]
    PROVE  /\ Sums(v)[0] = 0 /\ \A k \in 1..n : Sums(v)[k] = Sums(v)[k - 1] + v[k]
           /\ \A k \in 0..n : Sums(v)[k] \in Int
           /\ Total(v) = Sums(v)[n] /\ Total(v) \in Int
  <1> DEFINE s == Sums(v)
  <1>1. Len(v) = n /\ \A k \in 1..n : v[k] \in Int
    BY LengthOf
  <1>2. IsSums(s, v)
    BY SumsExist DEF Sums
  <1>3. Total(v) = s[n]
    BY <1>1 DEF Total, Sums, IsSums
  <1> HIDE DEF s
  <1>4. s[0] = 0 /\ \A k \in 1..n : s[k] = s[k - 1] + v[k]
    BY <1>1, <1>2 DEF IsSums
  <1> DEFINE S == {k \in 0..n : s[k] \in Int}
  <1>5. 0 \in S
    BY <1>4
  <1>6. \A k \in 1..n : k - 1 \in S => k \in S
    BY <1>1, <1>4
  <1> HIDE DEF S
  <1>7. \A k \in 0..n : k \in S
    BY <1>5, <1>6, Upwards
  <1>8. \A k \in 0..n : s[k] \in Int
    BY <1>7 DEF S
  <1> QED
    BY <1>3, <1>4, <1>8 DEF s

\* Greater numbers have a greater sum.
LEMMA TotalIsMonotone ==
    ASSUME NEW n \in Nat, NEW u \in [1..n -> Int], NEW v \in [1..n -> Int],
           \A k \in 1..n : u[k] <= v[k]
    PROVE  Total(u) <= Total(v)
  <1> DEFINE s == Sums(u)
             t == Sums(v)
             S == {k \in 0..n : s[k] <= t[k]}
  <1>1. /\ s[0] = 0 /\ \A k \in 1..n : s[k] = s[k - 1] + u[k]
        /\ (\A k \in 0..n : s[k] \in Int) /\ Total(u) = s[n]
    BY SumsAre
  <1>2. /\ t[0] = 0 /\ \A k \in 1..n : t[k] = t[k - 1] + v[k]
        /\ (\A k \in 0..n : t[k] \in Int) /\ Total(v) = t[n]
    BY SumsAre
  <1> HIDE DEF s, t
  <1>3. 0 \in S
    BY <1>1, <1>2
  <1>4. \A k \in 1..n : k - 1 \in S => k \in S
    BY <1>1, <1>2, LengthOf
  <1> HIDE DEF S
  <1>5. n \in S
    BY <1>3, <1>4, Upwards
  <1> QED
    BY <1>1, <1>2, <1>5 DEF S

\* The sum of the sums of two sequences.
LEMMA TotalOfSum ==
    ASSUME NEW n \in Nat, NEW u \in [1..n -> Int], NEW v \in [1..n -> Int], NEW w \in [1..n -> Int],
           \A k \in 1..n : w[k] = u[k] + v[k]
    PROVE  Total(w) = Total(u) + Total(v)
  <1> DEFINE s == Sums(u)
             t == Sums(v)
             r == Sums(w)
             S == {k \in 0..n : r[k] = s[k] + t[k]}
  <1>1. /\ s[0] = 0 /\ \A k \in 1..n : s[k] = s[k - 1] + u[k]
        /\ (\A k \in 0..n : s[k] \in Int) /\ Total(u) = s[n]
    BY SumsAre
  <1>2. /\ t[0] = 0 /\ \A k \in 1..n : t[k] = t[k - 1] + v[k]
        /\ (\A k \in 0..n : t[k] \in Int) /\ Total(v) = t[n]
    BY SumsAre
  <1>3. /\ r[0] = 0 /\ \A k \in 1..n : r[k] = r[k - 1] + w[k]
        /\ (\A k \in 0..n : r[k] \in Int) /\ Total(w) = r[n]
    BY SumsAre
  <1> HIDE DEF s, t, r
  <1>4. 0 \in S
    BY <1>1, <1>2, <1>3
  <1>5. ASSUME NEW k \in 1..n, k - 1 \in S PROVE k \in S
    <2>1. u[k] \in Int /\ v[k] \in Int /\ k - 1 \in 0..n /\ k \in 0..n
      BY LengthOf
    <2>2. s[k - 1] \in Int /\ t[k - 1] \in Int
      BY <1>1, <1>2, <2>1
    <2>3. r[k] = r[k - 1] + w[k] /\ s[k] = s[k - 1] + u[k] /\ t[k] = t[k - 1] + v[k]
      BY <1>1, <1>2, <1>3
    <2>4. r[k - 1] = s[k - 1] + t[k - 1]
      BY <1>5
    <2> QED
      BY <2>1, <2>2, <2>3, <2>4
  <1> HIDE DEF S
  <1>6. n \in S
    BY <1>4, <1>5, Upwards
  <1> QED
    BY <1>1, <1>2, <1>3, <1>6 DEF S

\* The sum when only one number is not zero.
LEMMA TotalOfOne ==
    ASSUME NEW n \in Nat, NEW v \in [1..n -> Int], NEW m \in 1..n,
           \A k \in 1..n : k # m => v[k] = 0
    PROVE  Total(v) = v[m]
  <1> DEFINE s == Sums(v)
             x == v[m]
             S == {k \in 0..n : s[k] = IF k < m THEN 0 ELSE x}
  <1>1. /\ s[0] = 0 /\ \A k \in 1..n : s[k] = s[k - 1] + v[k]
        /\ (\A k \in 0..n : s[k] \in Int) /\ Total(v) = s[n]
    BY SumsAre
  <1>2. x \in Int
    OBVIOUS
  <1> HIDE DEF s
  <1>3. 0 \in S
    BY <1>1
  <1>4. ASSUME NEW k \in 1..n, k - 1 \in S PROVE k \in S
    <2>1. k - 1 \in 0..n /\ k \in 0..n /\ s[k] = s[k - 1] + v[k]
      BY <1>1
    <2>2. s[k - 1] = IF k - 1 < m THEN 0 ELSE x
      BY <1>4
    <2>3. v[k] = IF k = m THEN x ELSE 0
      OBVIOUS
    <2> HIDE DEF x
    <2> QED
      BY <1>2, <2>1, <2>2, <2>3
  <1> HIDE DEF S
  <1>5. n \in S
    BY <1>3, <1>4, Upwards
  <1>6. s[n] = x
    BY <1>5 DEF S
  <1> QED
    BY <1>1, <1>6

\* The sum when every number is zero.
LEMMA TotalOfNothing ==
    ASSUME NEW n \in Nat, NEW v \in [1..n -> Int], \A k \in 1..n : v[k] = 0
    PROVE  Total(v) = 0
  <1> DEFINE s == Sums(v)
             S == {k \in 0..n : s[k] = 0}
  <1>1. /\ s[0] = 0 /\ \A k \in 1..n : s[k] = s[k - 1] + v[k]
        /\ Total(v) = s[n]
    BY SumsAre
  <1> HIDE DEF s
  <1>2. 0 \in S
    BY <1>1
  <1>3. \A k \in 1..n : k - 1 \in S => k \in S
    BY <1>1
  <1> HIDE DEF S
  <1>4. n \in S
    BY <1>2, <1>3, Upwards
  <1> QED
    BY <1>1, <1>4 DEF S

\* The triangle inequality.
LEMMA TotalOfAbs ==
    ASSUME NEW n \in Nat, NEW u \in [1..n -> Int], NEW v \in [1..n -> Int],
           \A k \in 1..n : v[k] = Abs(u[k])
    PROVE  Total(v) >= Total(u) /\ Total(v) >= -Total(u)
  <1>1. \A k \in 1..n : u[k] \in Int /\ v[k] \in Int /\ u[k] <= v[k] /\ u[k] + v[k] >= 0
    BY LengthOf DEF Abs
  <1>2. Total(u) \in Int /\ Total(v) \in Int
    BY SumsAre
  <1>3. Total(u) <= Total(v)
    BY <1>1, TotalIsMonotone
  <1> DEFINE w == [k \in 1..n |-> u[k] + v[k]]
             z == [k \in 1..n |-> 0]
  <1>4. w \in [1..n -> Int] /\ (\A k \in 1..n : w[k] = u[k] + v[k])
        /\ z \in [1..n -> Int] /\ (\A k \in 1..n : z[k] = 0)
    BY <1>1
  <1>5. \A k \in 1..n : z[k] <= w[k]
    BY <1>1
  <1> HIDE DEF w, z
  <1>6. Total(w) = Total(u) + Total(v) /\ Total(z) = 0 /\ Total(z) <= Total(w)
    BY <1>4, <1>5, TotalOfSum, TotalOfNothing, TotalIsMonotone
  <1> QED
    BY <1>2, <1>3, <1>6

\* The sum of the sums of neighbours.
LEMMA TotalOfPairs ==
    ASSUME NEW m \in Nat, NEW v \in [1..(2 * m) -> Int], NEW w \in [1..m -> Int],
           \A k \in 1..m : w[k] = v[2 * k - 1] + v[2 * k]
    PROVE  Total(v) = Total(w)
  <1> DEFINE s == Sums(v)
             t == Sums(w)
             S == {k \in 0..m : s[2 * k] = t[k]}
  <1>1. 2 * m \in Nat
    OBVIOUS
  <1>2. /\ s[0] = 0 /\ \A k \in 1..(2 * m) : s[k] = s[k - 1] + v[k]
        /\ (\A k \in 0..(2 * m) : s[k] \in Int) /\ Total(v) = s[2 * m]
    BY <1>1, SumsAre
  <1>3. /\ t[0] = 0 /\ \A k \in 1..m : t[k] = t[k - 1] + w[k]
        /\ (\A k \in 0..m : t[k] \in Int) /\ Total(w) = t[m]
    BY SumsAre
  <1> HIDE DEF s, t
  <1>4. 0 \in S
    BY <1>2, <1>3
  <1>5. ASSUME NEW k \in 1..m, k - 1 \in S PROVE k \in S
    <2>1. /\ 2 * k - 1 \in 1..(2 * m) /\ 2 * k \in 1..(2 * m) /\ 2 * k - 2 \in 0..(2 * m)
          /\ (2 * k - 1) - 1 = 2 * k - 2 /\ 2 * (k - 1) = 2 * k - 2 /\ k \in 0..m
      OBVIOUS
    <2>2. s[2 * k] = s[2 * k - 1] + v[2 * k] /\ s[2 * k - 1] = s[2 * k - 2] + v[2 * k - 1]
      BY <1>2, <2>1
    <2>3. s[2 * k - 2] = t[k - 1] /\ t[k] = t[k - 1] + w[k]
      BY <1>3, <1>5, <2>1
    <2>4. w[k] = v[2 * k - 1] + v[2 * k]
      OBVIOUS
    <2>5. v[2 * k - 1] \in Int /\ v[2 * k] \in Int /\ s[2 * k - 2] \in Int
      BY <1>2, <2>1
    <2>6. \A a, b, c \in Int : (a + b) + c = a + (b + c)
      OBVIOUS
    <2>7. (s[2 * k - 2] + v[2 * k - 1]) + v[2 * k] = s[2 * k - 2] + (v[2 * k - 1] + v[2 * k])
      BY <2>5, <2>6, Zenon
    <2>8. s[2 * k] = t[k]
      BY <2>2, <2>3, <2>4, <2>7, Zenon
    <2> QED
      BY <2>1, <2>8
  <1> HIDE DEF S
  <1>6. m \in S
    BY <1>4, <1>5, Upwards
  <1> QED
    BY <1>2, <1>3, <1>6 DEF S

\* The numbers of g put into rows, each into the one that c names.
InRows(row, g, c, n, bins) ==
    /\ n \in Nat /\ bins \in Nat /\ g \in [1..n -> Int] /\ c \in [1..n -> 1..bins]
    /\ row \in [1..bins -> [1..n -> Int]]
    /\ \A k \in 1..bins : \A i \in 1..n : row[k][i] = IF c[i] = k THEN g[i] ELSE 0

\* The sums along a row.
LEMMA RowSums ==
    ASSUME NEW row, NEW g, NEW c, NEW n, NEW bins, InRows(row, g, c, n, bins), NEW k \in 1..bins
    PROVE  /\ Sums(row[k])[0] = 0 /\ Total(row[k]) = Sums(row[k])[n] /\ Total(row[k]) \in Int
           /\ \A i \in 0..n : Sums(row[k])[i] \in Int
           /\ \A i \in 1..n : Sums(row[k])[i] = Sums(row[k])[i - 1] + row[k][i]
  <1>1. n \in Nat /\ row[k] \in [1..n -> Int]
    BY DEF InRows
  <1> QED
    BY <1>1, SumsAre

\* A number goes into one row.
LEMMA OneHit ==
    ASSUME NEW row, NEW g, NEW c, NEW n, NEW bins, InRows(row, g, c, n, bins),
           NEW i \in 1..n, NEW x \in Int
    PROVE  Total([k \in 1..bins |-> IF c[i] = k THEN x ELSE 0]) = x
  <1> DEFINE hit == [k \in 1..bins |-> IF c[i] = k THEN x ELSE 0]
  <1>1. c[i] \in 1..bins /\ bins \in Nat
    BY DEF InRows
  <1>2. hit \in [1..bins -> Int] /\ hit[c[i]] = x /\ \A k \in 1..bins : k # c[i] => hit[k] = 0
    BY <1>1
  <1> HIDE DEF hit
  <1>3. Total(hit) = hit[c[i]]
    BY <1>1, <1>2, TotalOfOne
  <1>4. Total(hit) = x
    BY <1>2, <1>3
  <1> QED
    BY <1>4 DEF hit

\* Sums over the rows add up to the sum over all the numbers.
LEMMA TotalOfRows ==
    ASSUME NEW row, NEW g, NEW c, NEW n, NEW bins, InRows(row, g, c, n, bins)
    PROVE  Total([k \in 1..bins |-> Total(row[k])]) = Total(g)
  <1> DEFINE t == Sums(g)
             Part(i) == [k \in 1..bins |-> Sums(row[k])[i]]
             Hit(i) == [k \in 1..bins |-> IF c[i] = k THEN g[i] ELSE 0]
             S == {i \in 0..n : Total(Part(i)) = t[i]}
  <1>1. n \in Nat /\ bins \in Nat /\ g \in [1..n -> Int] /\ \A i \in 1..n : g[i] \in Int
    BY DEF InRows
  <1>2. /\ t[0] = 0 /\ \A i \in 1..n : t[i] = t[i - 1] + g[i]
        /\ (\A i \in 0..n : t[i] \in Int) /\ Total(g) = t[n]
    BY <1>1, SumsAre
  <1>3. \A k \in 1..bins :
           /\ Sums(row[k])[0] = 0 /\ Total(row[k]) = Sums(row[k])[n]
           /\ \A i \in 0..n : Sums(row[k])[i] \in Int
           /\ \A i \in 1..n : Sums(row[k])[i] = Sums(row[k])[i - 1] + row[k][i]
    BY RowSums
  <1> HIDE DEF t
  <1>4. \A i \in 0..n : Part(i) \in [1..bins -> Int]
    BY <1>3
  <1>5. ASSUME NEW i \in 1..n
        PROVE  /\ Hit(i) \in [1..bins -> Int] /\ Total(Hit(i)) = g[i]
               /\ \A k \in 1..bins : Part(i)[k] = Part(i - 1)[k] + Hit(i)[k]
    <2>1. \A k \in 1..bins : row[k][i] = Hit(i)[k]
      BY DEF InRows
    <2> DEFINE x == g[i]
    <2>4. x \in Int
      BY <1>1
    <2> HIDE DEF x
    <2>5. Total([k \in 1..bins |-> IF c[i] = k THEN x ELSE 0]) = x
      BY <2>4, OneHit
    <2>6. [k \in 1..bins |-> IF c[i] = k THEN x ELSE 0] \in [1..bins -> Int]
      BY <2>4
    <2>2. Hit(i) \in [1..bins -> Int] /\ Total(Hit(i)) = g[i]
      BY <2>5, <2>6 DEF x
    <2> HIDE DEF Hit
    <2>3. \A k \in 1..bins : Part(i)[k] = Part(i - 1)[k] + Hit(i)[k]
      BY <1>3, <2>1
    <2> QED
      BY <2>2, <2>3
  <1>6. Total(Part(0)) = 0
    <2>1. Part(0) \in [1..bins -> Int] /\ \A k \in 1..bins : Part(0)[k] = 0
      BY <1>1, <1>3, <1>4
    <2> HIDE DEF Part
    <2> QED
      BY <1>1, <2>1, TotalOfNothing
  <1>7. Part(n) = [k \in 1..bins |-> Total(row[k])]
    BY <1>3
  <1> HIDE DEF Part, Hit
  <1>8. 0 \in S
    BY <1>1, <1>2, <1>6
  <1>9. ASSUME NEW i \in 1..n, i - 1 \in S PROVE i \in S
    <2>1. i \in 0..n /\ i - 1 \in 0..n
      BY <1>1
    <2>2. Total(Part(i)) = Total(Part(i - 1)) + Total(Hit(i))
      BY <1>1, <1>4, <1>5, <2>1, TotalOfSum
    <2>3. Total(Part(i - 1)) = t[i - 1] /\ Total(Hit(i)) = g[i] /\ t[i] = t[i - 1] + g[i]
      BY <1>2, <1>5, <1>9
    <2> QED
      BY <2>1, <2>2, <2>3
  <1> HIDE DEF S
  <1>10. n \in S
    BY <1>1, <1>8, <1>9, Upwards
  <1> QED
    BY <1>2, <1>7, <1>10 DEF S

\* Each number adds at most its bound to the absolute sums of the rows.
LEMMA TotalOfRowsBounded ==
    ASSUME NEW row, NEW g, NEW c, NEW n, NEW bins, InRows(row, g, c, n, bins),
           NEW s \in Nat, \A i \in 1..n : -s <= g[i] /\ g[i] <= s
    PROVE  Total([k \in 1..bins |-> Abs(Total(row[k]))]) <= s * n
  <1> DEFINE Part(i) == [k \in 1..bins |-> Abs(Sums(row[k])[i])]
             Hit(i) == [k \in 1..bins |-> IF c[i] = k THEN s ELSE 0]
             S == {i \in 0..n : Total(Part(i)) <= s * i}
  <1>1. n \in Nat /\ bins \in Nat /\ \A i \in 1..n : g[i] \in Int
    BY DEF InRows
  <1>3. \A k \in 1..bins :
           /\ Sums(row[k])[0] = 0 /\ Total(row[k]) = Sums(row[k])[n]
           /\ \A i \in 0..n : Sums(row[k])[i] \in Int
           /\ \A i \in 1..n : Sums(row[k])[i] = Sums(row[k])[i - 1] + row[k][i]
    BY RowSums
  <1>4. \A i \in 0..n : Part(i) \in [1..bins -> Int]
    BY <1>3 DEF Abs
  <1>5. ASSUME NEW i \in 1..n
        PROVE  /\ Hit(i) \in [1..bins -> Int] /\ Total(Hit(i)) = s
               /\ \A k \in 1..bins : Part(i)[k] <= Part(i - 1)[k] + Hit(i)[k]
    <2>1. \A k \in 1..bins : row[k][i] = IF c[i] = k THEN g[i] ELSE 0
      BY DEF InRows
    <2>2. \A k \in 1..bins : row[k][i] \in Int /\ Abs(row[k][i]) <= Hit(i)[k]
      BY <1>1, <2>1 DEF Abs
    <2>3. Hit(i) \in [1..bins -> Int] /\ Total(Hit(i)) = s
      BY <1>1, OneHit
    <2> HIDE DEF Hit
    <2>4. \A a, b, d \in Int : Abs(a) <= d => Abs(b + a) <= Abs(b) + d
      BY DEF Abs
    <2>5. ASSUME NEW k \in 1..bins PROVE Part(i)[k] <= Part(i - 1)[k] + Hit(i)[k]
      <3>1. i - 1 \in 0..n
        BY <1>1
      <3>3. Sums(row[k])[i] = Sums(row[k])[i - 1] + row[k][i] /\ Sums(row[k])[i - 1] \in Int
        BY <1>3, <3>1
      <3>4. Hit(i)[k] \in Int /\ row[k][i] \in Int /\ Abs(row[k][i]) <= Hit(i)[k]
        BY <2>2, <2>3
      <3>2. Abs(Sums(row[k])[i]) <= Abs(Sums(row[k])[i - 1]) + Hit(i)[k]
        BY <2>4, <3>3, <3>4
      <3> QED
        BY <3>2
    <2> QED
      BY <2>3, <2>5
  <1>6. Total(Part(0)) = 0
    <2>1. Part(0) \in [1..bins -> Int] /\ \A k \in 1..bins : Part(0)[k] = 0
      BY <1>1, <1>3, <1>4 DEF Abs
    <2> HIDE DEF Part
    <2> QED
      BY <1>1, <2>1, TotalOfNothing
  <1>7. Part(n) = [k \in 1..bins |-> Abs(Total(row[k]))]
    BY <1>3
  <1> HIDE DEF Part, Hit
  <1>8. 0 \in S
    BY <1>1, <1>6
  <1>9. ASSUME NEW i \in 1..n, i - 1 \in S PROVE i \in S
    <2>1. i \in 0..n /\ i - 1 \in 0..n
      BY <1>1
    <2> DEFINE w == [k \in 1..bins |-> Part(i - 1)[k] + Hit(i)[k]]
    <2>2. /\ Part(i) \in [1..bins -> Int] /\ Part(i - 1) \in [1..bins -> Int]
          /\ Hit(i) \in [1..bins -> Int] /\ Total(Hit(i)) = s
          /\ \A k \in 1..bins : Part(i)[k] <= Part(i - 1)[k] + Hit(i)[k]
      BY <1>4, <1>5, <2>1
    <2>11. \A k \in 1..bins : Part(i - 1)[k] + Hit(i)[k] \in Int
      <3> SUFFICES ASSUME NEW k \in 1..bins PROVE Part(i - 1)[k] + Hit(i)[k] \in Int
        OBVIOUS
      <3>1. Part(i - 1)[k] \in Int /\ Hit(i)[k] \in Int
        BY <2>2
      <3> QED
        BY <3>1
    <2>3. w \in [1..bins -> Int] /\ \A k \in 1..bins : w[k] = Part(i - 1)[k] + Hit(i)[k]
      BY <2>11
    <2> HIDE DEF w
    <2>4. Total(w) = Total(Part(i - 1)) + s
      BY <1>1, <2>2, <2>3, TotalOfSum
    <2>5. \A k \in 1..bins : Part(i)[k] <= w[k]
      BY <2>2, <2>3
    <2>6. Total(Part(i)) <= Total(w)
      BY <1>1, <2>2, <2>3, <2>5, TotalIsMonotone
    <2>7. Total(Part(i - 1)) \in Int /\ Total(Part(i)) \in Int
      BY <1>1, <2>2, SumsAre
    <2>8. Total(Part(i - 1)) <= s * (i - 1)
      BY <1>9
    <2>9. s * (i - 1) = s * i - s /\ s * i \in Int
      BY <2>1
    <2>10. Total(Part(i)) <= s * i
      BY <2>4, <2>6, <2>7, <2>8, <2>9
    <2> QED
      BY <2>1, <2>10
  <1> HIDE DEF S
  <1>10. n \in S
    BY <1>1, <1>8, <1>9, Upwards
  <1> QED
    BY <1>7, <1>10 DEF S

------------------------------------------------------------------------------
(* The calibration error.                                                    *)

\* A prediction's bin is one of the bins, and is cut in two when each of them is.
LEMMA BinsAreCut ==
    ASSUME NEW p \in 0..Scale, NEW bins \in Nat \ {0}
    PROVE  /\ Bin(p, bins) \in 0..(bins - 1) /\ Bin(p, 2 * bins) \in 0..(2 * bins - 1)
           /\ Bin(p, 2 * bins) \in {2 * Bin(p, bins), 2 * Bin(p, bins) + 1}
  <1>1. Scale \in Nat /\ Scale > 0
    BY ScaleAssumption
  <1> DEFINE q == (p * bins) \div Scale
             r == (p * (2 * bins)) \div Scale
  <1>2. p * bins \in Nat /\ p * (2 * bins) \in Nat /\ p * (2 * bins) = 2 * (p * bins)
    BY <1>1
  <1>3. q \in Nat /\ q * Scale <= p * bins /\ p * bins < q * Scale + Scale
    BY <1>1, <1>2, Divided
  <1>4. r \in Nat /\ r * Scale <= p * (2 * bins) /\ p * (2 * bins) < r * Scale + Scale
    BY <1>1, <1>2, Divided
  <1>5. Bin(p, bins) = Min({q, bins - 1}) /\ Bin(p, 2 * bins) = Min({r, 2 * bins - 1})
    BY DEF Bin
  <1> HIDE DEF q, r
  <1>6. r = 2 * q \/ r = 2 * q + 1
    <2>1. r * Scale < (2 * q + 2) * Scale
      BY <1>1, <1>2, <1>3, <1>4
    <2>2. (2 * q) * Scale < (r + 1) * Scale
      BY <1>1, <1>2, <1>3, <1>4
    <2>3. r >= 2 * q + 2 => r * Scale >= (2 * q + 2) * Scale
      BY <1>1, <1>3, <1>4
    <2>4. 2 * q >= r + 1 => (2 * q) * Scale >= (r + 1) * Scale
      BY <1>1, <1>3, <1>4
    <2>5. r * Scale \in Int /\ (2 * q + 2) * Scale \in Int /\ (2 * q) * Scale \in Int /\ (r + 1) * Scale \in Int
      BY <1>1, <1>3, <1>4
    <2>6. r < 2 * q + 2
      BY <1>3, <1>4, <2>1, <2>3, <2>5
    <2>7. 2 * q < r + 1
      BY <1>3, <1>4, <2>2, <2>4, <2>5
    <2> QED
      BY <1>3, <1>4, <2>6, <2>7
  <1>7. ASSUME NEW a \in Nat, NEW b \in Nat
        PROVE  Min({a, b}) = IF a <= b THEN a ELSE b
    <2> DEFINE S == {a, b}
    <2>1. S \subseteq Nat /\ S # {}
      OBVIOUS
    <2> HIDE DEF S
    <2>2. Min(S) \in S /\ \A y \in S : Min(S) <= y
      BY <2>1, MinOfNaturals
    <2> QED
      BY <2>2 DEF S
  <1>8. bins - 1 \in Nat /\ 2 * bins - 1 \in Nat
    OBVIOUS
  <1>9. Bin(p, bins) = IF q <= bins - 1 THEN q ELSE bins - 1
    BY <1>3, <1>5, <1>7, <1>8
  <1>10. Bin(p, 2 * bins) = IF r <= 2 * bins - 1 THEN r ELSE 2 * bins - 1
    BY <1>4, <1>5, <1>7, <1>8
  <1>11. CASE q <= bins - 1
    BY <1>3, <1>4, <1>6, <1>8, <1>9, <1>10, <1>11
  <1>12. CASE q > bins - 1
    BY <1>3, <1>4, <1>6, <1>8, <1>9, <1>10, <1>12
  <1> QED
    BY <1>3, <1>8, <1>11, <1>12

Gaps(predictions) ==
    [i \in DOMAIN predictions |-> Flag(predictions[i].correct) - predictions[i].confidence]
BinsOf(predictions, bins) == [i \in DOMAIN predictions |-> Bin(predictions[i].confidence, bins) + 1]
Row(predictions, bins, b) ==
    [i \in DOMAIN predictions |->
       IF Bin(predictions[i].confidence, bins) = b
       THEN Flag(predictions[i].correct) - predictions[i].confidence ELSE 0]
Rows(predictions, bins) == [k \in 1..bins |-> Row(predictions, bins, k - 1)]

IsJudged(predictions) ==
    /\ IsSequence(predictions)
    /\ \A k \in DOMAIN predictions :
          predictions[k].confidence \in 0..Scale /\ predictions[k].correct \in BOOLEAN

\* What a prediction promised and what came true differ by at most one.
LEMMA GapsAreBounded ==
    ASSUME NEW predictions, IsJudged(predictions)
    PROVE  /\ Len(predictions) \in Nat /\ DOMAIN predictions = 1..Len(predictions) /\ Scale \in Nat
           /\ \A i \in DOMAIN predictions :
                /\ predictions[i].confidence \in 0..Scale /\ Flag(predictions[i].correct) \in Int
                /\ Gaps(predictions)[i] = Flag(predictions[i].correct) - predictions[i].confidence
                /\ Gaps(predictions)[i] \in Int
                /\ -Scale <= Gaps(predictions)[i] /\ Gaps(predictions)[i] <= Scale
           /\ Gaps(predictions) \in [1..Len(predictions) -> Int]
  <1>1. Len(predictions) \in Nat /\ DOMAIN predictions = 1..Len(predictions) /\ Scale \in Nat
    BY SequenceDomain, ScaleAssumption DEF IsJudged
  <1>2. ASSUME NEW i \in DOMAIN predictions
        PROVE  /\ predictions[i].confidence \in 0..Scale /\ Flag(predictions[i].correct) \in Int
               /\ Gaps(predictions)[i] = Flag(predictions[i].correct) - predictions[i].confidence
               /\ Gaps(predictions)[i] \in Int
               /\ -Scale <= Gaps(predictions)[i] /\ Gaps(predictions)[i] <= Scale
    <2>1. predictions[i].confidence \in 0..Scale /\ predictions[i].correct \in BOOLEAN
      BY DEF IsJudged
    <2>2. Flag(predictions[i].correct) \in {0, Scale}
      BY <2>1 DEF Flag
    <2>3. Gaps(predictions)[i] = Flag(predictions[i].correct) - predictions[i].confidence
      BY DEF Gaps
    <2> QED
      BY <1>1, <2>1, <2>2, <2>3
  <1>3. Gaps(predictions) \in [1..Len(predictions) -> Int]
    BY <1>1, <1>2 DEF Gaps
  <1> QED
    BY <1>1, <1>2, <1>3

\* The bins are rows that the predictions are sorted into (compute_ece).
LEMMA RowsAreSorted ==
    ASSUME NEW predictions, IsJudged(predictions), NEW bins \in Nat \ {0}
    PROVE  /\ InRows(Rows(predictions, bins), Gaps(predictions), BinsOf(predictions, bins),
                       Len(predictions), bins)
           /\ \A k \in 1..bins : /\ BinGap(predictions, bins, k - 1) = Total(Rows(predictions, bins)[k])
                                 /\ BinGap(predictions, bins, k - 1) \in Int
           /\ CalibrationError(predictions, bins)
                = Total([k \in 1..bins |-> Abs(Total(Rows(predictions, bins)[k]))])
  <1> DEFINE n == Len(predictions)
             row == Rows(predictions, bins)
             c == BinsOf(predictions, bins)
             g == Gaps(predictions)
  <1>1. n \in Nat /\ DOMAIN predictions = 1..n /\ g \in [1..n -> Int]
    BY GapsAreBounded
  <1>2. \A i \in 1..n : predictions[i].confidence \in 0..Scale
    BY <1>1, GapsAreBounded
  <1>3. \A i \in 1..n : c[i] = Bin(predictions[i].confidence, bins) + 1
    BY <1>1 DEF BinsOf
  <1>4. \A i \in 1..n : Bin(predictions[i].confidence, bins) \in 0..(bins - 1)
    BY <1>2, BinsAreCut
  <1>5. c \in [1..n -> 1..bins]
    <2>1. \A i \in 1..n : Bin(predictions[i].confidence, bins) + 1 \in 1..bins
      BY <1>4
    <2> QED
      BY <1>1, <2>1 DEF BinsOf
  <1>6. ASSUME NEW k \in 1..bins, NEW i \in 1..n
        PROVE  row[k][i] = IF c[i] = k THEN g[i] ELSE 0
    <2>1. row[k][i] = IF Bin(predictions[i].confidence, bins) = k - 1 THEN g[i] ELSE 0
      BY <1>1 DEF Rows, Row, Gaps
    <2>2. Bin(predictions[i].confidence, bins) = k - 1 <=> c[i] = k
      BY <1>3, <1>4
    <2> QED
      BY <2>1, <2>2
  <1>7. row \in [1..bins -> [1..n -> Int]]
    <2> SUFFICES ASSUME NEW k \in 1..bins PROVE row[k] \in [1..n -> Int]
      BY DEF Rows
    <2>1. row[k] = [i \in 1..n |-> row[k][i]]
      BY <1>1 DEF Rows, Row
    <2>2. \A i \in 1..n : row[k][i] \in Int
      BY <1>1, <1>6
    <2> QED
      BY <2>1, <2>2
  <1>8. InRows(row, g, c, n, bins)
    BY <1>1, <1>5, <1>6, <1>7 DEF InRows
  <1>9. ASSUME NEW k \in 1..bins
        PROVE  /\ BinGap(predictions, bins, k - 1) = Total(row[k])
               /\ BinGap(predictions, bins, k - 1) \in Int
    <2>1. BinGap(predictions, bins, k - 1) = Total(Row(predictions, bins, k - 1))
      BY DEF BinGap, Row
    <2>2. row[k] = Row(predictions, bins, k - 1)
      BY DEF Rows
    <2>3. Total(row[k]) \in Int
      BY <1>1, <1>7, SumsAre
    <2> QED
      BY <2>1, <2>2, <2>3
  <1>10. [k \in 1..bins |-> Abs(BinGap(predictions, bins, k - 1))]
           = [k \in 1..bins |-> Abs(Total(row[k]))]
    BY <1>9
  <1> HIDE DEF row
  <1>11. CalibrationError(predictions, bins) = Total([k \in 1..bins |-> Abs(Total(row[k]))])
    BY <1>10 DEF CalibrationError
  <1> QED
    BY <1>8, <1>9, <1>11 DEF row

\* The calibration error has an upper and a lower bound.
LEMMA NothingIsHidden ==
    ASSUME NEW predictions, IsJudged(predictions), NEW bins \in Nat \ {0}
    PROVE  /\ CalibrationError(predictions, bins) \in Int
           /\ CalibrationError(predictions, bins) >= Total(Gaps(predictions))
           /\ CalibrationError(predictions, bins) >= -Total(Gaps(predictions))
           /\ CalibrationError(predictions, bins) <= Scale * Len(predictions)
  <1> DEFINE n == Len(predictions)
             row == Rows(predictions, bins)
             c == BinsOf(predictions, bins)
             g == Gaps(predictions)
             u == [k \in 1..bins |-> Total(row[k])]
             v == [k \in 1..bins |-> Abs(Total(row[k]))]
  <1>1. InRows(row, g, c, n, bins) /\ CalibrationError(predictions, bins) = Total(v)
    BY RowsAreSorted
  <1>2. Total(u) = Total(g)
    BY <1>1, TotalOfRows
  <1>3. Scale \in Nat /\ n \in Nat /\ \A i \in 1..n : -Scale <= g[i] /\ g[i] <= Scale
    BY GapsAreBounded
  <1> HIDE DEF row, c, g, n
  <1>4. Total(v) <= Scale * n
    BY <1>1, <1>3, TotalOfRowsBounded
  <1>5. \A k \in 1..bins : Total(row[k]) \in Int
    BY <1>1, RowSums
  <1>6. u \in [1..bins -> Int] /\ v \in [1..bins -> Int] /\ \A k \in 1..bins : v[k] = Abs(u[k])
    BY <1>5 DEF Abs
  <1> HIDE DEF u, v
  <1>7. Total(v) >= Total(u) /\ Total(v) >= -Total(u) /\ Total(v) \in Int
    BY <1>6, TotalOfAbs, SumsAre
  <1> QED
    BY <1>1, <1>2, <1>4, <1>7 DEF g, n

\* It does not shrink when every bin is cut in two.
LEMMA HalvesShowMore ==
    ASSUME NEW predictions, IsJudged(predictions), NEW bins \in Nat \ {0}
    PROVE  CalibrationError(predictions, 2 * bins) >= CalibrationError(predictions, bins)
  <1> DEFINE n == Len(predictions)
             Coarse(k) == Row(predictions, bins, k)
             Fine(k) == Row(predictions, 2 * bins, k)
  <1>1. n \in Nat /\ DOMAIN predictions = 1..n /\ 2 * bins \in Nat \ {0}
    BY GapsAreBounded
  <1>2. ASSUME NEW i \in 1..n
        PROVE  LET b == Bin(predictions[i].confidence, bins)
                   d == Bin(predictions[i].confidence, 2 * bins)
               IN b \in Nat /\ (d = 2 * b \/ d = 2 * b + 1)
    <2>1. predictions[i].confidence \in 0..Scale
      BY <1>1, GapsAreBounded
    <2> DEFINE b == Bin(predictions[i].confidence, bins)
               d == Bin(predictions[i].confidence, 2 * bins)
    <2>2. b \in 0..(bins - 1) /\ d \in {2 * b, 2 * b + 1}
      BY <2>1, BinsAreCut
    <2>3. b \in Nat /\ (d = 2 * b \/ d = 2 * b + 1)
      <3> HIDE DEF b, d
      <3> QED
        BY <2>2
    <2> QED
      BY <2>3
  <1>3. ASSUME NEW k \in 0..(bins - 1)
        PROVE  BinGap(predictions, bins, k)
                 = BinGap(predictions, 2 * bins, 2 * k) + BinGap(predictions, 2 * bins, 2 * k + 1)
    <2>1. ASSUME NEW i \in 1..n
          PROVE  /\ Coarse(k)[i] \in Int /\ Fine(2 * k)[i] \in Int /\ Fine(2 * k + 1)[i] \in Int
                 /\ Coarse(k)[i] = Fine(2 * k)[i] + Fine(2 * k + 1)[i]
      <3> DEFINE b == Bin(predictions[i].confidence, bins)
                 d == Bin(predictions[i].confidence, 2 * bins)
                 x == Flag(predictions[i].correct) - predictions[i].confidence
      <3>1. b \in Nat /\ (d = 2 * b \/ d = 2 * b + 1)
        BY <1>2
      <3>2. x \in Int
        BY <1>1, GapsAreBounded
      <3>3. /\ Coarse(k)[i] = IF b = k THEN x ELSE 0
            /\ Fine(2 * k)[i] = IF d = 2 * k THEN x ELSE 0
            /\ Fine(2 * k + 1)[i] = IF d = 2 * k + 1 THEN x ELSE 0
        BY <1>1 DEF Row
      <3> HIDE DEF b, d, x, Coarse, Fine
      <3> QED
        BY <3>1, <3>2, <3>3
    <2>2. /\ Coarse(k) = [i \in 1..n |-> Coarse(k)[i]]
          /\ Fine(2 * k) = [i \in 1..n |-> Fine(2 * k)[i]]
          /\ Fine(2 * k + 1) = [i \in 1..n |-> Fine(2 * k + 1)[i]]
      BY <1>1 DEF Row
    <2>3. /\ BinGap(predictions, bins, k) = Total(Coarse(k))
          /\ BinGap(predictions, 2 * bins, 2 * k) = Total(Fine(2 * k))
          /\ BinGap(predictions, 2 * bins, 2 * k + 1) = Total(Fine(2 * k + 1))
      BY DEF BinGap, Row
    <2> HIDE DEF Coarse, Fine
    <2>4. /\ Coarse(k) \in [1..n -> Int] /\ Fine(2 * k) \in [1..n -> Int]
          /\ Fine(2 * k + 1) \in [1..n -> Int]
      BY <2>1, <2>2
    <2> DEFINE x == Coarse(k)
               y == Fine(2 * k)
               z == Fine(2 * k + 1)
    <2>6. /\ x \in [1..n -> Int] /\ y \in [1..n -> Int] /\ z \in [1..n -> Int]
          /\ \A i \in 1..n : x[i] = y[i] + z[i]
      BY <2>1, <2>4
    <2>5. Total(x) = Total(y) + Total(z)
      <3>1. n \in Nat
        BY <1>1
      <3> HIDE DEF x, y, z, n
      <3> QED
        BY <2>6, <3>1, TotalOfSum, ZenonT(30)
    <2> QED
      BY <2>3, <2>5
  <1> DEFINE u == [k \in 1..bins |-> Abs(BinGap(predictions, bins, k - 1))]
             v == [k \in 1..(2 * bins) |-> Abs(BinGap(predictions, 2 * bins, k - 1))]
             w == [k \in 1..bins |-> v[2 * k - 1] + v[2 * k]]
  <1>4. \A k \in 1..bins : BinGap(predictions, bins, k - 1) \in Int
    BY RowsAreSorted
  <1>5. \A k \in 1..(2 * bins) : BinGap(predictions, 2 * bins, k - 1) \in Int
    BY <1>1, RowsAreSorted
  <1>6. u \in [1..bins -> Int] /\ v \in [1..(2 * bins) -> Int]
    BY <1>4, <1>5 DEF Abs
  <1>7. ASSUME NEW k \in 1..bins PROVE w[k] \in Int /\ u[k] <= w[k]
    <2>1. k - 1 \in 0..(bins - 1) /\ 2 * k - 1 \in 1..(2 * bins) /\ 2 * k \in 1..(2 * bins)
      OBVIOUS
    <2> DEFINE a == BinGap(predictions, bins, k - 1)
               b == BinGap(predictions, 2 * bins, 2 * (k - 1))
               d == BinGap(predictions, 2 * bins, 2 * (k - 1) + 1)
    <2>2. a = b + d
      BY <1>3, <2>1
    <2>3. (2 * k - 1) - 1 = 2 * (k - 1) /\ (2 * k) - 1 = 2 * (k - 1) + 1
      OBVIOUS
    <2>4. b \in Int /\ d \in Int
      BY <1>5, <2>1, <2>3
    <2>5. u[k] = Abs(a) /\ v[2 * k - 1] = Abs(b) /\ v[2 * k] = Abs(d)
      BY <2>1, <2>3
    <2>6. w[k] = Abs(b) + Abs(d)
      BY <2>5
    <2> HIDE DEF a, b, d, u, v, w
    <2> QED
      BY <2>2, <2>4, <2>5, <2>6 DEF Abs
  <1>8. w \in [1..bins -> Int] /\ \A k \in 1..bins : w[k] = v[2 * k - 1] + v[2 * k]
    BY <1>7
  <1>9. CalibrationError(predictions, bins) = Total(u) /\ CalibrationError(predictions, 2 * bins) = Total(v)
    BY DEF CalibrationError
  <1> HIDE DEF u, v, w
  <1>10. Total(v) = Total(w)
    BY <1>6, <1>8, TotalOfPairs
  <1>11. Total(u) <= Total(w) /\ Total(u) \in Int /\ Total(w) \in Int
    BY <1>6, <1>7, <1>8, TotalIsMonotone, SumsAre
  <1> QED
    BY <1>9, <1>10, <1>11

\* The errors of any predictions count.
LEMMA ErrorsCount ==
    ASSUME case.kind = "predictions", IsPredicted(case)
    PROVE  ErrorsAreCounted
  <1> DEFINE predictions == case.predictions
             n == Len(predictions)
             g == Gaps(predictions)
             confidences == [i \in DOMAIN predictions |-> predictions[i].confidence]
             flags == [i \in DOMAIN predictions |-> Flag(predictions[i].correct)]
             error == CalibrationError(predictions, case.bins)
  <1>1. IsJudged(predictions) /\ case.bins \in Nat \ {0}
    BY DEF IsPredicted, IsJudged
  <1>2. /\ n \in Nat /\ DOMAIN predictions = 1..n /\ Scale \in Nat /\ g \in [1..n -> Int]
        /\ \A i \in 1..n : /\ predictions[i].confidence \in 0..Scale
                           /\ Flag(predictions[i].correct) \in Int
                           /\ g[i] = Flag(predictions[i].correct) - predictions[i].confidence
    BY <1>1, GapsAreBounded
  <1>3. /\ confidences \in [1..n -> Int] /\ flags \in [1..n -> Int]
        /\ \A i \in 1..n : flags[i] = g[i] + confidences[i]
    BY <1>2
  <1>4. /\ error \in Int /\ error >= Total(g) /\ error >= -Total(g) /\ error <= Scale * n
        /\ CalibrationError(predictions, 2 * case.bins) >= error
    BY <1>1, NothingIsHidden, HalvesShowMore
  <1> HIDE DEF g, confidences, flags, n
  <1>5. Total(flags) = Total(g) + Total(confidences)
    BY <1>2, <1>3, TotalOfSum
  <1>6. Total(flags) \in Int /\ Total(g) \in Int /\ Total(confidences) \in Int
    BY <1>2, <1>3, SumsAre
  <1> HIDE DEF error
  <1>7. error >= Total(confidences) - Total(flags) /\ error >= Total(flags) - Total(confidences)
    BY <1>4, <1>5, <1>6
  <1> QED
    BY <1>4, <1>7 DEF ErrorsAreCounted, error, confidences, flags, n

------------------------------------------------------------------------------
(* Strokes and boxes.                                                        *)

\* On which side of the line from p to q a point is, and how far.
Turn(p, q, c) == (q[1] - p[1]) * (c[2] - p[2]) - (q[2] - p[2]) * (c[1] - p[1])

IsRect(r) ==
    /\ r.lo \in Int \X Int /\ r.hi \in Int \X Int
    /\ r.lo[1] <= r.hi[1] /\ r.lo[2] <= r.hi[2]

\* A turn is what Ccw compares, taken from either end of the line.
LEMMA TurnsOf ==
    ASSUME NEW p \in Int \X Int, NEW q \in Int \X Int, NEW c \in Int \X Int
    PROVE  /\ Ccw(p, q, c) <=> Turn(p, q, c) > 0
           /\ Turn(p, q, c) \in Int
           /\ Turn(p, q, c) = (q[1] - p[1]) * (c[2] - q[2]) - (q[2] - p[2]) * (c[1] - q[1])
  <1>1. p[1] \in Int /\ p[2] \in Int /\ q[1] \in Int /\ q[2] \in Int /\ c[1] \in Int /\ c[2] \in Int
    OBVIOUS
  <1>2. ASSUME NEW a \in Int, NEW b \in Int, NEW d \in Int, NEW e \in Int, NEW x \in Int, NEW y \in Int
        PROVE  /\ (y - b) * (d - a) > (e - b) * (x - a) <=> (d - a) * (y - b) - (e - b) * (x - a) > 0
               /\ (d - a) * (y - b) - (e - b) * (x - a) \in Int
               /\ (d - a) * (y - b) - (e - b) * (x - a) = (d - a) * (y - e) - (e - b) * (x - d)
    OBVIOUS
  <1> QED
    BY <1>1, <1>2 DEF Ccw, Turn

\* The signs of products.
LEMMA Signs ==
    ASSUME NEW a \in Int, NEW b \in Int
    PROVE  /\ a * b \in Int
           /\ a >= 0 /\ b >= 0 => a * b >= 0
           /\ a <= 0 /\ b <= 0 => a * b >= 0
           /\ a >= 0 /\ b <= 0 => a * b <= 0
           /\ a <= 0 /\ b >= 0 => a * b <= 0
           /\ a > 0 /\ b > 0 => a * b > 0
           /\ a < 0 /\ b < 0 => a * b > 0
           /\ a > 0 /\ b < 0 => a * b < 0
           /\ a < 0 /\ b > 0 => a * b < 0
  OBVIOUS

\* The corners of a rectangle, one by one.
LEMMA CornersOf ==
    ASSUME NEW r, IsRect(r)
    PROVE  /\ Corners(r)[1] = <<r.lo[1], r.lo[2]>> /\ Corners(r)[2] = <<r.hi[1], r.lo[2]>>
           /\ Corners(r)[3] = <<r.hi[1], r.hi[2]>> /\ Corners(r)[4] = <<r.lo[1], r.hi[2]>>
           /\ Corners(r)[5] = <<r.lo[1], r.lo[2]>>
           /\ Range(Corners(r)) = {<<r.lo[1], r.lo[2]>>, <<r.hi[1], r.lo[2]>>, <<r.hi[1], r.hi[2]>>,
                                   <<r.lo[1], r.hi[2]>>}
           /\ r.lo[1] \in Int /\ r.lo[2] \in Int /\ r.hi[1] \in Int /\ r.hi[2] \in Int
  <1>1. r.lo = <<r.lo[1], r.lo[2]>> /\ r.hi = <<r.hi[1], r.hi[2]>>
    BY DEF IsRect
  <1>2. r.lo[1] \in Int /\ r.lo[2] \in Int /\ r.hi[1] \in Int /\ r.hi[2] \in Int
    BY DEF IsRect
  <1> DEFINE a == r.lo
             b == <<r.hi[1], r.lo[2]>>
             c == r.hi
             d == <<r.lo[1], r.hi[2]>>
  <1>3. Corners(r) = <<a, b, c, d, a>>
    BY DEF Corners
  <1> HIDE DEF a, b, c, d
  <1>4. /\ Corners(r)[1] = a /\ Corners(r)[2] = b /\ Corners(r)[3] = c /\ Corners(r)[4] = d
        /\ Corners(r)[5] = a /\ DOMAIN Corners(r) = {1, 2, 3, 4, 5}
    BY <1>3
  <1>5. Range(Corners(r)) = {a, b, c, d}
    BY <1>4 DEF Range
  <1>6. a = <<r.lo[1], r.lo[2]>> /\ c = <<r.hi[1], r.hi[2]>>
    BY <1>1 DEF a, c
  <1> QED
    BY <1>2, <1>4, <1>5, <1>6 DEF b, d

\* A point of the rectangle, on the line, has corners on both sides of it.
LEMMA CornersAround ==
    ASSUME NEW r, IsRect(r), NEW p \in Int \X Int, NEW q \in Int \X Int, InRect(p, r) \/ InRect(q, r)
    PROVE  \E c, d \in Range(Corners(r)) : Turn(p, q, c) >= 0 /\ Turn(p, q, d) <= 0
  <1> DEFINE a == q[1] - p[1]
             b == q[2] - p[2]
  <1>1. PICK m \in {p, q} : InRect(m, r)
    OBVIOUS
  <1>2. m \in Int \X Int /\ p[1] \in Int /\ p[2] \in Int /\ q[1] \in Int /\ q[2] \in Int
        /\ m[1] \in Int /\ m[2] \in Int
    BY <1>1
  <1>3. \A c \in Int \X Int : Turn(p, q, c) = a * (c[2] - m[2]) - b * (c[1] - m[1])
    BY <1>1, TurnsOf DEF Turn
  <1>4. a \in Int /\ b \in Int
    BY <1>2
  <1> HIDE DEF a, b
  <1> DEFINE l1 == r.lo[1]
             l2 == r.lo[2]
             h1 == r.hi[1]
             h2 == r.hi[2]
  <1>5. /\ l1 \in Int /\ l2 \in Int /\ h1 \in Int /\ h2 \in Int
        /\ Range(Corners(r)) = {<<l1, l2>>, <<h1, l2>>, <<h1, h2>>, <<l1, h2>>}
    BY CornersOf
  <1>6. l1 <= m[1] /\ m[1] <= h1 /\ l2 <= m[2] /\ m[2] <= h2
    BY <1>1, <1>2, <1>5 DEF InRect
  <1> HIDE DEF l1, l2, h1, h2
  <1>7. \A x, y \in Int : Turn(p, q, <<x, y>>) = a * (y - m[2]) - b * (x - m[1])
    BY <1>3
  <1> DEFINE top == IF a >= 0 THEN h2 ELSE l2
             low == IF a >= 0 THEN l2 ELSE h2
             right == IF b >= 0 THEN l1 ELSE h1
             left == IF b >= 0 THEN h1 ELSE l1
  <1>8. top \in Int /\ low \in Int /\ right \in Int /\ left \in Int
    BY <1>5
  <1>9. a * (top - m[2]) >= 0 /\ a * (low - m[2]) <= 0
    BY <1>2, <1>4, <1>5, <1>6, Signs
  <1>10. b * (right - m[1]) <= 0 /\ b * (left - m[1]) >= 0
    BY <1>2, <1>4, <1>5, <1>6, Signs
  <1>11. <<right, top>> \in Range(Corners(r)) /\ <<left, low>> \in Range(Corners(r))
    BY <1>5
  <1> HIDE DEF top, low, right, left
  <1>12. a * (top - m[2]) \in Int /\ a * (low - m[2]) \in Int /\ b * (right - m[1]) \in Int
         /\ b * (left - m[1]) \in Int
    BY <1>2, <1>4, <1>8
  <1>13. Turn(p, q, <<right, top>>) >= 0 /\ Turn(p, q, <<left, low>>) <= 0
    BY <1>7, <1>8, <1>9, <1>10, <1>12
  <1> QED
    BY <1>11, <1>13

\* What cancels an entry touches its box.
LEMMA CancelledIsTouched ==
    ASSUME NEW r, IsRect(r), NEW p \in Int \X Int, NEW q \in Int \X Int, LineIntersectsRect(p, q, r)
    PROVE  BoxesMeet(p, q, r)
           /\ \E c, d \in Range(Corners(r)) : Turn(p, q, c) >= 0 /\ Turn(p, q, d) <= 0
  <1>1. CASE InRect(p, r) \/ InRect(q, r)
    BY <1>1, CornersAround DEF LineIntersectsRect
  <1>2. CASE \E k \in 1..4 : SegmentsCross(p, q, Corners(r)[k], Corners(r)[k + 1])
    <2>1. PICK k \in 1..4 : SegmentsCross(p, q, Corners(r)[k], Corners(r)[k + 1])
      BY <1>2
    <2> DEFINE c == Corners(r)[k]
               d == Corners(r)[k + 1]
    <2>2. /\ c \in Range(Corners(r)) /\ d \in Range(Corners(r))
          /\ c \in Int \X Int /\ d \in Int \X Int
      <3>1. k = 1 \/ k = 2 \/ k = 3 \/ k = 4
        OBVIOUS
      <3> QED
        BY <3>1, CornersOf
    <2>3. Ccw(p, q, c) # Ccw(p, q, d)
      BY <2>1 DEF SegmentsCross
    <2> HIDE DEF c, d
    <2>4. /\ Ccw(p, q, c) <=> Turn(p, q, c) > 0
          /\ Ccw(p, q, d) <=> Turn(p, q, d) > 0
          /\ Turn(p, q, c) \in Int /\ Turn(p, q, d) \in Int
      BY <2>2, TurnsOf
    <2>5. Ccw(p, q, c) \in BOOLEAN /\ Ccw(p, q, d) \in BOOLEAN
      BY DEF Ccw
    <2>6. \/ Turn(p, q, c) >= 0 /\ Turn(p, q, d) <= 0
          \/ Turn(p, q, d) >= 0 /\ Turn(p, q, c) <= 0
      BY <2>3, <2>4, <2>5
    <2> QED
      BY <2>2, <2>6 DEF LineIntersectsRect
  <1> QED
    BY <1>1, <1>2 DEF LineIntersectsRect

\* On which side of an edge of a rectangle a point is.
LEMMA SidesOfEdges ==
    ASSUME NEW p \in Int \X Int, NEW l \in Int, NEW h \in Int, NEW b \in Int, NEW t \in Int, l < h, b < t
    PROVE  /\ Ccw(p, <<l, b>>, <<h, b>>) <=> p[2] > b
           /\ Ccw(p, <<h, b>>, <<h, t>>) <=> p[1] < h
           /\ Ccw(p, <<h, t>>, <<l, t>>) <=> p[2] < t
           /\ Ccw(p, <<l, t>>, <<l, b>>) <=> p[1] > l
  <1>1. p[1] \in Int /\ p[2] \in Int
    OBVIOUS
  <1>2. ASSUME NEW x \in Int, NEW y \in Int
        PROVE  /\ (b - y) * (l - x) > (b - y) * (h - x) <=> y > b
               /\ (t - y) * (h - x) > (b - y) * (h - x) <=> x < h
               /\ (t - y) * (h - x) > (t - y) * (l - x) <=> y < t
               /\ (b - y) * (l - x) > (t - y) * (l - x) <=> x > l
    <2>1. /\ (b - y) * (l - x) - (b - y) * (h - x) = (b - y) * (l - h)
          /\ (t - y) * (h - x) - (b - y) * (h - x) = (t - b) * (h - x)
          /\ (t - y) * (h - x) - (t - y) * (l - x) = (t - y) * (h - l)
          /\ (b - y) * (l - x) - (t - y) * (l - x) = (b - t) * (l - x)
      OBVIOUS
    <2>2. /\ (b - y) * (l - h) > 0 <=> y > b
          /\ (t - b) * (h - x) > 0 <=> x < h
          /\ (t - y) * (h - l) > 0 <=> y < t
          /\ (b - t) * (l - x) > 0 <=> x > l
      BY Signs
    <2>3. /\ (b - y) * (l - x) \in Int /\ (b - y) * (h - x) \in Int
          /\ (t - y) * (h - x) \in Int /\ (t - y) * (l - x) \in Int
      OBVIOUS
    <2> QED
      BY <2>1, <2>2, <2>3
  <1> QED
    BY <1>1, <1>2 DEF Ccw

\* A box that a stroke's box meets and whose corners are on both sides of it,
\* or on its line, has a greater one that the stroke crosses or ends in.
LEMMA GreaterIsCrossed ==
    ASSUME NEW p \in Int \X Int, NEW q \in Int \X Int,
           NEW l \in Int, NEW h \in Int, NEW b \in Int, NEW t \in Int,
           Greatest(p[1], q[1]) > l, Least(p[1], q[1]) < h,
           Greatest(p[2], q[2]) > b, Least(p[2], q[2]) < t,
           NEW c \in Int \X Int, l < c[1], c[1] < h, b < c[2], c[2] < t, Turn(p, q, c) >= 0,
           NEW d \in Int \X Int, l < d[1], d[1] < h, b < d[2], d[2] < t, Turn(p, q, d) <= 0,
           p[1] < l \/ p[1] > h \/ p[2] < b \/ p[2] > t,
           q[1] < l \/ q[1] > h \/ q[2] < b \/ q[2] > t
    PROVE  \/ SegmentsCross(p, q, <<l, b>>, <<h, b>>)
           \/ SegmentsCross(p, q, <<h, b>>, <<h, t>>)
           \/ SegmentsCross(p, q, <<l, t>>, <<l, b>>)
  <1> DEFINE p1 == p[1]
             p2 == p[2]
             q1 == q[1]
             q2 == q[2]
             u == q1 - p1
             v == q2 - p2
             S(x, y) == u * (y - p2) - v * (x - p1)
  <1>1. p1 \in Int /\ p2 \in Int /\ q1 \in Int /\ q2 \in Int /\ u \in Int /\ v \in Int
    OBVIOUS
  <1>2. l < h /\ b < t
    OBVIOUS
  <1>3. \A x, y \in Int : /\ Ccw(p, q, <<x, y>>) <=> S(x, y) > 0
                          /\ S(x, y) \in Int
                          /\ S(x, y) = u * (y - q2) - v * (x - q1)
    <2> TAKE x, y \in Int
    <2>1. <<x, y>> \in Int \X Int /\ <<x, y>>[1] = x /\ <<x, y>>[2] = y
      OBVIOUS
    <2> QED
      BY <2>1, TurnsOf DEF Turn
  <1>4. \A m \in {p, q} : /\ Ccw(m, <<l, b>>, <<h, b>>) <=> m[2] > b
                          /\ Ccw(m, <<h, b>>, <<h, t>>) <=> m[1] < h
                          /\ Ccw(m, <<l, t>>, <<l, b>>) <=> m[1] > l
    <2> TAKE m \in {p, q}
    <2>1. m \in Int \X Int
      OBVIOUS
    <2>2. l \in Int /\ h \in Int /\ b \in Int /\ t \in Int
      OBVIOUS
    <2> QED
      BY <1>2, <2>1, <2>2, SidesOfEdges, Zenon
  <1>5. /\ Ccw(p, <<l, b>>, <<h, b>>) <=> p2 > b
        /\ Ccw(q, <<l, b>>, <<h, b>>) <=> q2 > b
        /\ Ccw(p, <<h, b>>, <<h, t>>) <=> p1 < h
        /\ Ccw(q, <<h, b>>, <<h, t>>) <=> q1 < h
        /\ Ccw(p, <<l, t>>, <<l, b>>) <=> p1 > l
        /\ Ccw(q, <<l, t>>, <<l, b>>) <=> q1 > l
    BY <1>4
  <1>6. \A x, y \in Int : \A e \in {c, d} : /\ e[1] \in Int /\ e[2] \in Int
                                            /\ S(x, y) = Turn(p, q, e) + (u * (y - e[2]) - v * (x - e[1]))
    <2> TAKE x, y \in Int
    <2> TAKE e \in {c, d}
    <2>1. e[1] \in Int /\ e[2] \in Int
      OBVIOUS
    <2>2. Turn(p, q, e) = u * (e[2] - p2) - v * (e[1] - p1)
      BY DEF Turn
    <2>3. \A i, j \in Int : u * (y - p2) - v * (x - p1)
                              = (u * (j - p2) - v * (i - p1)) + (u * (y - j) - v * (x - i))
      BY <1>1
    <2>4. S(x, y) = (u * (e[2] - p2) - v * (e[1] - p1)) + (u * (y - e[2]) - v * (x - e[1]))
      BY <2>1, <2>3, Zenon
    <2> QED
      BY <2>1, <2>2, <2>4, Zenon
  <1>7. Turn(p, q, c) \in Int /\ Turn(p, q, d) \in Int
    BY TurnsOf
  <1>8. /\ p1 > l \/ q1 > l
        /\ p1 < h \/ q1 < h
        /\ p2 > b \/ q2 > b
        /\ p2 < t \/ q2 < t
    BY <1>1 DEF Greatest, Least
  <1>9. /\ p1 < l \/ p1 > h \/ p2 < b \/ p2 > t
        /\ q1 < l \/ q1 > h \/ q2 < b \/ q2 > t
    OBVIOUS
  <1> DEFINE c1 == c[1]
             c2 == c[2]
             d1 == d[1]
             d2 == d[2]
             sc == Turn(p, q, c)
             sd == Turn(p, q, d)
  <1>10. /\ c1 \in Int /\ c2 \in Int /\ l < c1 /\ c1 < h /\ b < c2 /\ c2 < t /\ sc >= 0
         /\ d1 \in Int /\ d2 \in Int /\ l < d1 /\ d1 < h /\ b < d2 /\ d2 < t /\ sd <= 0
    OBVIOUS
  <1>11. \A x, y \in Int : /\ S(x, y) = sc + (u * (y - c2) - v * (x - c1))
                           /\ S(x, y) = sd + (u * (y - d2) - v * (x - d1))
    BY <1>6
  <1> HIDE DEF sc, sd, c1, c2, d1, d2
  <1>12. sc \in Int /\ sd \in Int
    BY <1>7 DEF sc, sd
  <1>13. \A x, y \in Int : /\ Ccw(p, q, <<x, y>>) \in BOOLEAN /\ Ccw(p, <<x, y>>, <<x, y>>) \in BOOLEAN
    BY DEF Ccw
  <1>20. ASSUME NEW x \in Int, NEW y \in Int, S(x, y) > 0, NEW x2 \in Int, NEW y2 \in Int, S(x2, y2) <= 0
         PROVE  Ccw(p, q, <<x, y>>) # Ccw(p, q, <<x2, y2>>) /\ Ccw(p, q, <<x2, y2>>) # Ccw(p, q, <<x, y>>)
    <2>1. Ccw(p, q, <<x, y>>)
      BY <1>3, <1>20
    <2>2. ~Ccw(p, q, <<x2, y2>>)
      BY <1>3, <1>20
    <2> QED
      BY <2>1, <2>2
  <1> DEFINE Bottom == SegmentsCross(p, q, <<l, b>>, <<h, b>>)
             Right == SegmentsCross(p, q, <<h, b>>, <<h, t>>)
             Left == SegmentsCross(p, q, <<l, t>>, <<l, b>>)
             Differ(x, y, x2, y2) == (S(x, y) > 0 /\ S(x2, y2) <= 0) \/ (S(x2, y2) > 0 /\ S(x, y) <= 0)
  <1>21. ((~(p2 > b) /\ q2 > b) \/ (~(q2 > b) /\ p2 > b)) /\ Differ(l, b, h, b) => Bottom
    BY <1>5, <1>20 DEF SegmentsCross
  <1>22. ((~(p1 < h) /\ q1 < h) \/ (~(q1 < h) /\ p1 < h)) /\ Differ(h, b, h, t) => Right
    BY <1>5, <1>20 DEF SegmentsCross
  <1>23. ((~(p1 > l) /\ q1 > l) \/ (~(q1 > l) /\ p1 > l)) /\ Differ(l, t, l, b) => Left
    BY <1>5, <1>20 DEF SegmentsCross
  <1> HIDE DEF Bottom, Right, Left
  <1>24. \A x, y \in Int : S(x, y) \in Int
    BY <1>3
  <1>25. \A x, y \in Int : S(x, y) = u * (y - q2) - v * (x - q1)
    BY <1>3
  <1>26. \A x, y \in Int : /\ u * (y - p2) \in Int /\ v * (x - p1) \in Int
                           /\ u * (y - q2) \in Int /\ v * (x - q1) \in Int
                           /\ u * (y - c2) \in Int /\ v * (x - c1) \in Int
                           /\ u * (y - d2) \in Int /\ v * (x - d1) \in Int
    BY <1>1, <1>10
  <1>27. ASSUME NEW m \in Int, NEW i \in Int, NEW j \in Int
         PROVE  /\ m >= 0 /\ ((i > 0 /\ j <= 0) \/ (i >= 0 /\ j < 0)) => m + (i - j) > 0
                /\ m <= 0 /\ ((i < 0 /\ j >= 0) \/ (i <= 0 /\ j > 0)) => m + (i - j) < 0
                /\ ((i > 0 /\ j <= 0) \/ (i >= 0 /\ j < 0)) => ~(i - j <= 0)
                /\ ((i < 0 /\ j >= 0) \/ (i <= 0 /\ j > 0)) => ~(i - j > 0)
    OBVIOUS
  <1>28. l \in Int /\ h \in Int /\ b \in Int /\ t \in Int
    OBVIOUS
  <1>29. /\ u = q1 - p1 /\ v = q2 - p2
         /\ \A x, y \in Int : S(x, y) = u * (y - p2) - v * (x - p1)
    OBVIOUS
  <1> HIDE DEF p1, p2, q1, q2, u, v, S
  <1>30. CASE u > 0 /\ v >= 0
    <2>1. p1 < q1 /\ p2 <= q2
      BY <1>1, <1>29, <1>30
    <2>2. q1 > l /\ p1 < h /\ q2 > b /\ p2 < t
      BY <1>1, <1>8, <2>1
    <2>3. p1 < l \/ p2 < b
      BY <1>1, <1>9, <2>2
    <2>4. S(l, t) > 0
      <3>1. u * (t - c2) > 0 /\ v * (l - c1) <= 0
        BY <1>1, <1>10, <1>30, Signs
      <3> QED
        <4>1. S(l, t) = sc + (u * (t - c2) - v * (l - c1))
          BY <1>11, <1>28
        <4>2. u * (t - c2) \in Int /\ v * (l - c1) \in Int
          BY <1>26, <1>28
        <4> QED
          BY <1>10, <1>12, <3>1, <4>1, <4>2
    <2>5. S(h, b) < 0
      <3>1. u * (b - d2) < 0 /\ v * (h - d1) >= 0
        BY <1>1, <1>10, <1>30, Signs
      <3> QED
        <4>1. S(h, b) = sd + (u * (b - d2) - v * (h - d1))
          BY <1>11, <1>28
        <4>2. u * (b - d2) \in Int /\ v * (h - d1) \in Int
          BY <1>26, <1>28
        <4> QED
          BY <1>10, <1>12, <3>1, <4>1, <4>2
    <2>6. CASE S(l, b) > 0
      <3>1. ~(p2 > b)
        <4> SUFFICES ASSUME p2 > b PROVE FALSE
          OBVIOUS
        <4>1. u * (b - p2) < 0 /\ v * (l - p1) >= 0
          BY <1>1, <1>30, <2>3, Signs
        <4>2. S(l, b) = u * (b - p2) - v * (l - p1)
          BY <1>29, <1>28
        <4>3. u * (b - p2) \in Int /\ v * (l - p1) \in Int
          BY <1>26, <1>28
        <4> QED
          BY <1>27, <2>6, <4>1, <4>2, <4>3, ZenonT(30)
      <3> QED
        BY <1>21, <1>24, <1>28, <2>2, <2>4, <2>5, <2>6, <3>1 DEF Bottom
    <2>7. CASE S(l, b) <= 0
      <3>1. ~(p1 > l)
        <4> SUFFICES ASSUME p1 > l PROVE FALSE
          OBVIOUS
        <4>1. u * (b - p2) > 0 /\ v * (l - p1) <= 0
          BY <1>1, <1>30, <2>3, Signs
        <4>2. S(l, b) = u * (b - p2) - v * (l - p1)
          BY <1>29, <1>28
        <4>3. u * (b - p2) \in Int /\ v * (l - p1) \in Int
          BY <1>26, <1>28
        <4> QED
          BY <1>27, <2>7, <4>1, <4>2, <4>3, ZenonT(30)
      <3> QED
        BY <1>23, <2>2, <2>4, <2>5, <2>7, <3>1 DEF Left
    <2> QED
      BY <1>24, <2>6, <2>7
  <1>31. CASE u <= 0 /\ v > 0
    <2>1. q1 <= p1 /\ p2 < q2
      BY <1>1, <1>29, <1>31
    <2>2. p1 > l /\ q1 < h /\ q2 > b /\ p2 < t
      BY <1>1, <1>8, <2>1
    <2>3. p1 > h \/ p2 < b
      BY <1>1, <1>9, <2>2
    <2>4. S(l, b) > 0
      <3>1. u * (b - c2) >= 0 /\ v * (l - c1) < 0
        BY <1>1, <1>10, <1>31, Signs
      <3> QED
        <4>1. S(l, b) = sc + (u * (b - c2) - v * (l - c1))
          BY <1>11, <1>28
        <4>2. u * (b - c2) \in Int /\ v * (l - c1) \in Int
          BY <1>26, <1>28
        <4> QED
          BY <1>10, <1>12, <3>1, <4>1, <4>2
    <2>5. S(h, t) < 0
      <3>1. u * (t - d2) <= 0 /\ v * (h - d1) > 0
        BY <1>1, <1>10, <1>31, Signs
      <3> QED
        <4>1. S(h, t) = sd + (u * (t - d2) - v * (h - d1))
          BY <1>11, <1>28
        <4>2. u * (t - d2) \in Int /\ v * (h - d1) \in Int
          BY <1>26, <1>28
        <4> QED
          BY <1>10, <1>12, <3>1, <4>1, <4>2
    <2>6. CASE S(h, b) > 0
      <3>1. ~(p1 < h)
        <4> SUFFICES ASSUME p1 < h PROVE FALSE
          OBVIOUS
        <4>1. u * (b - p2) <= 0 /\ v * (h - p1) > 0
          BY <1>1, <1>31, <2>3, Signs
        <4>2. S(h, b) = u * (b - p2) - v * (h - p1)
          BY <1>29, <1>28
        <4>3. u * (b - p2) \in Int /\ v * (h - p1) \in Int
          BY <1>26, <1>28
        <4> QED
          BY <1>27, <2>6, <4>1, <4>2, <4>3, ZenonT(30)
      <3> QED
        BY <1>22, <1>24, <1>28, <2>2, <2>4, <2>5, <2>6, <3>1 DEF Right
    <2>7. CASE S(h, b) <= 0
      <3>1. ~(p2 > b)
        <4> SUFFICES ASSUME p2 > b PROVE FALSE
          OBVIOUS
        <4>1. u * (b - p2) >= 0 /\ v * (h - p1) < 0
          BY <1>1, <1>31, <2>3, Signs
        <4>2. S(h, b) = u * (b - p2) - v * (h - p1)
          BY <1>29, <1>28
        <4>3. u * (b - p2) \in Int /\ v * (h - p1) \in Int
          BY <1>26, <1>28
        <4> QED
          BY <1>27, <2>7, <4>1, <4>2, <4>3, ZenonT(30)
      <3> QED
        BY <1>21, <2>2, <2>4, <2>5, <2>7, <3>1 DEF Bottom
    <2> QED
      BY <1>24, <2>6, <2>7
  <1>32. CASE u < 0 /\ v <= 0
    <2>1. q1 < p1 /\ q2 <= p2
      BY <1>1, <1>29, <1>32
    <2>2. p1 > l /\ q1 < h /\ p2 > b /\ q2 < t
      BY <1>1, <1>8, <2>1
    <2>3. q1 < l \/ q2 < b
      BY <1>1, <1>9, <2>2
    <2>4. S(h, b) > 0
      <3>1. u * (b - c2) > 0 /\ v * (h - c1) <= 0
        BY <1>1, <1>10, <1>32, Signs
      <3> QED
        <4>1. S(h, b) = sc + (u * (b - c2) - v * (h - c1))
          BY <1>11, <1>28
        <4>2. u * (b - c2) \in Int /\ v * (h - c1) \in Int
          BY <1>26, <1>28
        <4> QED
          BY <1>10, <1>12, <3>1, <4>1, <4>2
    <2>5. S(l, t) < 0
      <3>1. u * (t - d2) < 0 /\ v * (l - d1) >= 0
        BY <1>1, <1>10, <1>32, Signs
      <3> QED
        <4>1. S(l, t) = sd + (u * (t - d2) - v * (l - d1))
          BY <1>11, <1>28
        <4>2. u * (t - d2) \in Int /\ v * (l - d1) \in Int
          BY <1>26, <1>28
        <4> QED
          BY <1>10, <1>12, <3>1, <4>1, <4>2
    <2>6. CASE S(l, b) > 0
      <3>1. ~(q1 > l)
        <4> SUFFICES ASSUME q1 > l PROVE FALSE
          OBVIOUS
        <4>1. u * (b - q2) < 0 /\ v * (l - q1) >= 0
          BY <1>1, <1>32, <2>3, Signs
        <4>2. S(l, b) = u * (b - q2) - v * (l - q1)
          BY <1>25, <1>28
        <4>3. u * (b - q2) \in Int /\ v * (l - q1) \in Int
          BY <1>26, <1>28
        <4> QED
          BY <1>27, <2>6, <4>1, <4>2, <4>3, ZenonT(30)
      <3> QED
        BY <1>23, <1>24, <1>28, <2>2, <2>4, <2>5, <2>6, <3>1 DEF Left
    <2>7. CASE S(l, b) <= 0
      <3>1. ~(q2 > b)
        <4> SUFFICES ASSUME q2 > b PROVE FALSE
          OBVIOUS
        <4>1. u * (b - q2) > 0 /\ v * (l - q1) <= 0
          BY <1>1, <1>32, <2>3, Signs
        <4>2. S(l, b) = u * (b - q2) - v * (l - q1)
          BY <1>25, <1>28
        <4>3. u * (b - q2) \in Int /\ v * (l - q1) \in Int
          BY <1>26, <1>28
        <4> QED
          BY <1>27, <2>7, <4>1, <4>2, <4>3, ZenonT(30)
      <3> QED
        BY <1>21, <2>2, <2>4, <2>5, <2>7, <3>1 DEF Bottom
    <2> QED
      BY <1>24, <2>6, <2>7
  <1>33. CASE u >= 0 /\ v < 0
    <2>1. p1 <= q1 /\ q2 < p2
      BY <1>1, <1>29, <1>33
    <2>2. q1 > l /\ p1 < h /\ p2 > b /\ q2 < t
      BY <1>1, <1>8, <2>1
    <2>3. q1 > h \/ q2 < b
      BY <1>1, <1>9, <2>2
    <2>4. S(h, t) > 0
      <3>1. u * (t - c2) >= 0 /\ v * (h - c1) < 0
        BY <1>1, <1>10, <1>33, Signs
      <3> QED
        <4>1. S(h, t) = sc + (u * (t - c2) - v * (h - c1))
          BY <1>11, <1>28
        <4>2. u * (t - c2) \in Int /\ v * (h - c1) \in Int
          BY <1>26, <1>28
        <4> QED
          BY <1>10, <1>12, <3>1, <4>1, <4>2
    <2>5. S(l, b) < 0
      <3>1. u * (b - d2) <= 0 /\ v * (l - d1) > 0
        BY <1>1, <1>10, <1>33, Signs
      <3> QED
        <4>1. S(l, b) = sd + (u * (b - d2) - v * (l - d1))
          BY <1>11, <1>28
        <4>2. u * (b - d2) \in Int /\ v * (l - d1) \in Int
          BY <1>26, <1>28
        <4> QED
          BY <1>10, <1>12, <3>1, <4>1, <4>2
    <2>6. CASE S(h, b) > 0
      <3>1. ~(q2 > b)
        <4> SUFFICES ASSUME q2 > b PROVE FALSE
          OBVIOUS
        <4>1. u * (b - q2) <= 0 /\ v * (h - q1) > 0
          BY <1>1, <1>33, <2>3, Signs
        <4>2. S(h, b) = u * (b - q2) - v * (h - q1)
          BY <1>25, <1>28
        <4>3. u * (b - q2) \in Int /\ v * (h - q1) \in Int
          BY <1>26, <1>28
        <4> QED
          BY <1>27, <2>6, <4>1, <4>2, <4>3, ZenonT(30)
      <3> QED
        BY <1>21, <1>24, <1>28, <2>2, <2>4, <2>5, <2>6, <3>1 DEF Bottom
    <2>7. CASE S(h, b) <= 0
      <3>1. ~(q1 < h)
        <4> SUFFICES ASSUME q1 < h PROVE FALSE
          OBVIOUS
        <4>1. u * (b - q2) >= 0 /\ v * (h - q1) < 0
          BY <1>1, <1>33, <2>3, Signs
        <4>2. S(h, b) = u * (b - q2) - v * (h - q1)
          BY <1>25, <1>28
        <4>3. u * (b - q2) \in Int /\ v * (h - q1) \in Int
          BY <1>26, <1>28
        <4> QED
          BY <1>27, <2>7, <4>1, <4>2, <4>3, ZenonT(30)
      <3> QED
        BY <1>22, <2>2, <2>4, <2>5, <2>7, <3>1 DEF Right
    <2> QED
      BY <1>24, <2>6, <2>7
  <1>34. CASE u = 0 /\ v = 0
    <2>1. p1 = q1 /\ p2 = q2
      BY <1>1, <1>29, <1>34
    <2> QED
      BY <1>1, <1>8, <1>9, <2>1
  <1>35. \/ u > 0 /\ v >= 0
         \/ u <= 0 /\ v > 0
         \/ u < 0 /\ v <= 0
         \/ u >= 0 /\ v < 0
         \/ u = 0 /\ v = 0
    <2> QED
      BY <1>1
  <1> QED
    BY <1>30, <1>31, <1>32, <1>33, <1>34, <1>35

\* A box that is touched, grown by the buffer, is intersected.
LEMMA TouchedIsFound ==
    ASSUME NEW r, IsRect(r), NEW p \in Int \X Int, NEW q \in Int \X Int, NEW by \in Nat \ {0},
           BoxesMeet(p, q, r),
           \E c, d \in Range(Corners(r)) : Turn(p, q, c) >= 0 /\ Turn(p, q, d) <= 0
    PROVE  LineIntersectsRect(p, q, Grown(r, by))
  <1> DEFINE g == Grown(r, by)
             l == r.lo[1] - by
             b == r.lo[2] - by
             h == r.hi[1] + by
             t == r.hi[2] + by
  <1>1. /\ r.lo[1] \in Int /\ r.lo[2] \in Int /\ r.hi[1] \in Int /\ r.hi[2] \in Int
        /\ r.lo[1] <= r.hi[1] /\ r.lo[2] <= r.hi[2]
    BY DEF IsRect
  <1>2. p[1] \in Int /\ p[2] \in Int /\ q[1] \in Int /\ q[2] \in Int
    OBVIOUS
  <1>3. /\ g.lo[1] = l /\ g.lo[2] = b /\ g.hi[1] = h /\ g.hi[2] = t
        /\ g.lo = <<l, b>> /\ g.hi = <<h, t>>
    BY DEF Grown
  <1>4. /\ l \in Int /\ b \in Int /\ h \in Int /\ t \in Int
        /\ l < r.lo[1] /\ b < r.lo[2] /\ r.hi[1] < h /\ r.hi[2] < t
    BY <1>1
  <1>5. IsRect(g)
    BY <1>1, <1>3, <1>4 DEF IsRect
  <1> HIDE DEF g, l, b, h, t
  <1>6. /\ Greatest(p[1], q[1]) > l /\ Least(p[1], q[1]) < h
        /\ Greatest(p[2], q[2]) > b /\ Least(p[2], q[2]) < t
    <2>1. /\ Greatest(p[1], q[1]) >= r.lo[1] /\ Least(p[1], q[1]) <= r.hi[1]
          /\ Greatest(p[2], q[2]) >= r.lo[2] /\ Least(p[2], q[2]) <= r.hi[2]
      BY DEF BoxesMeet
    <2>2. /\ Greatest(p[1], q[1]) \in Int /\ Least(p[1], q[1]) \in Int
          /\ Greatest(p[2], q[2]) \in Int /\ Least(p[2], q[2]) \in Int
      BY <1>2 DEF Greatest, Least
    <2> QED
      BY <1>1, <1>4, <2>1, <2>2
  <1>7. BoxesMeet(p, q, g)
    <2>1. /\ Greatest(p[1], q[1]) \in Int /\ Least(p[1], q[1]) \in Int
          /\ Greatest(p[2], q[2]) \in Int /\ Least(p[2], q[2]) \in Int
      BY <1>2 DEF Greatest, Least
    <2>2. \A k \in 1..2 : k = 1 \/ k = 2
      OBVIOUS
    <2>3. /\ Greatest(p[1], q[1]) >= l /\ Least(p[1], q[1]) <= h
          /\ Greatest(p[2], q[2]) >= b /\ Least(p[2], q[2]) <= t
      BY <1>4, <1>6, <2>1
    <2> QED
      BY <1>3, <2>2, <2>3 DEF BoxesMeet
  <1>8. CASE InRect(p, g) \/ InRect(q, g)
    BY <1>7, <1>8 DEF LineIntersectsRect, g
  <1>9. CASE ~InRect(p, g) /\ ~InRect(q, g)
    <2>1. /\ p[1] < l \/ p[1] > h \/ p[2] < b \/ p[2] > t
          /\ q[1] < l \/ q[1] > h \/ q[2] < b \/ q[2] > t
      BY <1>2, <1>3, <1>4, <1>9 DEF InRect
    <2>2. PICK c \in Range(Corners(r)), d \in Range(Corners(r)) :
             Turn(p, q, c) >= 0 /\ Turn(p, q, d) <= 0
      OBVIOUS
    <2>3. ASSUME NEW e \in Range(Corners(r))
          PROVE  e \in Int \X Int /\ l < e[1] /\ e[1] < h /\ b < e[2] /\ e[2] < t
      <3>1. e \in {<<r.lo[1], r.lo[2]>>, <<r.hi[1], r.lo[2]>>, <<r.hi[1], r.hi[2]>>,
                   <<r.lo[1], r.hi[2]>>}
        BY CornersOf
      <3> QED
        BY <1>1, <1>4, <3>1
    <2>4. \/ SegmentsCross(p, q, <<l, b>>, <<h, b>>)
          \/ SegmentsCross(p, q, <<h, b>>, <<h, t>>)
          \/ SegmentsCross(p, q, <<l, t>>, <<l, b>>)
      <3>1. c \in Int \X Int /\ l < c[1] /\ c[1] < h /\ b < c[2] /\ c[2] < t
        BY <2>3
      <3>2. d \in Int \X Int /\ l < d[1] /\ d[1] < h /\ b < d[2] /\ d[2] < t
        BY <2>3
      <3> QED
        BY <1>4, <1>6, <2>1, <2>2, <3>1, <3>2, GreaterIsCrossed, Zenon
    <2>5. /\ Corners(g)[1] = <<l, b>> /\ Corners(g)[2] = <<h, b>> /\ Corners(g)[3] = <<h, t>>
          /\ Corners(g)[4] = <<l, t>> /\ Corners(g)[5] = <<l, b>>
      BY <1>3, <1>5, CornersOf
    <2>6. 1 \in 1..4 /\ 2 \in 1..4 /\ 4 \in 1..4 /\ 1 + 1 = 2 /\ 2 + 1 = 3 /\ 4 + 1 = 5
      OBVIOUS
    <2>7. \E k \in 1..4 : SegmentsCross(p, q, Corners(g)[k], Corners(g)[k + 1])
      BY <2>4, <2>5, <2>6, Zenon
    <2> QED
      BY <1>7, <2>7 DEF LineIntersectsRect, g
  <1> QED
    BY <1>8, <1>9

\* A stroke is judged as strikethrough.py says: StrikeNeverMissed of a stroke.
LEMMA StrokesAreFound ==
    ASSUME case.kind = "stroke", IsDrawn(case)
    PROVE  StrikeNeverMissed
  <1> DEFINE p == case.p
             q == case.q
             r == case.rect
             g == Grown(case.rect, case.buffer)
             verdict == ClassifyCancellation(case.rect, {<<case.p, case.q>>}, case.status, case.buffer)
             status == IF case.status \in EntryStatus THEN case.status ELSE "unknown"
             hit == LineIntersectsRect(p, q, r)
             near == LineIntersectsRect(p, q, g)
             direct == {s \in {<<p, q>>} : LineIntersectsRect(s[1], s[2], r)}
             grazing == {s \in {<<p, q>>} \ direct : LineIntersectsRect(s[1], s[2], g)}
  <1>1. p \in Int \X Int /\ q \in Int \X Int /\ IsRect(r) /\ case.buffer \in Nat \ {0}
    BY DEF IsDrawn, IsRect
  <1>2. Touches(p, q, r) <=> /\ BoxesMeet(p, q, r)
                             /\ \E c, d \in Range(Corners(r)) : Turn(p, q, c) >= 0 /\ Turn(p, q, d) <= 0
    BY DEF Touches, Turn
  <1>3. hit => Touches(p, q, r)
    BY <1>1, <1>2, CancelledIsTouched
  <1>4. Touches(p, q, r) => near
    BY <1>1, <1>2, TouchedIsFound
  <1>5. verdict = [is_cancelled |-> direct # {}, is_ambiguous |-> direct = {} /\ grazing # {},
                   entry_status |-> CASE direct # {} -> IF status = "superseded" THEN status ELSE "cancelled"
                                      [] direct = {} /\ grazing # {} -> "unknown"
                                      [] OTHER -> status]
    BY DEF ClassifyCancellation
  <1>10. \A s \in {<<p, q>>} : s[1] = p /\ s[2] = q
    <2> HIDE DEF p, q
    <2> QED
      OBVIOUS
  <1>6. direct # {} <=> hit
    <2> HIDE DEF p, q, r
    <2>1. hit => <<p, q>> \in direct
      BY <1>10, Zenon
    <2>2. direct # {} => hit
      BY <1>10, Zenon
    <2> QED
      BY <2>1, <2>2, Zenon
  <1>7. ~hit => (grazing # {} <=> near)
    <2> HIDE DEF p, q, r, g
    <2>1. ~hit /\ near => <<p, q>> \in grazing
      BY <1>10, Zenon
    <2>2. grazing # {} => near
      BY <1>10, Zenon
    <2> QED
      BY <2>1, <2>2, Zenon
  <1> HIDE DEF verdict, direct, grazing, hit, near
  <1>8. /\ verdict.is_cancelled <=> hit
        /\ verdict.is_ambiguous <=> ~hit /\ near
    BY <1>5, <1>6, <1>7
  <1>9. verdict.entry_status \in {"live", "amended"} =>
           verdict.entry_status = case.status /\ ~hit /\ ~near
    <2>1. verdict.entry_status = CASE direct # {} -> IF status = "superseded" THEN status ELSE "cancelled"
                                   [] direct = {} /\ grazing # {} -> "unknown"
                                   [] OTHER -> status
      BY <1>5
    <2>4. status \in {"live", "amended"} => status = case.status
      OBVIOUS
    <2> HIDE DEF status
    <2>2. CASE hit
      BY <1>6, <2>1, <2>2
    <2>3. CASE ~hit /\ near
      <3>1. direct = {} /\ grazing # {}
        BY <1>6, <1>7, <2>3
      <3> QED
        BY <2>1, <3>1
    <2>5. CASE ~hit /\ ~near
      <3>1. direct = {} /\ grazing = {}
        BY <1>6, <1>7, <2>5
      <3> QED
        BY <2>1, <2>4, <2>5, <3>1
    <2> QED
      BY <2>2, <2>3, <2>5
  <1> QED
    BY <1>3, <1>4, <1>8, <1>9 DEF StrikeNeverMissed, verdict

------------------------------------------------------------------------------
(* The labels of parcels.                                                    *)

\* Distances of numbered labels from finitely many parcels.
AreDistances(far, labels) ==
    /\ IsFiniteSet(DOMAIN far) /\ labels \subseteq Nat \ {0}
    /\ \A p \in DOMAIN far : DOMAIN far[p] = labels /\ \A l \in labels : far[p][l] \in Nat

\* The label that names a parcel is in reach, in the parcel when any label is, and
\* no other parcel competes for it.
LEMMA NamesAreNear ==
    ASSUME NEW far, NEW labels, AreDistances(far, labels), NEW text, NEW near \in Nat,
           NEW p \in DOMAIN far, NEW b, b = BindSurveyLabel(far, text, p, near).label, b # 0
    PROVE  /\ b \in labels
           /\ far[p][b] <= near /\ (Inside(far, p) # {} => far[p][b] = 0)
           /\ \A q \in DOMAIN far \ {p} :
                 far[q][b] > (IF Inside(far, p) # {} THEN 0 ELSE near)
  <1> DEFINE pool == Pool(far, p, near)
             reach == IF Inside(far, p) # {} THEN 0 ELSE near
             competing == Parcels(far, Best(far, p, near), reach)
             nearest == {l \in pool : \A k \in pool : far[p][l] <= far[p][k]}
  <1>1. DOMAIN far[p] = labels /\ \A l \in labels : far[p][l] \in Nat
    BY DEF AreDistances
  <1>2. /\ Candidates(far, p, near) # {}
        /\ ~(Cardinality(competing) > 1)
        /\ Best(far, p, near) = b
    BY DEF BindSurveyLabel, Unbound
  <1>3. pool \subseteq labels /\ pool # {} /\ \A l \in pool : far[p][l] <= reach
    BY <1>1, <1>2 DEF Pool, Candidates, Inside
  <1>4. b \in pool
    <2>1. nearest # {}
      <3> DEFINE distances == {far[p][l] : l \in pool}
      <3>1. distances \subseteq Nat /\ distances # {}
        BY <1>1, <1>3
      <3>2. PICK d \in distances : \A e \in distances : d <= e
        BY <3>1, MinOfNaturals
      <3> QED
        BY <3>2
    <2>2. nearest \subseteq Nat
      BY <1>3 DEF AreDistances
    <2>3. Min(nearest) \in nearest
      BY <2>1, <2>2, MinOfNaturals
    <2> QED
      BY <1>2, <2>3 DEF Best
  <1>5. far[p][b] <= reach /\ b \in labels
    BY <1>3, <1>4
  <1>6. IsFiniteSet(competing)
    BY FS_Subset DEF Parcels, AreDistances
  <1>7. ASSUME NEW q \in DOMAIN far \ {p} PROVE far[q][b] > reach
    <2>0. far[q][b] \in Nat /\ reach \in Nat
      BY <1>5 DEF AreDistances
    <2> HIDE DEF reach
    <2>1. SUFFICES ASSUME far[q][b] <= reach PROVE FALSE
      BY <2>0
    <2>2. p \in competing /\ q \in competing
      BY <1>2, <1>5, <2>1 DEF Parcels
    <2> QED
      BY <1>2, <1>6, <2>2, DifferAreSeveral
  <1>8. far[p][b] <= near /\ (Inside(far, p) # {} => far[p][b] = 0)
    BY <1>1, <1>5
  <1> QED
    BY <1>2, <1>5, <1>7, <1>8

\* A label names one parcel: another is not named by it, and does not hold it,
\* whatever the texts and the distances are (bind_survey_labels).
THEOREM LabelsNameOne ==
    ASSUME NEW far, NEW labels, AreDistances(far, labels), NEW text, NEW near \in Nat,
           NEW p \in DOMAIN far, NEW q \in DOMAIN far \ {p},
           BindSurveyLabel(far, text, p, near).label # 0
    PROVE  LET b == BindSurveyLabel(far, text, p, near).label
           IN BindSurveyLabel(far, text, q, near).label # b /\ far[q][b] # 0
  <1> DEFINE b == BindSurveyLabel(far, text, p, near).label
  <1> SUFFICES BindSurveyLabel(far, text, q, near).label # b /\ far[q][b] # 0
    OBVIOUS
  <1>0. b = BindSurveyLabel(far, text, p, near).label /\ b # 0
    OBVIOUS
  <1> HIDE DEF b
  <1>1. /\ b \in labels /\ far[p][b] <= near /\ (Inside(far, p) # {} => far[p][b] = 0)
        /\ far[q][b] > (IF Inside(far, p) # {} THEN 0 ELSE near)
    BY <1>0, NamesAreNear
  <1>2. far[p][b] \in Nat /\ far[q][b] \in Nat
    BY <1>1 DEF AreDistances
  <1>3. ASSUME BindSurveyLabel(far, text, q, near).label = b PROVE FALSE
    <2>1. q \in DOMAIN far /\ p \in DOMAIN far \ {q}
      OBVIOUS
    <2>2. /\ far[q][b] <= near /\ (Inside(far, q) # {} => far[q][b] = 0)
          /\ far[p][b] > (IF Inside(far, q) # {} THEN 0 ELSE near)
      BY <1>0, <1>3, <2>1, NamesAreNear
    <2> QED
      BY <1>1, <1>2, <2>2
  <1> QED
    BY <1>1, <1>2, <1>3

------------------------------------------------------------------------------
(* What always holds of what is judged.                                      *)

\* What is judged is an input as InputsAssumption has it.
Judged ==
    /\ case.kind = "page" => IsSequence(case.page.regions)
    /\ case.kind = "record" => IsRecord(case)
    /\ case.kind = "owners" => IsColumn(case)
    /\ case.kind = "table" => IsTable(case)
    /\ case.kind = "stroke" => IsDrawn(case)
    /\ case.kind = "labels" => IsLabelled(case)
    /\ case.kind = "features" => IsEncodable(case)
    /\ case.kind = "predictions" => IsPredicted(case)

\* Every input that is ever judged is one InputsAssumption allows.
LEMMA JudgedInvariance ==
    CaseSpec => []Judged
  <1>1. CaseInit => Judged
    <2>1. CASE case = OnRamp
      BY <2>1 DEF OnRamp, Judged
    <2>2. CASE case = InSession
      BY <2>2 DEF InSession, Judged
    <2>3. ASSUME NEW kind \in DOMAIN Inputs, case \in Inputs[kind] PROVE Judged
      BY <2>3, InputsAssumption DEF Judged
    <2> QED
      BY <2>1, <2>2, <2>3 DEF CaseInit
  <1>2. Judged /\ [CaseNext]_case => Judged'
    <2>1. ASSUME NEW e \in Evidence, Evaluate(e), Judged PROVE Judged'
      <3>1. case'.kind = case.kind /\ case.kind = "ramp"
        BY <2>1 DEF Evaluate
      <3> QED
        BY <3>1 DEF Judged
    <2>2. ASSUME NEW statement \in Statement, Run(statement) PROVE Judged'
      <3>1. case'.kind = "session"
        BY <2>2 DEF Run
      <3> QED
        BY <3>1 DEF Judged
    <2>3. ASSUME Judged, UNCHANGED case PROVE Judged'
      BY <2>3 DEF Judged, IsRecord, IsColumn, IsTable, IsDrawn,
                  IsLabelled, IsEncodable, IsPredicted
    <2> QED
      BY <2>1, <2>2, <2>3 DEF CaseNext
  <1> QED
    BY <1>1, <1>2, PTL DEF CaseSpec

\* ReadingsReachTheRecord always holds: what is read of a page is what its regions
\* are routed to, and reaches the record, in order, with its conflicts.
THEOREM ReadingsReach ==
    CaseSpec => []ReadingsReachTheRecord
  <1>1. Judged => PageIsRead
    BY PagesAreRead DEF Judged, PageIsRead
  <1>2. Judged => AssemblyIsSound
    BY RecordsAreAssembled DEF Judged, AssemblyIsSound
  <1>3. Judged => ReadingsReachTheRecord
    BY <1>1, <1>2 DEF ReadingsReachTheRecord
  <1> QED
    BY <1>3, JudgedInvariance, PTL

\* LayoutIsKept always holds: no owner and no token is lost between two parcels,
\* rows or columns.
THEOREM LayoutKept ==
    CaseSpec => []LayoutIsKept
  <1>1. Judged => OwnersArePlaced
    BY OwnersHavePlaces DEF Judged, OwnersArePlaced
  <1>2. Judged => TokensAreKept
    BY TokensHaveCells DEF Judged, TokensAreKept
  <1>3. Judged => LayoutIsKept
    BY <1>1, <1>2 DEF LayoutIsKept
  <1> QED
    BY <1>3, JudgedInvariance, PTL

\* CalibratorIsSound always holds: no page on both sides of a split, no weight
\* under another name, and no error hidden by the bins.
THEOREM SoundCalibrator ==
    CaseSpec => []CalibratorIsSound
  <1>1. Judged => PagesIsolated
    BY PagesAreIsolated DEF Judged, PagesIsolated
  <1>2. Judged => FeaturesAreNamed
    BY FeaturesSpeak DEF Judged
  <1>3. Judged => ErrorsAreCounted
    BY ErrorsCount DEF Judged, ErrorsAreCounted
  <1>4. Judged => CalibratorIsSound
    BY <1>1, <1>2, <1>3 DEF CalibratorIsSound
  <1> QED
    BY <1>4, JudgedInvariance, PTL

\* StrikeNeverMissed always holds: a stroke that touches the box of a value cancels
\* it or leaves it unknown, and no other stroke does (strikethrough.py).
THEOREM StrikesAreFound ==
    CaseSpec => []StrikeNeverMissed
  <1>1. Judged => StrikeNeverMissed
    <2>1. CASE case.kind = "stroke"
      BY <2>1, StrokesAreFound DEF Judged
    <2>2. CASE case.kind # "stroke"
      BY <2>2 DEF StrikeNeverMissed
    <2> QED
      BY <2>1, <2>2
  <1> QED
    BY <1>1, JudgedInvariance, PTL
==============================================================================
