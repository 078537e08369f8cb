-------------------------- MODULE OutboxRelayProofs --------------------------
(***************************************************************************)
(* Proofs about OutboxRelay, for any set of relays, any number of rows,    *)
(* any batch size and any number of faults.                                *)
(***************************************************************************)
EXTENDS OutboxRelay, SequenceTheorems, FiniteSetTheorems, TLAPS

\* The rows the broker holds.
Sent == {stream[i] : i \in DOMAIN stream}

(* The parts of the inductive invariant.                                     *)

\* A SELECT sees and locks committed rows only.
SnapshotCommitted == \A r \in Relay : \A e \in todo[r] : txn[e] = "committed"

LockedCommitted ==
    \A r \in Relay : \A i \in DOMAIN locked[r] : txn[locked[r][i]] = "committed"

\* What is marked, for good or in an open transaction, has been sent.
MarkedIsSent ==
    /\ dispatched \subseteq Sent
    /\ \A r \in Relay : \A i \in 1..published[r] : locked[r][i] \in Sent

IInv ==
    /\ TypeOK /\ SnapshotCommitted /\ LockedCommitted /\ MarkedIsSent
    /\ OnlyCommittedRowsPublished /\ BatchesDisjoint

------------------------------------------------------------------------------
(* What a step can be, and what each kind of step does.                      *)

Clears(r) ==
    /\ todo' = [todo EXCEPT ![r] = {}]
    /\ locked' = [locked EXCEPT ![r] = <<>>]
    /\ published' = [published EXCEPT ![r] = 0]

Sends(r) == published[r] < Len(locked[r]) /\ SendEffect(r)

\* No lock, mark or message changes.
Quiet == UNCHANGED <<dispatched, stream, locked, published, faults>>

Locks(r, e) ==
    /\ e \in todo[r] /\ e \notin Locked \cup dispatched
    /\ locked' = [locked EXCEPT ![r] = Append(@, e)]
    /\ UNCHANGED <<dispatched, stream, published, faults>>

Marks(r) ==
    /\ Sends(r)
    /\ published' = [published EXCEPT ![r] = @ + 1]
    /\ UNCHANGED <<dispatched, locked, faults>>

Aborts(r) ==
    /\ Clears(r)
    /\ Sends(r) \/ UNCHANGED stream
    /\ UNCHANGED dispatched
    /\ faults' = faults + 1

Commits(r) ==
    /\ Clears(r)
    /\ published[r] = Len(locked[r])
    /\ CommitEffect(r)
    /\ UNCHANGED stream
    /\ faults' \in {faults, faults + 1}

\* Every step is of one of these kinds.
LEMMA StepKinds ==
    ASSUME [Next]_vars
    PROVE  Quiet \/ \E r \in Relay : Marks(r) \/ Aborts(r) \/ Commits(r) \/ \E e \in todo[r] : Locks(r, e)
  <1>1. CASE UNCHANGED vars
    BY <1>1 DEF vars, db, relay, Quiet
  <1>2. ASSUME NEW e \in Row, Write(e) \/ Commit(e) \/ Rollback(e) PROVE Quiet
    BY <1>2 DEF Write, Commit, Rollback, relay, Quiet
  <1>3. ASSUME NEW r \in Relay, StartSelect(r) \/ EndSelect(r) \/ Restart(r) PROVE Quiet
    BY <1>3 DEF StartSelect, EndSelect, Restart, db, Quiet
  <1>4. ASSUME NEW r \in Relay, LockRow(r) PROVE Quiet \/ \E e \in todo[r] : Locks(r, e)
    <2>1. PICK e \in todo[r] :
              locked' = IF e \in Locked \cup dispatched THEN locked
                        ELSE [locked EXCEPT ![r] = Append(@, e)]
      BY <1>4 DEF LockRow
    <2>2. UNCHANGED <<dispatched, stream, published, faults>>
      BY <1>4 DEF LockRow, db
    <2> QED
      BY <2>1, <2>2 DEF Locks, Quiet
  <1>5. ASSUME NEW r \in Relay, Publish(r) PROVE Marks(r)
    BY <1>5 DEF Publish, Marks, Sends, db
  <1>6. ASSUME NEW r \in Relay, PublishFails(r) \/ Down(r) PROVE Aborts(r)
    BY <1>6 DEF PublishFails, Down, EndTransaction, Clears, Aborts, Sends, Fault, db
  <1>7. ASSUME NEW r \in Relay, CommitBatch(r) PROVE Commits(r)
    BY <1>7 DEF CommitBatch, EndTransaction, Clears, Commits
  <1>8. ASSUME NEW r \in Relay, CommitBatchFails(r) PROVE Commits(r) \/ Aborts(r)
    BY <1>8 DEF CommitBatchFails, EndTransaction, Clears, Commits, Aborts, Fault
  <1> QED
    BY <1>1, <1>2, <1>3, <1>4, <1>5, <1>6, <1>7, <1>8 DEF Next, Writer, Drain, Disturb

\* A committed row stays committed.
LEMMA CommittedStays ==
    ASSUME TypeOK, [Next]_vars, NEW e \in Row, txn[e] = "committed"
    PROVE  txn'[e] = "committed"
  <1>1. ASSUME NEW f \in Row, Write(f) \/ Commit(f) \/ Rollback(f) PROVE txn'[e] = "committed"
    BY <1>1 DEF TypeOK, Write, Commit, Rollback
  <1>2. ASSUME NEW r \in Relay, Drain(r) \/ Disturb(r) \/ Restart(r) PROVE UNCHANGED txn
    BY <1>2 DEF Drain, Disturb, Restart, StartSelect, LockRow, EndSelect, Publish, CommitBatch,
                PublishFails, CommitBatchFails, Down, db
  <1> QED
    BY <1>1, <1>2 DEF Next, Writer, vars, db

\* What a relay has still to look at was there, or is committed.
LEMMA SnapshotStep ==
    ASSUME TypeOK, [Next]_vars, NEW q \in Relay, NEW e \in todo'[q]
    PROVE  e \in Row /\ (e \in todo[q] \/ txn[e] = "committed")
  <1>0. todo \in [Relay -> SUBSET Row]
    BY DEF TypeOK
  <1>1. CASE UNCHANGED todo
    BY <1>0, <1>1
  <1>2. ASSUME NEW r \in Relay, StartSelect(r) PROVE e \in Row /\ (e \in todo[q] \/ txn[e] = "committed")
    BY <1>0, <1>2 DEF StartSelect, Undispatched
  <1>3. ASSUME NEW r \in Relay,
               \/ todo' = [todo EXCEPT ![r] = {}]
               \/ \E f : todo' = [todo EXCEPT ![r] = @ \ {f}]
        PROVE  e \in Row /\ e \in todo[q]
    BY <1>0, <1>3
  <1>4. ASSUME NEW r \in Relay, Drain(r) \/ Disturb(r) \/ Restart(r), ~StartSelect(r)
        PROVE  \/ UNCHANGED todo
               \/ todo' = [todo EXCEPT ![r] = {}]
               \/ \E f : todo' = [todo EXCEPT ![r] = @ \ {f}]
    BY <1>4 DEF Drain, Disturb, Restart, LockRow, EndSelect, Publish, CommitBatch,
                PublishFails, CommitBatchFails, Down, EndTransaction
  <1>5. Writer => UNCHANGED todo
    BY DEF Writer, Write, Commit, Rollback, relay
  <1> QED
    BY <1>1, <1>2, <1>3, <1>4, <1>5 DEF Next, vars, relay

------------------------------------------------------------------------------
(* Type correctness.                                                         *)

\* The row a relay publishes next is one of the rows.
LEMMA NextRowType ==
    ASSUME TypeOK, NEW r \in Relay, published[r] < Len(locked[r])
    PROVE  /\ published[r] + 1 \in DOMAIN locked[r]
           /\ NextRow(r) = locked[r][published[r] + 1]
           /\ NextRow(r) \in Row
  <1>1. locked[r] \in Seq(Row) /\ published[r] \in Nat
    BY DEF TypeOK
  <1>2. published[r] + 1 \in 1..Len(locked[r])
    BY <1>1, LenProperties
  <1> QED
    BY <1>1, <1>2, ElementOfSeq, LenProperties DEF NextRow

\* A send keeps the stream a sequence of rows.
LEMMA StreamType ==
    ASSUME TypeOK, NEW r \in Relay, Sends(r)
    PROVE  /\ stream' \in Seq(Row)
           /\ Len(stream) \in Nat /\ DOMAIN stream = 1..Len(stream)
           /\ DOMAIN stream' = 1..(Len(stream) + 1)
           /\ \A i \in DOMAIN stream : stream'[i] = stream[i]
           /\ stream'[Len(stream) + 1] = NextRow(r)
  <1>1. stream \in Seq(Row) /\ NextRow(r) \in Row /\ stream' = Append(stream, NextRow(r))
    BY NextRowType DEF TypeOK, Sends, SendEffect
  <1>2. Len(stream') = Len(stream) + 1 /\ stream' \in Seq(Row)
    BY <1>1, AppendProperties
  <1> QED
    BY <1>1, <1>2, AppendProperties, LenProperties

\* A lock adds the row at the end of a relay's batch.
LEMMA LockedStep ==
    ASSUME TypeOK, NEW r \in Relay, NEW e \in todo[r], Locks(r, e)
    PROVE  /\ locked' \in [Relay -> Seq(Row)] /\ e \in Row
           /\ Len(locked[r]) \in Nat /\ DOMAIN locked[r] = 1..Len(locked[r])
           /\ DOMAIN locked'[r] = 1..(Len(locked[r]) + 1)
           /\ Len(locked'[r]) = Len(locked[r]) + 1
           /\ \A i \in DOMAIN locked[r] : locked'[r][i] = locked[r][i]
           /\ locked'[r][Len(locked[r]) + 1] = e
           /\ \A q \in Relay \ {r} : locked'[q] = locked[q]
  <1>1. locked \in [Relay -> Seq(Row)] /\ locked[r] \in Seq(Row) /\ e \in Row
    BY DEF TypeOK
  <1>2. locked'[r] = Append(locked[r], e) /\ \A q \in Relay \ {r} : locked'[q] = locked[q]
    BY <1>1 DEF Locks
  <1>3. locked'[r] \in Seq(Row) /\ Len(locked'[r]) = Len(locked[r]) + 1
    BY <1>1, <1>2, AppendProperties
  <1>4. locked' \in [Relay -> Seq(Row)]
    BY <1>1, <1>2, <1>3 DEF Locks
  <1> QED
    BY <1>1, <1>2, <1>3, <1>4, AppendProperties, LenProperties

\* Every step keeps every variable in its type.
LEMMA TypeStep == TypeOK /\ [Next]_vars => TypeOK'
  <1> SUFFICES ASSUME TypeOK, [Next]_vars PROVE TypeOK'
    OBVIOUS
  <1>0. /\ txn \in [Row -> {"none", "open", "committed", "aborted"}]
        /\ dispatched \subseteq Row
        /\ stream \in Seq(Row)
        /\ pc \in [Relay -> PC]
        /\ todo \in [Relay -> SUBSET Row]
        /\ locked \in [Relay -> Seq(Row)]
        /\ published \in [Relay -> Nat]
        /\ \A r \in Relay : published[r] <= Len(locked[r])
        /\ faults \in 0..MaxFaults /\ MaxFaults \in Nat
    BY OutboxAssumption DEF TypeOK
  <1>1. txn' \in [Row -> {"none", "open", "committed", "aborted"}]
    <2>1. Writer => txn' \in [Row -> {"none", "open", "committed", "aborted"}]
      BY <1>0 DEF Writer, Write, Commit, Rollback
    <2>2. ~Writer => UNCHANGED txn
      BY DEF Next, vars, db, Drain, Disturb, Restart, StartSelect, LockRow, EndSelect, Publish,
             CommitBatch, PublishFails, CommitBatchFails, Down
    <2> QED
      BY <1>0, <2>1, <2>2
  <1>2. pc' \in [Relay -> PC]
    <2>1. ASSUME NEW r \in Relay, NEW label \in PC, Goto(r, label) PROVE pc' \in [Relay -> PC]
      BY <1>0, <2>1 DEF Goto
    <2>2. {"idle", "select", "publish", "down"} = PC
      BY DEF PC
    <2>3. ASSUME NEW r \in Relay, Drain(r) \/ Disturb(r) \/ Restart(r)
          PROVE  UNCHANGED pc \/ \E label \in PC : Goto(r, label)
      BY <2>2, <2>3 DEF Drain, Disturb, Restart, StartSelect, LockRow, EndSelect, Publish,
                CommitBatch, PublishFails, CommitBatchFails, Down, EndTransaction
    <2>4. Writer \/ UNCHANGED vars => UNCHANGED pc
      BY DEF Writer, Write, Commit, Rollback, relay, vars
    <2> QED
      BY <1>0, <2>1, <2>3, <2>4 DEF Next
  <1>3. faults' \in 0..MaxFaults
    <2>1. UNCHANGED faults \/ Fault
      BY DEF Next, vars, Writer, Write, Commit, Rollback, Drain, Disturb, Restart, StartSelect,
             LockRow, EndSelect, Publish, CommitBatch, PublishFails, CommitBatchFails, Down
    <2> QED
      BY <1>0, <2>1 DEF Fault
  <1>4. todo' \in [Relay -> SUBSET Row]
    <2>1. ASSUME NEW r \in Relay, Drain(r) \/ Disturb(r) \/ Restart(r)
          PROVE  todo' \in [Relay -> SUBSET Row]
      BY <1>0, <2>1 DEF Drain, Disturb, Restart, StartSelect, LockRow, EndSelect, Publish, relay,
            CommitBatch, PublishFails, CommitBatchFails, Down, EndTransaction, Undispatched
    <2>2. Writer \/ UNCHANGED vars => UNCHANGED todo
      BY DEF Writer, Write, Commit, Rollback, relay, vars
    <2> QED
      BY <1>0, <2>1, <2>2 DEF Next
  <1>5. \A r \in Relay : Len(locked[r]) \in Nat
    BY <1>0, LenProperties
  <1>6. /\ dispatched' \subseteq Row
        /\ stream' \in Seq(Row)
        /\ locked' \in [Relay -> Seq(Row)]
        /\ published' \in [Relay -> Nat]
        /\ \A r \in Relay : published'[r] <= Len(locked'[r])
    <2> DEFINE Goal == /\ dispatched' \subseteq Row
                       /\ stream' \in Seq(Row)
                       /\ locked' \in [Relay -> Seq(Row)]
                       /\ published' \in [Relay -> Nat]
                       /\ \A r \in Relay : published'[r] <= Len(locked'[r])
    <2>1. CASE Quiet
      BY <1>0, <2>1 DEF Quiet
    <2>2. ASSUME NEW r \in Relay, NEW e \in todo[r], Locks(r, e)
          PROVE  Goal
      <3>1. ASSUME NEW q \in Relay PROVE published[q] <= Len(locked'[q])
        <4>1. published[q] \in Nat /\ Len(locked[q]) \in Nat /\ published[q] <= Len(locked[q])
          BY <1>0, <1>5
        <4>2. IF q = r THEN Len(locked'[q]) = Len(locked[q]) + 1 ELSE locked'[q] = locked[q]
          BY <2>2, LockedStep
        <4> QED
          BY <4>1, <4>2
      <3> QED
        BY <1>0, <2>2, <3>1, LockedStep DEF Locks
    <2>3. ASSUME NEW r \in Relay, Marks(r)
          PROVE  Goal
      <3>1. published[r] < Len(locked[r])
        BY <2>3 DEF Marks, Sends
      <3>2. \A q \in Relay : published'[q] = IF q = r THEN published[r] + 1 ELSE published[q]
        BY <1>0, <2>3 DEF Marks
      <3>3. ASSUME NEW q \in Relay PROVE published'[q] <= Len(locked[q])
        <4>1. published[q] \in Nat /\ Len(locked[q]) \in Nat /\ published[q] <= Len(locked[q])
          BY <1>0, <1>5
        <4> QED
          BY <3>1, <3>2, <4>1
      <3>4. published' \in [Relay -> Nat]
        BY <1>0, <2>3 DEF Marks
      <3> QED
        BY <1>0, <2>3, <3>3, <3>4, StreamType DEF Marks
    <2>4. ASSUME NEW r \in Relay, Aborts(r) \/ Commits(r)
          PROVE  Goal
      <3>1. Clears(r)
        BY <2>4 DEF Aborts, Commits
      <3>2. stream' \in Seq(Row)
        BY <1>0, <2>4, StreamType DEF Aborts, Commits
      <3>3. dispatched' \subseteq Row
        <4>1. LockedBy(r) \subseteq Row
          BY <1>0, LenProperties, ElementOfSeq DEF LockedBy
        <4> QED
          BY <1>0, <2>4, <4>1 DEF Aborts, Commits, CommitEffect
      <3>4. <<>> \in Seq(Row) /\ Len(<<>>) = 0
        OBVIOUS
      <3>5. locked' \in [Relay -> Seq(Row)] /\ published' \in [Relay -> Nat]
        BY <1>0, <3>1, <3>4 DEF Clears
      <3>6. \A q \in Relay : published'[q] <= Len(locked'[q])
        <4>1. \A q \in Relay : published'[q] = IF q = r THEN 0 ELSE published[q]
          BY <1>0, <3>1 DEF Clears
        <4>2. \A q \in Relay : locked'[q] = IF q = r THEN <<>> ELSE locked[q]
          BY <1>0, <3>1 DEF Clears
        <4> QED
          BY <1>0, <1>5, <3>4, <4>1, <4>2
      <3> QED
        BY <3>2, <3>3, <3>5, <3>6
    <2> QED
      BY <2>1, <2>2, <2>3, <2>4, StepKinds
  <1> QED
    BY <1>0, <1>1, <1>2, <1>3, <1>4, <1>6 DEF TypeOK

------------------------------------------------------------------------------
(* What is sent, seen and locked is committed.                               *)

\* What a send adds to the rows the broker holds.
LEMMA SentGrows ==
    ASSUME TypeOK, NEW r \in Relay, Sends(r)
    PROVE  Sent' = Sent \cup {NextRow(r)}
  <1>1. /\ Len(stream) \in Nat /\ DOMAIN stream = 1..Len(stream)
        /\ DOMAIN stream' = 1..(Len(stream) + 1)
        /\ \A i \in DOMAIN stream : stream'[i] = stream[i]
        /\ stream'[Len(stream) + 1] = NextRow(r)
    BY StreamType
  <1>2. \A i \in DOMAIN stream' : i \in DOMAIN stream \/ i = Len(stream) + 1
    BY <1>1
  <1>3. DOMAIN stream \subseteq DOMAIN stream' /\ Len(stream) + 1 \in DOMAIN stream'
    BY <1>1
  <1> QED
    BY <1>1, <1>2, <1>3 DEF Sent

\* The end of a transaction leaves nothing locked or marked by it.
LEMMA ClearedStep ==
    ASSUME TypeOK, NEW r \in Relay, Clears(r), NEW q \in Relay
    PROVE  /\ locked'[q] = IF q = r THEN <<>> ELSE locked[q]
           /\ published'[q] = IF q = r THEN 0 ELSE published[q]
           /\ \A i \in DOMAIN locked'[q] : q # r /\ i \in DOMAIN locked[q] /\ locked'[q][i] = locked[q][i]
  BY DEF TypeOK, Clears

\* Snapshots, locks and messages stay those of committed rows.
LEMMA CommittedStep ==
    ASSUME TypeOK, SnapshotCommitted, LockedCommitted, OnlyCommittedRowsPublished, [Next]_vars
    PROVE  SnapshotCommitted' /\ LockedCommitted' /\ OnlyCommittedRowsPublished'
  <1>0. /\ \A e \in Row : txn[e] = "committed" => txn'[e] = "committed"
        /\ todo \in [Relay -> SUBSET Row]
        /\ \A q \in Relay : \A i \in DOMAIN locked[q] : locked[q][i] \in Row
        /\ \A i \in DOMAIN stream : stream[i] \in Row
    BY CommittedStays, LenProperties, ElementOfSeq DEF TypeOK
  <1>1. SnapshotCommitted'
    BY <1>0, SnapshotStep DEF SnapshotCommitted
  <1>2. LockedCommitted'
    <2> SUFFICES ASSUME NEW q \in Relay, NEW i \in DOMAIN locked'[q]
                 PROVE  txn'[locked'[q][i]] = "committed"
      BY DEF LockedCommitted
    <2>1. CASE UNCHANGED locked
      BY <1>0, <2>1 DEF LockedCommitted
    <2>2. ASSUME NEW r \in Relay, NEW e \in todo[r], Locks(r, e)
          PROVE  txn'[locked'[q][i]] = "committed"
      <3>1. txn'[e] = "committed"
        BY <1>0 DEF SnapshotCommitted
      <3>2. \/ i \in DOMAIN locked[q] /\ locked'[q][i] = locked[q][i]
            \/ locked'[q][i] = e
        BY <2>2, LockedStep
      <3> QED
        BY <1>0, <3>1, <3>2 DEF LockedCommitted
    <2>3. ASSUME NEW r \in Relay, Clears(r)
          PROVE  txn'[locked'[q][i]] = "committed"
      BY <1>0, <2>3, ClearedStep DEF LockedCommitted
    <2> QED
      BY <2>1, <2>2, <2>3, StepKinds DEF Quiet, Marks, Aborts, Commits
  <1>3. OnlyCommittedRowsPublished'
    <2>1. ASSUME NEW r \in Relay, Sends(r) PROVE OnlyCommittedRowsPublished'
      <3>1. txn[NextRow(r)] = "committed" /\ NextRow(r) \in Row
        BY <2>1, NextRowType DEF Sends, LockedCommitted
      <3>2. ASSUME NEW i \in DOMAIN stream'
            PROVE  stream'[i] = NextRow(r) \/ (i \in DOMAIN stream /\ stream'[i] = stream[i])
        BY <2>1, StreamType
      <3> QED
        BY <1>0, <3>1, <3>2 DEF OnlyCommittedRowsPublished
    <2>2. UNCHANGED stream => OnlyCommittedRowsPublished'
      BY <1>0 DEF OnlyCommittedRowsPublished
    <2> QED
      BY <2>1, <2>2, StepKinds DEF Quiet, Marks, Aborts, Commits, Locks
  <1> QED
    BY <1>1, <1>2, <1>3

------------------------------------------------------------------------------
(* The batches of two relays share nothing.                                  *)

\* A lock is taken only where no other is held.
LEMMA DisjointStep ==
    ASSUME TypeOK, BatchesDisjoint, [Next]_vars
    PROVE  BatchesDisjoint'
  <1> DEFINE Fresh(q, i) == locked[q][i] \notin dispatched
             Apart(q, i, p, j) == <<q, i>> # <<p, j>> => locked[q][i] # locked[p][j]
  <1>0. \A q, p \in Relay : \A i \in DOMAIN locked[q] : \A j \in DOMAIN locked[p] : Fresh(q, i) /\ Apart(q, i, p, j)
    BY DEF BatchesDisjoint
  <1> SUFFICES ASSUME NEW q \in Relay, NEW i \in DOMAIN locked'[q],
                      NEW p \in Relay, NEW j \in DOMAIN locked'[p]
               PROVE  Fresh(q, i)' /\ Apart(q, i, p, j)'
    <2>1. \A q1 \in Relay : \A i1 \in DOMAIN locked'[q1] :
             Fresh(q1, i1)' /\ \A p1 \in Relay : \A j1 \in DOMAIN locked'[p1] : Apart(q1, i1, p1, j1)'
      OBVIOUS
    <2> QED
      BY <2>1 DEF BatchesDisjoint
  <1>1. CASE UNCHANGED <<locked, dispatched>>
    BY <1>0, <1>1
  <1>2. ASSUME NEW r \in Relay, NEW e \in todo[r], Locks(r, e)
        PROVE  Fresh(q, i)' /\ Apart(q, i, p, j)'
    <2>1. e \notin dispatched /\ dispatched' = dispatched
      BY <1>2 DEF Locks
    <2>2. \A q1 \in Relay : \A i1 \in DOMAIN locked[q1] : locked[q1][i1] # e
      BY <1>2 DEF Locks, Locked, LockedBy
    <2>3. ASSUME NEW q1 \in Relay, NEW i1 \in DOMAIN locked'[q1]
          PROVE  \/ i1 \in DOMAIN locked[q1] /\ locked'[q1][i1] = locked[q1][i1]
                 \/ q1 = r /\ i1 = Len(locked[r]) + 1 /\ locked'[q1][i1] = e
      BY <1>2, LockedStep
    <2>4. Fresh(q, i)'
      BY <1>0, <2>1, <2>3
    <2>5. Apart(q, i, p, j)'
      <3>1. CASE i \in DOMAIN locked[q] /\ locked'[q][i] = locked[q][i]
        BY <1>0, <2>2, <2>3, <3>1
      <3>2. CASE q = r /\ i = Len(locked[r]) + 1 /\ locked'[q][i] = e
        BY <2>2, <2>3, <3>2
      <3> QED
        BY <2>3, <3>1, <3>2
    <2> QED
      BY <2>4, <2>5
  <1>3. ASSUME NEW r \in Relay, Clears(r), UNCHANGED dispatched \/ CommitEffect(r)
        PROVE  Fresh(q, i)' /\ Apart(q, i, p, j)'
    <2>1. /\ q # r /\ i \in DOMAIN locked[q] /\ locked'[q][i] = locked[q][i]
          /\ p # r /\ j \in DOMAIN locked[p] /\ locked'[p][j] = locked[p][j]
      BY <1>3, ClearedStep
    <2>2. locked[q][i] \notin LockedBy(r)
      <3>1. \A k \in DOMAIN locked[r] : Apart(q, i, r, k)
        BY <1>0, <2>1
      <3> QED
        BY <2>1, <3>1 DEF LockedBy
    <2> QED
      BY <1>0, <1>3, <2>1, <2>2 DEF CommitEffect
  <1> QED
    BY <1>1, <1>2, <1>3, StepKinds DEF Quiet, Marks, Aborts, Commits

------------------------------------------------------------------------------
(* What is marked has been sent.                                             *)

\* A row is marked only behind its send.
LEMMA MarkedStep ==
    ASSUME TypeOK, MarkedIsSent, [Next]_vars
    PROVE  MarkedIsSent'
  <1>0. /\ locked \in [Relay -> Seq(Row)] /\ published \in [Relay -> Nat]
        /\ \A q \in Relay : published[q] <= Len(locked[q]) /\ Len(locked[q]) \in Nat
        /\ \A q \in Relay : DOMAIN locked[q] = 1..Len(locked[q])
    BY LenProperties DEF TypeOK
  <1>1. Sent \subseteq Sent'
    <2>1. UNCHANGED stream => Sent' = Sent
      BY DEF Sent
    <2> QED
      BY <2>1, SentGrows, StepKinds DEF Quiet, Marks, Aborts, Commits, Locks
  <1>2. dispatched' \subseteq Sent'
    <2>1. ASSUME NEW r \in Relay, published[r] = Len(locked[r]), CommitEffect(r)
          PROVE  dispatched' \subseteq Sent'
      <3>1. LockedBy(r) \subseteq Sent
        BY <1>0, <2>1 DEF MarkedIsSent, LockedBy
      <3> QED
        BY <1>1, <2>1, <3>1 DEF MarkedIsSent, CommitEffect
    <2> QED
      BY <1>1, <2>1, StepKinds DEF MarkedIsSent, Quiet, Marks, Aborts, Commits, Locks
  <1>3. ASSUME NEW q \in Relay, NEW i \in 1..published'[q] PROVE locked'[q][i] \in Sent'
    <2>1. CASE UNCHANGED <<locked, published>>
      BY <1>1, <2>1 DEF MarkedIsSent
    <2>2. ASSUME NEW r \in Relay, NEW e \in todo[r], Locks(r, e)
          PROVE  locked'[q][i] \in Sent'
      <3>1. published' = published /\ i \in DOMAIN locked[q]
        BY <1>0, <2>2 DEF Locks
      <3>2. locked'[q][i] = locked[q][i]
        BY <2>2, <3>1, LockedStep
      <3> QED
        BY <1>1, <3>1, <3>2 DEF MarkedIsSent
    <2>3. ASSUME NEW r \in Relay, Marks(r)
          PROVE  locked'[q][i] \in Sent'
      <3>1. locked' = locked /\ published'[q] = IF q = r THEN published[r] + 1 ELSE published[q]
        BY <1>0, <2>3 DEF Marks
      <3>2. i \in 1..published[q] \/ (q = r /\ i = published[r] + 1)
        BY <1>0, <3>1
      <3>3. NextRow(r) \in Sent'
        BY <2>3, SentGrows DEF Marks
      <3> QED
        BY <1>1, <3>1, <3>2, <3>3 DEF MarkedIsSent, NextRow
    <2>4. ASSUME NEW r \in Relay, Clears(r)
          PROVE  locked'[q][i] \in Sent'
      <3>1. q # r /\ published'[q] = published[q] /\ locked'[q] = locked[q]
        BY <2>4, ClearedStep
      <3> QED
        BY <1>1, <3>1 DEF MarkedIsSent
    <2> QED
      BY <2>1, <2>2, <2>3, <2>4, StepKinds DEF Quiet, Aborts, Commits
  <1> QED
    BY <1>2, <1>3 DEF MarkedIsSent

------------------------------------------------------------------------------
(* The theorems.                                                             *)

\* The invariant always holds.
LEMMA IInvariant == Spec => []IInv
  <1>1. Init => IInv
    <2> SUFFICES ASSUME Init PROVE IInv
      OBVIOUS
    <2>1. TypeOK
      BY OutboxAssumption DEF Init, TypeOK, PC
    <2> QED
      BY <2>1 DEF Init, IInv, SnapshotCommitted, LockedCommitted, MarkedIsSent,
                  OnlyCommittedRowsPublished, BatchesDisjoint
  <1>2. IInv /\ [Next]_vars => IInv'
    BY TypeStep, CommittedStep, DisjointStep, MarkedStep DEF IInv
  <1> QED
    BY <1>1, <1>2, PTL DEF Spec

\* Type correctness of the outbox and its relays.
THEOREM TypeCorrect == Spec => []TypeOK
  <1>1. IInv => TypeOK
    BY DEF IInv
  <1> QED
    BY <1>1, IInvariant, PTL

\* Nothing is published whose transaction did not commit.
THEOREM OnlyCommitted == Spec => []OnlyCommittedRowsPublished
  <1>1. IInv => OnlyCommittedRowsPublished
    BY DEF IInv
  <1> QED
    BY <1>1, IInvariant, PTL

\* However many relays run, no two hold one row, and none a dispatched one.
THEOREM Disjoint == Spec => []BatchesDisjoint
  <1>1. IInv => BatchesDisjoint
    BY DEF IInv
  <1> QED
    BY <1>1, IInvariant, PTL

------------------------------------------------------------------------------
(* Duplicates are the trace of faults.                                       *)

\* The row is marked, for good or in an open transaction.
Marked(e) ==
    \/ e \in dispatched
    \/ \E r \in Relay : \E i \in 1..published[r] : locked[r][i] = e

\* One copy of a marked row is due to its mark; a fault is behind every other.
CopiesAccounted ==
    \A e \in Row : Copies(e) <= faults + (IF Marked(e) THEN 1 ELSE 0)

Occurrences(e) == {i \in DOMAIN stream : stream[i] = e}

\* What the count of copies is made of are natural numbers.
LEMMA CopiesType ==
    ASSUME TypeOK, NEW e \in Row
    PROVE  IsFiniteSet(Occurrences(e)) /\ Copies(e) \in Nat
  <1>1. DOMAIN stream = 1..Len(stream) /\ Len(stream) \in Nat
    BY LenProperties DEF TypeOK
  <1>2. IsFiniteSet(DOMAIN stream) /\ Occurrences(e) \subseteq DOMAIN stream
    BY <1>1, FS_Interval DEF Occurrences
  <1>3. IsFiniteSet(Occurrences(e))
    BY <1>2, FS_Subset
  <1> QED
    BY <1>3, FS_CardinalityType DEF Copies, Occurrences

\* A send adds one copy of the row, and none of another.
LEMMA CopiesGrow ==
    ASSUME TypeOK, NEW r \in Relay, Sends(r), NEW e \in Row
    PROVE  Copies(e)' = Copies(e) + (IF e = NextRow(r) THEN 1 ELSE 0)
  <1>1. /\ Len(stream) \in Nat /\ DOMAIN stream = 1..Len(stream)
        /\ DOMAIN stream' = 1..(Len(stream) + 1)
        /\ \A i \in DOMAIN stream : stream'[i] = stream[i]
        /\ stream'[Len(stream) + 1] = NextRow(r)
    BY StreamType
  <1>2. Occurrences(e)' = IF e = NextRow(r) THEN Occurrences(e) \cup {Len(stream) + 1} ELSE Occurrences(e)
    <2>1. \A i \in DOMAIN stream' : i \in DOMAIN stream \/ i = Len(stream) + 1
      BY <1>1
    <2>2. DOMAIN stream \subseteq DOMAIN stream' /\ Len(stream) + 1 \in DOMAIN stream'
      BY <1>1
    <2> QED
      BY <1>1, <2>1, <2>2 DEF Occurrences
  <1>3. Len(stream) + 1 \notin Occurrences(e) /\ IsFiniteSet(Occurrences(e)) /\ Copies(e) \in Nat
    BY <1>1, CopiesType DEF Occurrences
  <1>4. Cardinality(Occurrences(e) \cup {Len(stream) + 1}) = Cardinality(Occurrences(e)) + 1
    BY <1>3, FS_AddElement
  <1>5. Copies(e) = Cardinality(Occurrences(e)) /\ Copies(e)' = Cardinality(Occurrences(e)')
    BY DEF Copies, Occurrences
  <1> QED
    BY <1>2, <1>3, <1>4, <1>5

\* The row about to be published is not marked.
LEMMA NextUnmarked ==
    ASSUME TypeOK, BatchesDisjoint, NEW r \in Relay, Sends(r)
    PROVE  ~Marked(NextRow(r))
  <1>1. /\ published[r] + 1 \in DOMAIN locked[r] /\ NextRow(r) = locked[r][published[r] + 1]
        /\ \A q \in Relay : DOMAIN locked[q] = 1..Len(locked[q]) /\ Len(locked[q]) \in Nat
        /\ \A q \in Relay : published[q] \in Nat /\ published[q] <= Len(locked[q])
    BY NextRowType, LenProperties DEF TypeOK, Sends
  <1>2. NextRow(r) \notin dispatched
    BY <1>1 DEF BatchesDisjoint
  <1>3. ASSUME NEW q \in Relay, NEW i \in 1..published[q] PROVE locked[q][i] # NextRow(r)
    <2>1. i \in DOMAIN locked[q] /\ i <= published[q]
      BY <1>1
    <2>2. <<q, i>> # <<r, published[r] + 1>>
      BY <1>1, <2>1
    <2> QED
      BY <1>1, <2>1, <2>2 DEF BatchesDisjoint
  <1> QED
    BY <1>2, <1>3 DEF Marked

\* A step adds no copy without marking its row or counting a fault.
LEMMA CopiesStep ==
    ASSUME IInv, CopiesAccounted, [Next]_vars
    PROVE  CopiesAccounted'
  <1>0. TypeOK /\ BatchesDisjoint /\ faults \in Nat
    BY OutboxAssumption DEF IInv, TypeOK
  <1>1. /\ locked \in [Relay -> Seq(Row)] /\ published \in [Relay -> Nat]
        /\ \A q \in Relay : published[q] <= Len(locked[q]) /\ Len(locked[q]) \in Nat
        /\ \A q \in Relay : DOMAIN locked[q] = 1..Len(locked[q])
    BY <1>0, LenProperties DEF TypeOK
  <1> SUFFICES ASSUME NEW e \in Row
               PROVE  Copies(e)' <= faults' + (IF Marked(e)' THEN 1 ELSE 0)
    BY DEF CopiesAccounted
  <1>2. Copies(e) \in Nat /\ Copies(e) <= faults + (IF Marked(e) THEN 1 ELSE 0)
    BY <1>0, CopiesType DEF CopiesAccounted
  <1>3. UNCHANGED stream => Copies(e)' = Copies(e)
    BY DEF Copies
  <1>4. CASE Quiet
    <2>1. Marked(e)' <=> Marked(e)
      BY <1>4 DEF Quiet, Marked
    <2> QED
      BY <1>2, <1>3, <1>4, <2>1 DEF Quiet
  <1>5. ASSUME NEW r \in Relay, NEW f \in todo[r], Locks(r, f)
        PROVE  Copies(e)' <= faults' + (IF Marked(e)' THEN 1 ELSE 0)
    <2>1. \A q \in Relay : \A i \in 1..published[q] : locked'[q][i] = locked[q][i]
      <3> SUFFICES ASSUME NEW q \in Relay, NEW i \in 1..published[q] PROVE locked'[q][i] = locked[q][i]
        OBVIOUS
      <3>1. i \in DOMAIN locked[q]
        BY <1>1
      <3> QED
        BY <1>0, <1>5, <3>1, LockedStep
    <2>2. UNCHANGED <<dispatched, stream, published, faults>>
      BY <1>5 DEF Locks
    <2>3. Marked(e)' <=> Marked(e)
      BY <2>1, <2>2 DEF Marked
    <2> QED
      BY <1>2, <1>3, <2>2, <2>3
  <1>6. ASSUME NEW r \in Relay, Marks(r)
        PROVE  Copies(e)' <= faults' + (IF Marked(e)' THEN 1 ELSE 0)
    <2>1. UNCHANGED <<dispatched, locked, faults>> /\ Sends(r)
          /\ published' = [published EXCEPT ![r] = @ + 1]
      BY <1>6 DEF Marks
    <2>2. \A q \in Relay : 1..published[q] \subseteq 1..published'[q]
      BY <1>1, <2>1
    <2>3. Marked(e) => Marked(e)'
      BY <2>1, <2>2 DEF Marked
    <2>4. CASE e = NextRow(r)
      <3>1. ~Marked(e) /\ Copies(e)' = Copies(e) + 1
        BY <1>0, <2>1, <2>4, NextUnmarked, CopiesGrow
      <3>2. Marked(e)'
        <4>1. published[r] + 1 \in 1..published'[r]
          BY <1>1, <2>1
        <4> QED
          BY <2>1, <2>4, <4>1 DEF Marked, NextRow
      <3> QED
        BY <1>0, <1>2, <2>1, <3>1, <3>2
    <2>5. CASE e # NextRow(r)
      <3>1. Copies(e)' = Copies(e)
        BY <1>0, <1>2, <2>1, <2>5, CopiesGrow
      <3> QED
        BY <1>0, <1>2, <2>1, <2>3, <3>1
    <2> QED
      BY <2>4, <2>5
  <1>7. ASSUME NEW r \in Relay, Aborts(r)
        PROVE  Copies(e)' <= faults' + (IF Marked(e)' THEN 1 ELSE 0)
    <2>1. UNCHANGED dispatched /\ faults' = faults + 1
      BY <1>7 DEF Aborts
    <2>2. Copies(e)' \in Nat /\ Copies(e)' <= faults + 1
      <3>1. CASE UNCHANGED stream
        BY <1>0, <1>2, <1>3, <3>1
      <3>2. CASE Sends(r) /\ e = NextRow(r)
        BY <1>0, <1>2, <3>2, NextUnmarked, CopiesGrow
      <3>3. CASE Sends(r) /\ e # NextRow(r)
        BY <1>0, <1>2, <3>3, CopiesGrow
      <3> QED
        BY <1>7, <3>1, <3>2, <3>3 DEF Aborts
    <2> QED
      BY <1>0, <2>1, <2>2
  <1>8. ASSUME NEW r \in Relay, Commits(r)
        PROVE  Copies(e)' <= faults' + (IF Marked(e)' THEN 1 ELSE 0)
    <2>1. /\ UNCHANGED stream /\ faults' \in {faults, faults + 1}
          /\ Clears(r) /\ published[r] = Len(locked[r])
          /\ dispatched' = dispatched \cup LockedBy(r)
      BY <1>8 DEF Commits, CommitEffect
    <2>2. Marked(e) => Marked(e)'
      <3>1. CASE e \in dispatched
        BY <2>1, <3>1 DEF Marked
      <3>2. ASSUME NEW q \in Relay, NEW i \in 1..published[q], locked[q][i] = e
            PROVE  Marked(e)'
        <4>1. CASE q = r
          BY <1>1, <2>1, <3>2, <4>1 DEF Marked, LockedBy
        <4>2. CASE q # r
          <5>1. published'[q] = published[q] /\ locked'[q] = locked[q]
            BY <1>0, <2>1, <4>2, ClearedStep
          <5> QED
            BY <3>2, <5>1 DEF Marked
        <4> QED
          BY <4>1, <4>2
      <3> QED
        BY <3>1, <3>2 DEF Marked
    <2> QED
      BY <1>0, <1>2, <1>3, <2>1, <2>2
  <1> QED
    BY <1>4, <1>5, <1>6, <1>7, <1>8, StepKinds

\* Concurrent relays alone publish no row twice.
THEOREM DuplicatesNeedFaults == Spec => []CopiesNeedFaults
  <1>1. Init => CopiesAccounted
    <2> SUFFICES ASSUME Init, NEW e \in Row PROVE Copies(e) <= faults + (IF Marked(e) THEN 1 ELSE 0)
      BY DEF CopiesAccounted
    <2>1. {i \in DOMAIN stream : stream[i] = e} = {} /\ faults = 0
      BY DEF Init
    <2>2. Copies(e) = 0
      BY <2>1, FS_EmptySet DEF Copies
    <2> QED
      BY <2>1, <2>2
  <1>2. IInv /\ CopiesAccounted /\ [Next]_vars => CopiesAccounted'
    BY CopiesStep
  <1>3. IInv /\ CopiesAccounted => CopiesNeedFaults
    <2> SUFFICES ASSUME IInv, CopiesAccounted, NEW e \in Row PROVE Copies(e) <= 1 + faults
      BY DEF CopiesNeedFaults
    <2>1. TypeOK /\ faults \in Nat
      BY OutboxAssumption DEF IInv, TypeOK
    <2>2. Copies(e) \in Nat
      BY <2>1, CopiesType
    <2> QED
      BY <2>1, <2>2 DEF CopiesAccounted
  <1> QED
    BY <1>1, <1>2, <1>3, IInvariant, PTL DEF Spec

------------------------------------------------------------------------------
(* The relay implements AtLeastOnce.                                         *)

\* Every step is a step of AtLeastOnce, or leaves its variables alone.
LEMMA PromiseStep ==
    ASSUME IInv, [Next]_vars
    PROVE  [Promise!Next]_(Promise!vars)
  <1>0. TypeOK /\ BatchesDisjoint /\ MarkedIsSent
    BY DEF IInv
  <1>1. ASSUME UNCHANGED dispatched, Sent' = Sent PROVE UNCHANGED Promise!vars
    BY <1>1 DEF Promise!vars, Sent
  <1>2. UNCHANGED stream => Sent' = Sent
    BY DEF Sent
  <1>3. ASSUME NEW r \in Relay, Sends(r), UNCHANGED dispatched
        PROVE  Promise!Handle(NextRow(r)) /\ NextRow(r) \in Row
    <2>1. NextRow(r) \in Row /\ NextRow(r) \notin dispatched
      BY <1>0, <1>3, NextRowType DEF Sends, BatchesDisjoint
    <2>2. Sent' = Sent \cup {NextRow(r)}
      BY <1>0, <1>3, SentGrows
    <2> QED
      BY <1>3, <2>1, <2>2 DEF Promise!Handle, Sent
  <1>4. ASSUME NEW r \in Relay, Commits(r)
        PROVE  Promise!Settle(LockedBy(r)) /\ LockedBy(r) \subseteq Row
    <2>1. \A i \in DOMAIN locked[r] : i \in 1..published[r] /\ locked[r][i] \in Row
      BY <1>0, <1>4, LenProperties, ElementOfSeq DEF Commits, TypeOK
    <2>2. LockedBy(r) \subseteq Sent /\ LockedBy(r) \subseteq Row
      BY <1>0, <2>1 DEF MarkedIsSent, LockedBy
    <2>3. Sent' = Sent /\ dispatched' = dispatched \cup LockedBy(r)
      BY <1>2, <1>4 DEF Commits, CommitEffect
    <2> QED
      BY <2>2, <2>3 DEF Promise!Settle, Sent
  <1>5. ASSUME NEW r \in Relay, Marks(r) \/ Aborts(r) \/ Commits(r)
        PROVE  UNCHANGED Promise!vars \/ Promise!Next
    <2>1. CASE Sends(r) /\ UNCHANGED dispatched
      BY <1>3, <2>1 DEF Promise!Next, Promise!Handle
    <2>2. CASE UNCHANGED <<stream, dispatched>>
      BY <1>1, <1>2, <2>2
    <2>3. CASE Commits(r)
      BY <1>4, <2>3 DEF Promise!Next, Promise!Settle
    <2> QED
      BY <1>5, <2>1, <2>2, <2>3 DEF Marks, Aborts
  <1> QED
    BY <1>1, <1>2, <1>5, StepKinds DEF Quiet, Locks

\* The relay implements the promise AtLeastOnce: a row is settled by being
\* marked dispatched, which is never undone, and is not published after that.
THEOREM RelayImplementsAtLeastOnce == Spec => ImplementsAtLeastOnce
  <1>1. Init => Promise!Init
    BY DEF Init, Promise!Init
  <1>2. IInv /\ [Next]_vars => [Promise!Next]_(Promise!vars)
    BY PromiseStep
  <1> QED
    BY <1>1, <1>2, IInvariant, PTL DEF Spec, ImplementsAtLeastOnce, Promise!Spec
==============================================================================
