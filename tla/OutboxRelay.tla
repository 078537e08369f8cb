----------------------------- MODULE OutboxRelay -----------------------------
(***************************************************************************)
(* The transactional outbox (landoutbox): writers that add an              *)
(* outbox_message row in the transaction of their domain write, and relay  *)
(* processes (backend.workers.runner.RelayRunner around Relay.drain_once)  *)
(* that publish committed rows to the broker and mark them dispatched.     *)
(*                                                                         *)
(* A row is the position of its created_at among all rows.  Rows are locked *)
(* one by one, as FOR UPDATE SKIP LOCKED does under READ COMMITTED: from a  *)
(* snapshot of undispatched rows, skipping locked ones and looking again at *)
(* the others.                                                             *)
(***************************************************************************)
EXTENDS Naturals, Sequences, FiniteSets

CONSTANTS
    Relay,          (* relay processes                                     *)
    MaxRows,        (* bound: rows ever written                            *)
    BatchSize,      (* queue_policy relay_batch_size                       *)
    MaxFaults       (* bound: failed calls, kills and stops                *)

ASSUME OutboxAssumption ==
    /\ MaxRows \in Nat
    /\ BatchSize \in Nat \ {0}
    /\ MaxFaults \in Nat

VARIABLES
    txn,            (* the writing transaction of each row                 *)
    dispatched,     (* rows with dispatched = TRUE, committed              *)
    stream,         (* what the broker holds, in order of publication      *)
    pc,             (* where each relay is in drain_once                   *)
    todo,           (* the snapshot of a relay's SELECT not yet looked at  *)
    locked,         (* the row locks of a relay's transaction, oldest first *)
    published,      (* how many of these it has published and marked       *)
    faults          (* faults so far                                       *)

db == <<txn, dispatched>>
relay == <<pc, todo, locked, published>>
vars == <<db, stream, relay, faults>>

Row == 1..MaxRows
PC == {"idle", "select", "publish", "down"}

LockedBy(r) == {locked[r][i] : i \in DOMAIN locked[r]}
Locked == UNION {LockedBy(r) : r \in Relay}
Copies(e) == Cardinality({i \in DOMAIN stream : stream[i] = e})

Fault == faults < MaxFaults /\ faults' = faults + 1

------------------------------------------------------------------------------
(* The writer: write() flushes, and the caller commits or rolls back both    *)
(* rows together.                                                            *)

Write(e) ==
    /\ txn[e] = "none"
    /\ txn' = [txn EXCEPT ![e] = "open"]
    /\ UNCHANGED <<dispatched, stream, relay, faults>>

Commit(e) ==
    /\ txn[e] = "open"
    /\ txn' = [txn EXCEPT ![e] = "committed"]
    /\ UNCHANGED <<dispatched, stream, relay, faults>>

Rollback(e) ==
    /\ txn[e] = "open"
    /\ txn' = [txn EXCEPT ![e] = "aborted"]
    /\ UNCHANGED <<dispatched, stream, relay, faults>>

------------------------------------------------------------------------------
(* Relay.drain_once.                                                         *)

Goto(r, label) == pc' = [pc EXCEPT ![r] = label]

\* The transaction is over: its locks are gone.
EndTransaction(r, label) ==
    /\ Goto(r, label)
    /\ todo' = [todo EXCEPT ![r] = {}]
    /\ locked' = [locked EXCEPT ![r] = <<>>]
    /\ published' = [published EXCEPT ![r] = 0]

\* Faulty variant: only rows younger than what was dispatched are looked for.
UndispatchedAfterLast(S) ==
    {e \in S : txn[e] = "committed" /\ \A d \in dispatched : d < e}

Undispatched(S) == {e \in S : txn[e] = "committed" /\ e \notin dispatched}

StartSelect(r) ==
    /\ pc[r] = "idle"
    /\ Goto(r, "select")
    /\ todo' = [todo EXCEPT ![r] = Undispatched(Row)]
    /\ UNCHANGED <<db, stream, locked, published, faults>>

\* Faulty variant: a plain SELECT, without FOR UPDATE SKIP LOCKED.
LockRowPlainSelect(r) ==
    /\ pc[r] = "select"
    /\ Len(locked[r]) < BatchSize
    /\ \E e \in todo[r] :
          /\ \A f \in todo[r] : e <= f
          /\ todo' = [todo EXCEPT ![r] = @ \ {e}]
          /\ locked' = [locked EXCEPT ![r] = Append(@, e)]
    /\ UNCHANGED <<db, stream, pc, published, faults>>

\* Faulty variant: a locked row is skipped, but a row that was dispatched since
\* the snapshot is not looked at again.
LockRowNoRecheck(r) ==
    /\ pc[r] = "select"
    /\ Len(locked[r]) < BatchSize
    /\ \E e \in todo[r] :
          /\ \A f \in todo[r] : e <= f
          /\ todo' = [todo EXCEPT ![r] = @ \ {e}]
          /\ locked' = IF e \in Locked THEN locked
                       ELSE [locked EXCEPT ![r] = Append(@, e)]
    /\ UNCHANGED <<db, stream, pc, published, faults>>

\* The next row of the snapshot: skipped when another transaction has it,
\* dropped when that one has committed in the meantime, locked otherwise.
LockRow(r) ==
    /\ pc[r] = "select"
    /\ Len(locked[r]) < BatchSize
    /\ \E e \in todo[r] :
          /\ \A f \in todo[r] : e <= f
          /\ todo' = [todo EXCEPT ![r] = @ \ {e}]
          /\ locked' = IF e \in Locked \cup dispatched THEN locked
                       ELSE [locked EXCEPT ![r] = Append(@, e)]
    /\ UNCHANGED <<db, stream, pc, published, faults>>

EndSelect(r) ==
    /\ pc[r] = "select"
    /\ Len(locked[r]) = BatchSize \/ todo[r] = {}
    /\ Goto(r, "publish")
    /\ todo' = [todo EXCEPT ![r] = {}]
    /\ UNCHANGED <<db, stream, locked, published, faults>>

NextRow(r) == locked[r][published[r] + 1]
SendEffect(r) == stream' = Append(stream, NextRow(r))

Publish(r) ==
    /\ pc[r] = "publish"
    /\ published[r] < Len(locked[r])
    /\ SendEffect(r)
    /\ published' = [published EXCEPT ![r] = @ + 1]
    /\ UNCHANGED <<db, pc, todo, locked, faults>>

CommitEffect(r) == dispatched' = dispatched \cup LockedBy(r)

\* Faulty variant: the marks of a batch that failed are kept.
PublishFailsKeepingMarks(r) ==
    /\ pc[r] = "publish"
    /\ published[r] < Len(locked[r])
    /\ SendEffect(r) \/ UNCHANGED stream
    /\ EndTransaction(r, "idle")
    /\ CommitEffect(r)
    /\ Fault
    /\ UNCHANGED txn

\* The broker could not be reached, or its answer was lost: the exception
\* leaves drain_once, and the session rolls the whole batch back.
PublishFails(r) ==
    /\ pc[r] = "publish"
    /\ published[r] < Len(locked[r])
    /\ SendEffect(r) \/ UNCHANGED stream
    /\ EndTransaction(r, "idle")
    /\ Fault
    /\ UNCHANGED db

CommitBatch(r) ==
    /\ pc[r] = "publish"
    /\ published[r] = Len(locked[r])
    /\ CommitEffect(r)
    /\ EndTransaction(r, "idle")
    /\ UNCHANGED <<txn, stream, faults>>

\* The commit raised, with or without having taken effect.
CommitBatchFails(r) ==
    /\ pc[r] = "publish"
    /\ published[r] = Len(locked[r])
    /\ CommitEffect(r) \/ UNCHANGED dispatched
    /\ EndTransaction(r, "idle")
    /\ Fault
    /\ UNCHANGED <<txn, stream>>

\* Killed at any point; or stopped by a signal, which run_loop sees between two
\* drains.
Down(r) ==
    /\ pc[r] # "down"
    /\ EndTransaction(r, "down")
    /\ Fault
    /\ UNCHANGED <<db, stream>>

Restart(r) ==
    /\ pc[r] = "down"
    /\ Goto(r, "idle")
    /\ UNCHANGED <<db, stream, todo, locked, published, faults>>

------------------------------------------------------------------------------
Init ==
    /\ txn = [e \in Row |-> "none"]
    /\ dispatched = {}
    /\ stream = <<>>
    /\ pc = [r \in Relay |-> "idle"]
    /\ todo = [r \in Relay |-> {}]
    /\ locked = [r \in Relay |-> <<>>]
    /\ published = [r \in Relay |-> 0]
    /\ faults = 0

Writer == \E e \in Row : Write(e) \/ Commit(e) \/ Rollback(e)

Drain(r) ==
    StartSelect(r) \/ LockRow(r) \/ EndSelect(r) \/ Publish(r) \/ CommitBatch(r)

Disturb(r) == PublishFails(r) \/ CommitBatchFails(r) \/ Down(r)

Next == Writer \/ \E r \in Relay : Drain(r) \/ Disturb(r) \/ Restart(r)

Spec == Init /\ [][Next]_vars

\* run_loop drains again after every answer and every exception; a relay that
\* is down is started again.
FairSpec == Spec /\ \A r \in Relay : WF_vars(Drain(r)) /\ WF_vars(Restart(r))

------------------------------------------------------------------------------
(* Properties.                                                               *)

TypeOK ==
    /\ txn \in [Row -> {"none", "open", "committed", "aborted"}]
    /\ dispatched \subseteq Row
    /\ stream \in Seq(Row)
    /\ pc \in [Relay -> PC]
    /\ todo \in [Relay -> SUBSET Row]
    /\ locked \in [Relay -> Seq(Row)]
    /\ published \in [Relay -> Nat]
    /\ \A r \in Relay : published[r] <= Len(locked[r])
    /\ faults \in 0..MaxFaults

\* ADR-005: nothing is announced that was not committed, whatever becomes of
\* the writing transaction.
OnlyCommittedRowsPublished ==
    \A i \in DOMAIN stream : txn[stream[i]] = "committed"

\* drain_once: no two relays hold the same row, and none holds a row that is
\* already dispatched.
BatchesDisjoint ==
    \A r \in Relay : \A i \in DOMAIN locked[r] :
        /\ locked[r][i] \notin dispatched
        /\ \A q \in Relay : \A j \in DOMAIN locked[q] :
              <<r, i>> # <<q, j>> => locked[r][i] # locked[q][j]

\* What the lock held through every publish is for: concurrent relays alone
\* never publish a row twice.  Every further copy is the trace of a fault.
CopiesNeedFaults == \A e \in Row : Copies(e) <= 1 + faults

\* The same promise as the broker's: a row may be published any number of
\* times until it is marked dispatched, is marked only when it was published,
\* and is never published after that.
Promise == INSTANCE AtLeastOnce WITH
    Entry   <- Row,
    handled <- {stream[i] : i \in DOMAIN stream},
    dead    <- {},
    audited <- {},
    settled <- dispatched

ImplementsAtLeastOnce == Promise!Spec

\* No committed row stays behind, whatever failed on the way.
EveryRowDispatched == \A e \in Row : (txn[e] = "committed") ~> (e \in dispatched)
==============================================================================
