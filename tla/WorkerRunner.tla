----------------------------- MODULE WorkerRunner ----------------------------
(***************************************************************************)
(* One queue of the backend, read by the worker processes of one consumer  *)
(* group: backend.workers.runner.WorkerRunner driving the Redis Streams    *)
(* driver of landqueue.                                                    *)
(*                                                                         *)
(* A message is the number of its stream entry: the runner hands its data  *)
(* to the handler unread.  The handler is any function that either commits *)
(* its transaction or raises.  Every call that leaves the process (broker  *)
(* command, database commit) can fail, with or without having taken        *)
(* effect; a process can be killed between any two of them.                *)
(***************************************************************************)
EXTENDS Naturals, Sequences, FiniteSets

CONSTANTS
    Worker,         (* worker processes of the group                       *)
    MaxEntries,     (* bound: entries ever added to the stream             *)
    MaxDeliveries,  (* queue.max_deliveries                                *)
    BatchCount,     (* queue.batch_count                                   *)
    MaxFaults,      (* bound: failed calls, kills and stop signals         *)
    RestartKeeps    (* can a restarted process keep its consumer name?  A  *)
                    (* set of Booleans: the name is <hostname>-<pid>       *)

ASSUME BoundsAssumption ==
    /\ MaxEntries \in Nat
    /\ MaxDeliveries \in Nat \ {0}
    /\ BatchCount \in Nat \ {0}
    /\ MaxFaults \in Nat
    /\ RestartKeeps \in SUBSET BOOLEAN

VARIABLES
    last,           (* id of the newest stream entry                       *)
    cursor,         (* the group's last-delivered id                       *)
    owner,          (* pending entries list: the consumer an entry is      *)
                    (* pending for, or NoOne                               *)
    deliveries,     (* times_delivered of each entry                       *)
    pc,             (* where each process is in run_once / _dead_letter    *)
    batch,          (* messages of the current batch not yet dealt with    *)
    stopping,       (* WorkerRunner._should_stop                           *)
    incarnation,    (* how often a process has changed its consumer name   *)
    committed,      (* entries for which a handler transaction committed   *)
    deadLetters,    (* copies of each entry on <QUEUE>.DLQ                 *)
    audits,         (* queue.dead_lettered audit entries for each entry    *)
    attempts,       (* history: how often the handler was started          *)
    faults          (* faults so far                                       *)

broker == <<last, cursor, owner, deliveries>>
process == <<pc, batch, stopping, incarnation>>
effects == <<committed, deadLetters, audits>>
vars == <<broker, process, effects, attempts, faults>>

Entry == 1..MaxEntries
Consumer == Worker \X Nat
NoOne == <<>>

\* The consumer name a process registers with the group.
Name(w) == <<w, incarnation[w]>>

PC == {"idle", "loop", "handling", "ack",
       "dlq_publish", "dlq_audit", "dlq_ack", "down"}

Current(w) == Head(batch[w])

\* The entry has left the group: delivered once and no longer pending.
Settled(e) == e <= cursor /\ owner[e] = NoOne

------------------------------------------------------------------------------
(* Faulty variants of definitions below, for showing that the properties     *)
(* notice them: pending entries shared by the group, pending entries never   *)
(* read again, the excess-delivery check left out, and off-by-one limits.    *)

SharedPending(w) == {e \in 1..cursor : owner[e] # NoOne}
ForgottenPending(w) == {e \in Entry : e > last}
UncheckedExceeds(e) == deliveries[e] > MaxDeliveries + MaxFaults
EarlyExhausted(e) == deliveries[e] + 1 >= MaxDeliveries

------------------------------------------------------------------------------
(* The broker: RedisStreamsQueue over one consumer group.                    *)

\* XREADGROUP with id 0 answers from the caller's own pending list only.
OwnPending(w) == {e \in 1..cursor : owner[e] = Name(w)}

Unread == {e \in 1..last : e > cursor}

\* The list s is what one read of at most BatchCount entries of S returns:
\* the oldest entries, in order.
IsRead(s, S) ==
    /\ Len(s) <= BatchCount
    /\ \A i, j \in DOMAIN s : i < j => s[i] < s[j]
    /\ \A i \in DOMAIN s : s[i] \in S
    /\ \/ Len(s) = BatchCount
       \/ \A e \in S : \E i \in DOMAIN s : s[i] = e
    /\ \A e \in S : (\E i \in DOMAIN s : s[i] = e) \/ (\A i \in DOMAIN s : s[i] < e)

\* Pending entries first; only when there are none, new ones.
Readable(w) == IF OwnPending(w) # {} THEN OwnPending(w) ELSE Unread

\* What a read does at the broker: every entry returned is pending for the
\* reader, and its delivery count goes up, read for the first time or again.
Deliver(w, s) ==
    /\ owner' = [e \in Entry |-> IF \E i \in DOMAIN s : s[i] = e THEN Name(w) ELSE owner[e]]
    /\ deliveries' = [e \in Entry |-> deliveries[e] +
                         (IF \E i \in DOMAIN s : s[i] = e THEN 1 ELSE 0)]
    /\ cursor' = IF s[Len(s)] > cursor THEN s[Len(s)] ELSE cursor
    /\ UNCHANGED last

Reads(w) == UNION {[1..n -> Readable(w)] : n \in 1..BatchCount}

Acknowledge(e) ==
    /\ owner' = [owner EXCEPT ![e] = NoOne]
    /\ UNCHANGED <<last, cursor, deliveries>>

\* Another part of the system adds an entry to the stream (XADD).
Publish ==
    /\ last < MaxEntries
    /\ last' = last + 1
    /\ UNCHANGED <<cursor, owner, deliveries, process, effects, attempts, faults>>

------------------------------------------------------------------------------
(* The runner.                                                               *)

Exceeds(e) == deliveries[e] > MaxDeliveries
Exhausted(e) == deliveries[e] >= MaxDeliveries

Goto(w, label) == pc' = [pc EXCEPT ![w] = label]

\* An exception leaves run_once: run_loop swallows it, and whatever of the
\* batch was not dealt with stays pending.
Raise(w) ==
    /\ Goto(w, "idle")
    /\ batch' = [batch EXCEPT ![w] = <<>>]
    /\ UNCHANGED <<stopping, incarnation>>

\* The except branch of run_once.
Failed(w) ==
    \/ /\ Exhausted(Current(w))
       /\ Goto(w, "dlq_publish")
       /\ UNCHANGED <<batch, stopping, incarnation>>
    \/ /\ ~Exhausted(Current(w))
       /\ Raise(w)

\* The message is dealt with: on to the next of the batch.
Advance(w) ==
    /\ batch' = [batch EXCEPT ![w] = Tail(@)]
    /\ Goto(w, IF Len(batch[w]) = 1 THEN "idle" ELSE "loop")
    /\ UNCHANGED <<stopping, incarnation>>

Fault == faults < MaxFaults /\ faults' = faults + 1

Consume(w) ==
    /\ pc[w] = "idle" /\ ~stopping[w]
    /\ \E s \in Reads(w) :
          /\ IsRead(s, Readable(w))
          /\ Deliver(w, s)
          /\ batch' = [batch EXCEPT ![w] = s]
    /\ Goto(w, "loop")
    /\ UNCHANGED <<stopping, incarnation, effects, attempts, faults>>

\* The read happened at the broker, but its answer was lost or the XPENDING
\* that follows it failed.
ConsumeFails(w) ==
    /\ pc[w] = "idle" /\ ~stopping[w]
    /\ \E s \in Reads(w) : IsRead(s, Readable(w)) /\ Deliver(w, s)
    /\ Fault
    /\ UNCHANGED <<process, effects, attempts>>

\* A stop was requested: no further message of the batch is started.
BreakBatch(w) ==
    /\ pc[w] = "loop" /\ stopping[w]
    /\ Raise(w)
    /\ UNCHANGED <<broker, effects, attempts, faults>>

ExceedsMaxDeliveries(w) ==
    /\ pc[w] = "loop" /\ ~stopping[w]
    /\ Exceeds(Current(w))
    /\ Goto(w, "dlq_publish")
    /\ UNCHANGED <<broker, batch, stopping, incarnation, effects, attempts, faults>>

\* Faulty variant: the message is acknowledged on receipt.
StartHandlerAcking(w) ==
    /\ pc[w] = "loop" /\ ~stopping[w]
    /\ ~Exceeds(Current(w))
    /\ Goto(w, "handling")
    /\ attempts' = [attempts EXCEPT ![Current(w)] = @ + 1]
    /\ Acknowledge(Current(w))
    /\ UNCHANGED <<batch, stopping, incarnation, effects, faults>>

StartHandler(w) ==
    /\ pc[w] = "loop" /\ ~stopping[w]
    /\ ~Exceeds(Current(w))
    /\ Goto(w, "handling")
    /\ attempts' = [attempts EXCEPT ![Current(w)] = @ + 1]
    /\ UNCHANGED <<broker, batch, stopping, incarnation, effects, faults>>

CommitEffect(w) == committed' = committed \cup {Current(w)}

HandlerCommits(w) ==
    /\ pc[w] = "handling"
    /\ CommitEffect(w)
    /\ Goto(w, "ack")
    /\ UNCHANGED <<broker, batch, stopping, incarnation, deadLetters, audits, attempts, faults>>

\* The handler raised (or its commit was refused): the session rolls back.
HandlerFails(w) ==
    /\ pc[w] = "handling"
    /\ Failed(w)
    /\ UNCHANGED <<broker, effects, attempts, faults>>

\* The commit took effect but its answer was lost.
CommitAnswerLost(w) ==
    /\ pc[w] = "handling"
    /\ CommitEffect(w)
    /\ Failed(w)
    /\ Fault
    /\ UNCHANGED <<broker, deadLetters, audits, attempts>>

Ack(w) ==
    /\ pc[w] = "ack"
    /\ Acknowledge(Current(w))
    /\ Advance(w)
    /\ UNCHANGED <<effects, attempts, faults>>

\* queue.ack stands in the same try block as the handler: its failure, with or
\* without effect at the broker, takes the except branch too.
AckFails(w) ==
    /\ pc[w] = "ack"
    /\ Failed(w)
    /\ Acknowledge(Current(w)) \/ UNCHANGED broker
    /\ Fault
    /\ UNCHANGED <<effects, attempts>>

------------------------------------------------------------------------------
(* _dead_letter: copy, audit in a transaction of its own, acknowledge.       *)

CopyEffect(w) == deadLetters' = [deadLetters EXCEPT ![Current(w)] = @ + 1]
AuditEffect(w) == audits' = [audits EXCEPT ![Current(w)] = @ + 1]

\* Faulty variants: the publish, or the audit entry, left out.
DlqPublishSkipped(w) ==
    /\ pc[w] = "dlq_publish"
    /\ Goto(w, "dlq_audit")
    /\ UNCHANGED <<broker, batch, stopping, incarnation, effects, attempts, faults>>

DlqPublish(w) ==
    /\ pc[w] = "dlq_publish"
    /\ CopyEffect(w)
    /\ Goto(w, "dlq_audit")
    /\ UNCHANGED <<broker, batch, stopping, incarnation, committed, audits, attempts, faults>>

DlqAuditSkipped(w) ==
    /\ pc[w] = "dlq_audit"
    /\ Goto(w, "dlq_ack")
    /\ UNCHANGED <<broker, batch, stopping, incarnation, effects, attempts, faults>>

DlqAudit(w) ==
    /\ pc[w] = "dlq_audit"
    /\ AuditEffect(w)
    /\ Goto(w, "dlq_ack")
    /\ UNCHANGED <<broker, batch, stopping, incarnation, committed, deadLetters, attempts, faults>>

DlqAck(w) ==
    /\ pc[w] = "dlq_ack"
    /\ Acknowledge(Current(w))
    /\ Advance(w)
    /\ UNCHANGED <<effects, attempts, faults>>

\* Any of the three calls fails, with or without effect: nothing in
\* _dead_letter catches it, so it leaves run_once.
DeadLetterFails(w) ==
    /\ \/ /\ pc[w] = "dlq_publish"
          /\ CopyEffect(w) \/ UNCHANGED deadLetters
          /\ UNCHANGED <<broker, audits>>
       \/ /\ pc[w] = "dlq_audit"
          /\ AuditEffect(w) \/ UNCHANGED audits
          /\ UNCHANGED <<broker, deadLetters>>
       \/ /\ pc[w] = "dlq_ack"
          /\ Acknowledge(Current(w)) \/ UNCHANGED broker
          /\ UNCHANGED <<deadLetters, audits>>
    /\ Raise(w)
    /\ Fault
    /\ UNCHANGED <<committed, attempts>>

------------------------------------------------------------------------------
(* Signals, kills and restarts.                                              *)

\* SIGINT / SIGTERM only sets a flag; the message in hand is finished.
Stop(w) ==
    /\ pc[w] # "down" /\ ~stopping[w]
    /\ stopping' = [stopping EXCEPT ![w] = TRUE]
    /\ Fault
    /\ UNCHANGED <<broker, pc, batch, incarnation, effects, attempts>>

\* The flag is seen by run_loop and the process exits.
Exit(w) ==
    /\ pc[w] = "idle" /\ stopping[w]
    /\ Goto(w, "down")
    /\ UNCHANGED <<broker, batch, stopping, incarnation, effects, attempts, faults>>

\* Killed: an open transaction is gone, what was committed stays.
Crash(w) ==
    /\ pc[w] # "down"
    /\ Goto(w, "down")
    /\ batch' = [batch EXCEPT ![w] = <<>>]
    /\ Fault
    /\ UNCHANGED <<broker, stopping, incarnation, effects, attempts>>

\* A new process: same host and pid, same name; otherwise a new name.
Restart(w) ==
    /\ pc[w] = "down"
    /\ Goto(w, "idle")
    /\ stopping' = [stopping EXCEPT ![w] = FALSE]
    /\ \E keeps \in RestartKeeps :
          incarnation' = [incarnation EXCEPT ![w] = IF keeps THEN @ ELSE @ + 1]
    /\ UNCHANGED <<broker, batch, effects, attempts, faults>>

------------------------------------------------------------------------------
Init ==
    /\ last = 0 /\ cursor = 0
    /\ owner = [e \in Entry |-> NoOne]
    /\ deliveries = [e \in Entry |-> 0]
    /\ pc = [w \in Worker |-> "idle"]
    /\ batch = [w \in Worker |-> <<>>]
    /\ stopping = [w \in Worker |-> FALSE]
    /\ incarnation = [w \in Worker |-> 0]
    /\ committed = {}
    /\ deadLetters = [e \in Entry |-> 0]
    /\ audits = [e \in Entry |-> 0]
    /\ attempts = [e \in Entry |-> 0]
    /\ faults = 0

\* The steps of run_loop when every call is answered.
Run(w) ==
    \/ Consume(w) \/ BreakBatch(w) \/ ExceedsMaxDeliveries(w)
    \/ StartHandler(w) \/ HandlerCommits(w) \/ HandlerFails(w) \/ Ack(w)
    \/ DlqPublish(w) \/ DlqAudit(w) \/ DlqAck(w) \/ Exit(w)

Disturb(w) ==
    \/ ConsumeFails(w) \/ CommitAnswerLost(w) \/ AckFails(w)
    \/ DeadLetterFails(w) \/ Stop(w) \/ Crash(w)

Next == Publish \/ \E w \in Worker : Run(w) \/ Disturb(w) \/ Restart(w)

Spec == Init /\ [][Next]_vars

\* run_loop never stops of itself ("the loop must survive any handler/driver
\* failure"), and whoever stopped or lost a process starts it again.
Fairness == \A w \in Worker : WF_vars(Run(w)) /\ WF_vars(Restart(w))

FairSpec == Spec /\ Fairness

------------------------------------------------------------------------------
(* Properties.                                                               *)

TypeOK ==
    /\ last \in 0..MaxEntries
    /\ cursor \in 0..last
    /\ owner \in [Entry -> Consumer \cup {NoOne}]
    /\ deliveries \in [Entry -> Nat]
    /\ pc \in [Worker -> PC]
    /\ batch \in [Worker -> Seq(Entry)]
    /\ stopping \in [Worker -> BOOLEAN]
    /\ incarnation \in [Worker -> Nat]
    /\ committed \subseteq Entry
    /\ deadLetters \in [Entry -> Nat]
    /\ audits \in [Entry -> Nat]
    /\ attempts \in [Entry -> Nat]
    /\ faults \in 0..MaxFaults

\* Ack-after-commit (run_once, _dead_letter): an entry leaves the group only
\* once its handler's transaction has committed, or once it is on the
\* dead-letter queue with its audit entry, whatever failed or was killed on
\* the way.
SettledIsAccountedFor ==
    \A e \in Entry :
        Settled(e) => e \in committed \/ (deadLetters[e] > 0 /\ audits[e] > 0)

\* _dead_letter publishes before it audits: the audit log never claims a
\* dead-lettering the dead-letter queue does not hold, over any number of
\* repetitions.
AuditHasItsCopy == \A e \in Entry : audits[e] <= deadLetters[e]

\* ... and a copy without an audit entry is either still in hand or the trace
\* of a failed call or a kill.
CopyHasItsAudit ==
    \A e \in Entry :
        deadLetters[e] <= audits[e] + faults +
            Cardinality({w \in Worker : pc[w] = "dlq_audit" /\ Current(w) = e})

\* A message is given up only after queue.max_deliveries deliveries of it.
DeadLetterAfterMaxDeliveries ==
    \A e \in Entry : deadLetters[e] > 0 => deliveries[e] >= MaxDeliveries

\* What the dead-letter queue holds and what the audit log says of it agree, up
\* to what failed or is in hand, and concern exhausted messages only.
DeadLettersAccounted == AuditHasItsCopy /\ CopyHasItsAudit /\ DeadLetterAfterMaxDeliveries

\* A poison message starts its handler at most queue.max_deliveries times,
\* over every process, restart and lost answer.
AttemptBudget == \A e \in Entry : attempts[e] <= MaxDeliveries

\* No entry is in the hands of two processes at once, and a process works only
\* on entries that no consumer but itself has pending.
ExclusiveDelivery ==
    \A w, v \in Worker : \A i \in DOMAIN batch[w] :
        /\ owner[batch[w][i]] \in {Name(w), NoOne}
        /\ w # v => \A j \in DOMAIN batch[v] : batch[w][i] # batch[v][j]

\* The runner and the Redis driver implement the abstract promise.
Promise == INSTANCE AtLeastOnce WITH
    handled <- committed,
    dead    <- {e \in Entry : deadLetters[e] > 0},
    audited <- {e \in Entry : audits[e] > 0},
    settled <- {e \in Entry : Settled(e)}

ImplementsAtLeastOnce == Promise!Spec

\* Pending for a name that no process has any more: nobody reads it again.
Orphaned(e) == owner[e] # NoOne /\ \A w \in Worker : owner[e] # Name(w)

\* Every message added to the stream is eventually settled, poison or not, and
\* none blocks the queue for ever; the only ones that are left behind are those
\* pending for a consumer name that a restart gave up (workers/run.py makes the
\* name from the pid, and the driver claims nothing of another name).
EverySettledUnlessOrphaned == \A e \in Entry : (e <= last) ~> (Settled(e) \/ Orphaned(e))
==============================================================================
