-------------------------- MODULE WorkerRunnerProofs --------------------------
(***************************************************************************)
(* Proofs about WorkerRunner, for any set of workers, any stream, batch    *)
(* size and delivery limit, and any number of faults.                      *)
(***************************************************************************)
EXTENDS WorkerRunner, SequenceTheorems, FiniteSetTheorems, TLAPS

Busy == PC \ {"idle", "down"}

(* The parts of the inductive invariant.                                     *)

\* A process has a batch exactly while it is in the for loop of run_once.
BatchInHand == \A w \in Worker : (pc[w] \in Busy) <=> (batch[w] # <<>>)

\* The batch holds delivered entries, oldest first, that are pending for no
\* other consumer.
BatchIsOwn ==
    \A w \in Worker : \A i \in DOMAIN batch[w] :
        /\ batch[w][i] <= cursor
        /\ owner[batch[w][i]] \in {Name(w), NoOne}
        /\ \A j \in DOMAIN batch[w] : i < j => batch[w][i] < batch[w][j]

BatchesDisjoint ==
    \A w, v \in Worker : w # v =>
        \A i \in DOMAIN batch[w], j \in DOMAIN batch[v] : batch[w][i] # batch[v][j]

\* What the place in the code says about the message in hand.
AckAfterCommit == \A w \in Worker : pc[w] = "ack" => Current(w) \in committed

AuditAfterCopy ==
    \A w \in Worker : pc[w] = "dlq_audit" => audits[Current(w)] < deadLetters[Current(w)]

DlqAckAfterAudit ==
    \A w \in Worker : pc[w] = "dlq_ack" => audits[Current(w)] > 0

\* A delivered entry not yet started in this delivery has a start to spare.
StartToSpare ==
    /\ \A e \in Entry : attempts[e] <= deliveries[e]
    /\ \A w \in Worker : \A i \in DOMAIN batch[w] :
          (pc[w] = "loop" \/ i > 1) => attempts[batch[w][i]] < deliveries[batch[w][i]]

\* _dead_letter is entered with an exhausted message only.
DlqExhausted ==
    \A w \in Worker : pc[w] \in {"dlq_publish", "dlq_audit", "dlq_ack"} => Exhausted(Current(w))

\* A copy is made, the audit entry not yet.
CopyInHand(e) == \E w \in Worker : pc[w] = "dlq_audit" /\ Current(w) = e

\* CopyHasItsAudit without counting processes: at most one can have a copy of e
\* in hand.
CopiesAccounted ==
    \A e \in Entry :
        deadLetters[e] <= audits[e] + faults + (IF CopyInHand(e) THEN 1 ELSE 0)

IInv ==
    /\ TypeOK /\ BatchInHand /\ BatchIsOwn /\ BatchesDisjoint
    /\ AckAfterCommit /\ AuditAfterCopy /\ DlqAckAfterAudit /\ StartToSpare
    /\ AuditHasItsCopy /\ SettledIsAccountedFor /\ AttemptBudget
    /\ DlqExhausted /\ DeadLetterAfterMaxDeliveries /\ CopiesAccounted

------------------------------------------------------------------------------
(* What a read returns.                                                      *)

\* A read is a non-empty list of entries of the stream.
LEMMA ReadType ==
    ASSUME TypeOK, NEW w \in Worker, NEW s \in Reads(w), IsRead(s, Readable(w))
    PROVE  /\ s \in Seq(Entry) /\ s # <<>>
           /\ Len(s) \in Nat \ {0} /\ s[Len(s)] \in Entry
           /\ \A i \in DOMAIN s : s[i] \in Readable(w) /\ s[i] <= last
  <1>1. PICK n \in 1..BatchCount : s \in [1..n -> Readable(w)]
    BY DEF Reads
  <1>2. n \in Nat \ {0}
    BY <1>1, BoundsAssumption
  <1>3. Readable(w) \subseteq Entry /\ \A e \in Readable(w) : e <= last
    <2>1. last \in Nat /\ cursor \in Nat /\ last <= MaxEntries /\ cursor <= last /\ MaxEntries \in Nat
      BY BoundsAssumption DEF TypeOK
    <2>2. \A e \in OwnPending(w) : e \in Entry /\ e <= last
      BY <2>1 DEF OwnPending, Entry
    <2>3. \A e \in Unread : e \in Entry /\ e <= last
      BY <2>1 DEF Unread, Entry
    <2> QED
      BY <2>2, <2>3 DEF Readable
  <1>4. s \in Seq(Entry) /\ Len(s) = n /\ DOMAIN s = 1..n
    BY <1>1, <1>2, <1>3
  <1> QED
    BY <1>1, <1>2, <1>3, <1>4

\* Names tell consumers apart, and a consumer from nobody.
LEMMA NamesDiffer ==
    ASSUME TypeOK, NEW w \in Worker, NEW v \in Worker
    PROVE  /\ Name(w) \in Consumer /\ Name(w) # NoOne
           /\ w # v => Name(w) # Name(v)
  BY DEF TypeOK, Name, Consumer, NoOne

\* The message in hand is an entry.
LEMMA CurrentType ==
    ASSUME TypeOK, BatchInHand, NEW w \in Worker, pc[w] \in Busy
    PROVE  /\ Current(w) \in Entry /\ Current(w) = batch[w][1] /\ 1 \in DOMAIN batch[w]
           /\ batch[w] # <<>> /\ Len(batch[w]) \in Nat \ {0}
           /\ Tail(batch[w]) \in Seq(Entry)
           /\ Tail(batch[w]) = <<>> <=> Len(batch[w]) = 1
           /\ \A i \in DOMAIN Tail(batch[w]) : i + 1 \in DOMAIN batch[w] /\ Tail(batch[w])[i] = batch[w][i + 1]
  <1>1. batch[w] # <<>> /\ batch[w] \in Seq(Entry)
    BY DEF TypeOK, BatchInHand
  <1>2. Tail(batch[w]) \in Seq(Entry) /\ Len(Tail(batch[w])) = Len(batch[w]) - 1
    BY <1>1
  <1>3. Len(batch[w]) \in Nat \ {0} /\ DOMAIN batch[w] = 1..Len(batch[w])
    BY <1>1
  <1>4. Tail(batch[w]) = <<>> <=> Len(batch[w]) = 1
    <2>1. Len(Tail(batch[w])) = 0 <=> Tail(batch[w]) = << >>
      BY ONLY <1>2, EmptySeq
    <2> QED
      BY <2>1, <1>2, <1>3
  <1>5. \A i \in DOMAIN Tail(batch[w]) : i + 1 \in DOMAIN batch[w] /\ Tail(batch[w])[i] = batch[w][i + 1]
    BY <1>1, <1>2, <1>3
  <1> QED
    BY <1>1, <1>2, <1>3, <1>4, <1>5 DEF Current

------------------------------------------------------------------------------
(* Types, and the batch a process holds.                                     *)

BrokerOK ==
    /\ last \in 0..MaxEntries /\ cursor \in 0..last
    /\ owner \in [Entry -> Consumer \cup {NoOne}]
    /\ deliveries \in [Entry -> Nat]

ProcessOK ==
    /\ pc \in [Worker -> PC] /\ batch \in [Worker -> Seq(Entry)]
    /\ stopping \in [Worker -> BOOLEAN] /\ incarnation \in [Worker -> Nat]

EffectsOK ==
    /\ committed \subseteq Entry
    /\ deadLetters \in [Entry -> Nat] /\ audits \in [Entry -> Nat]

\* A read leaves the broker well typed.
LEMMA DeliverType ==
    ASSUME TypeOK, NEW w \in Worker, NEW s \in Reads(w), IsRead(s, Readable(w)), Deliver(w, s)
    PROVE  BrokerOK'
  <1>1. s[Len(s)] \in Entry /\ s[Len(s)] <= last
    <2>1. Len(s) \in DOMAIN s
      BY ReadType
    <2> QED
      BY <2>1, ReadType
  <1>2. last' \in 0..MaxEntries /\ cursor' \in 0..last'
    <2>1. last \in 0..MaxEntries /\ cursor \in 0..last /\ s[Len(s)] \in Nat
      BY <1>1 DEF TypeOK, Entry
    <2>2. last' = last /\ (cursor' = s[Len(s)] \/ cursor' = cursor)
      BY DEF Deliver
    <2> QED
      BY <1>1, <2>1, <2>2, BoundsAssumption
  <1>3. owner' \in [Entry -> Consumer \cup {NoOne}]
    BY NamesDiffer DEF Deliver, TypeOK
  <1>4. deliveries' \in [Entry -> Nat]
    BY DEF Deliver, TypeOK
  <1> QED
    BY <1>2, <1>3, <1>4 DEF BrokerOK

LEMMA AcknowledgeType ==
    ASSUME TypeOK, NEW e \in Entry, Acknowledge(e) \/ UNCHANGED broker
    PROVE  BrokerOK'
  BY DEF Acknowledge, TypeOK, BrokerOK, broker

\* However a process goes on with its batch, it keeps its books in order.
LEMMA ProcessType ==
    ASSUME TypeOK, BatchInHand, NEW w \in Worker, pc[w] \in Busy,
           \/ Raise(w) \/ Advance(w) \/ Failed(w)
           \/ \E label \in Busy : Goto(w, label) /\ UNCHANGED <<batch, stopping, incarnation>>
    PROVE  ProcessOK' /\ BatchInHand'
  <1>1. CASE Raise(w)
    <2>1. ProcessOK'
      BY <1>1 DEF Raise, Goto, ProcessOK, TypeOK, PC
    <2>2. /\ pc' = [pc EXCEPT ![w] = "idle"] /\ batch' = [batch EXCEPT ![w] = <<>>]
      BY <1>1 DEF Raise, Goto
    <2> QED
      BY <2>1, <2>2 DEF BatchInHand, TypeOK, Busy
  <1>2. CASE Advance(w)
    <2>1. Tail(batch[w]) \in Seq(Entry) /\ (Tail(batch[w]) = <<>> <=> Len(batch[w]) = 1)
      BY CurrentType
    <2>2. /\ pc' = [pc EXCEPT ![w] = IF Len(batch[w]) = 1 THEN "idle" ELSE "loop"]
          /\ batch' = [batch EXCEPT ![w] = Tail(batch[w])]
          /\ UNCHANGED <<stopping, incarnation>>
      BY <1>2 DEF Advance, Goto
    <2>3. ProcessOK'
      BY <2>1, <2>2 DEF ProcessOK, TypeOK, PC
    <2> QED
      BY <2>1, <2>2, <2>3 DEF BatchInHand, TypeOK, Busy, PC
  <1>3. CASE \E label \in Busy : Goto(w, label) /\ UNCHANGED <<batch, stopping, incarnation>>
    BY <1>3 DEF Goto, ProcessOK, TypeOK, BatchInHand, Busy
  <1>4. CASE Failed(w)
    <2>1. Raise(w) \/ (Goto(w, "dlq_publish") /\ UNCHANGED <<batch, stopping, incarnation>>)
      BY <1>4 DEF Failed
    <2> QED
      BY <1>1, <1>3, <2>1 DEF Busy, PC
  <1> QED
    BY <1>1, <1>2, <1>3, <1>4

LEMMA TypeStep ==
    ASSUME TypeOK, BatchInHand, [Next]_vars
    PROVE  TypeOK' /\ BatchInHand'
  <1> DEFINE Goal == /\ BrokerOK /\ ProcessOK /\ EffectsOK /\ BatchInHand
                     /\ attempts \in [Entry -> Nat] /\ faults \in 0..MaxFaults
  <1>0. SUFFICES Goal'
    BY DEF TypeOK, BrokerOK, ProcessOK, EffectsOK
  <1>1. CASE UNCHANGED vars
    BY <1>1 DEF vars, broker, process, effects, TypeOK, BatchInHand, BrokerOK, ProcessOK, EffectsOK
  <1>2. CASE Publish
    BY <1>2, BoundsAssumption DEF Publish, process, effects, TypeOK, BatchInHand, BrokerOK, ProcessOK, EffectsOK
  <1>3. ASSUME NEW w \in Worker, Consume(w) PROVE Goal'
    <2>1. PICK s \in Reads(w) : IsRead(s, Readable(w)) /\ Deliver(w, s) /\ batch' = [batch EXCEPT ![w] = s]
      BY <1>3 DEF Consume
    <2>2. s \in Seq(Entry) /\ s # <<>> /\ BrokerOK'
      BY <2>1, ReadType, DeliverType
    <2>3. ProcessOK' /\ BatchInHand'
      BY <1>3, <2>1, <2>2 DEF Consume, Goto, TypeOK, ProcessOK, BatchInHand, PC, Busy
    <2> QED
      BY <1>3, <2>2, <2>3 DEF Consume, effects, TypeOK, EffectsOK
  <1>4. ASSUME NEW w \in Worker, BreakBatch(w) PROVE Goal'
    <2>1. pc[w] \in Busy
      BY <1>4 DEF BreakBatch, Busy, PC
    <2>2. Current(w) \in Entry
      BY <2>1, CurrentType
    <2>3. ProcessOK' /\ BatchInHand'
      BY <1>4, <2>1, ProcessType DEF BreakBatch
    <2>4. BrokerOK'
      BY <1>4, <2>2 DEF BreakBatch, broker, BrokerOK, TypeOK
    <2>5. EffectsOK' /\ attempts' \in [Entry -> Nat]
      BY <1>4, <2>2 DEF BreakBatch, effects, EffectsOK, TypeOK
    <2> QED
      BY <1>4, <2>3, <2>4, <2>5, BoundsAssumption DEF BreakBatch, TypeOK
  <1>5. ASSUME NEW w \in Worker, ExceedsMaxDeliveries(w) PROVE Goal'
    <2>1. pc[w] \in Busy
      BY <1>5 DEF ExceedsMaxDeliveries, Busy, PC
    <2>2. Current(w) \in Entry
      BY <2>1, CurrentType
    <2>3. ProcessOK' /\ BatchInHand'
      BY <1>5, <2>1, ProcessType DEF ExceedsMaxDeliveries, Busy, PC
    <2>4. BrokerOK'
      BY <1>5, <2>2 DEF ExceedsMaxDeliveries, broker, BrokerOK, TypeOK
    <2>5. EffectsOK' /\ attempts' \in [Entry -> Nat]
      BY <1>5, <2>2 DEF ExceedsMaxDeliveries, effects, EffectsOK, TypeOK
    <2> QED
      BY <1>5, <2>3, <2>4, <2>5, BoundsAssumption DEF ExceedsMaxDeliveries, TypeOK
  <1>6. ASSUME NEW w \in Worker, StartHandler(w) PROVE Goal'
    <2>1. pc[w] \in Busy
      BY <1>6 DEF StartHandler, Busy, PC
    <2>2. Current(w) \in Entry
      BY <2>1, CurrentType
    <2>3. ProcessOK' /\ BatchInHand'
      BY <1>6, <2>1, ProcessType DEF StartHandler, Busy, PC
    <2>4. BrokerOK'
      BY <1>6, <2>2 DEF StartHandler, broker, BrokerOK, TypeOK
    <2>5. EffectsOK' /\ attempts' \in [Entry -> Nat]
      BY <1>6, <2>2 DEF StartHandler, effects, EffectsOK, TypeOK
    <2> QED
      BY <1>6, <2>3, <2>4, <2>5, BoundsAssumption DEF StartHandler, TypeOK
  <1>7. ASSUME NEW w \in Worker, HandlerCommits(w) PROVE Goal'
    <2>1. pc[w] \in Busy
      BY <1>7 DEF HandlerCommits, Busy, PC
    <2>2. Current(w) \in Entry
      BY <2>1, CurrentType
    <2>3. ProcessOK' /\ BatchInHand'
      BY <1>7, <2>1, ProcessType DEF HandlerCommits, Busy, PC
    <2>4. BrokerOK'
      BY <1>7, <2>2 DEF HandlerCommits, broker, BrokerOK, TypeOK
    <2>5. EffectsOK' /\ attempts' \in [Entry -> Nat]
      BY <1>7, <2>2 DEF HandlerCommits, CommitEffect, effects, EffectsOK, TypeOK
    <2> QED
      BY <1>7, <2>3, <2>4, <2>5, BoundsAssumption DEF HandlerCommits, TypeOK
  <1>8. ASSUME NEW w \in Worker, HandlerFails(w) PROVE Goal'
    <2>1. pc[w] \in Busy
      BY <1>8 DEF HandlerFails, Busy, PC
    <2>2. Current(w) \in Entry
      BY <2>1, CurrentType
    <2>3. ProcessOK' /\ BatchInHand'
      BY <1>8, <2>1, ProcessType DEF HandlerFails
    <2>4. BrokerOK'
      BY <1>8, <2>2 DEF HandlerFails, broker, BrokerOK, TypeOK
    <2>5. EffectsOK' /\ attempts' \in [Entry -> Nat]
      BY <1>8, <2>2 DEF HandlerFails, effects, EffectsOK, TypeOK
    <2> QED
      BY <1>8, <2>3, <2>4, <2>5, BoundsAssumption DEF HandlerFails, TypeOK
  <1>9. ASSUME NEW w \in Worker, Ack(w) PROVE Goal'
    <2>1. pc[w] \in Busy
      BY <1>9 DEF Ack, Busy, PC
    <2>2. Current(w) \in Entry
      BY <2>1, CurrentType
    <2>3. ProcessOK' /\ BatchInHand'
      BY <1>9, <2>1, ProcessType DEF Ack
    <2>4. BrokerOK'
      BY <1>9, <2>2, AcknowledgeType DEF Ack, broker
    <2>5. EffectsOK' /\ attempts' \in [Entry -> Nat]
      BY <1>9, <2>2 DEF Ack, effects, EffectsOK, TypeOK
    <2> QED
      BY <1>9, <2>3, <2>4, <2>5, BoundsAssumption DEF Ack, TypeOK
  <1>10. ASSUME NEW w \in Worker, DlqPublish(w) PROVE Goal'
    <2>1. pc[w] \in Busy
      BY <1>10 DEF DlqPublish, Busy, PC
    <2>2. Current(w) \in Entry
      BY <2>1, CurrentType
    <2>3. ProcessOK' /\ BatchInHand'
      BY <1>10, <2>1, ProcessType DEF DlqPublish, Busy, PC
    <2>4. BrokerOK'
      BY <1>10, <2>2 DEF DlqPublish, broker, BrokerOK, TypeOK
    <2>5. EffectsOK' /\ attempts' \in [Entry -> Nat]
      BY <1>10, <2>2 DEF DlqPublish, CopyEffect, effects, EffectsOK, TypeOK
    <2> QED
      BY <1>10, <2>3, <2>4, <2>5, BoundsAssumption DEF DlqPublish, TypeOK
  <1>11. ASSUME NEW w \in Worker, DlqAudit(w) PROVE Goal'
    <2>1. pc[w] \in Busy
      BY <1>11 DEF DlqAudit, Busy, PC
    <2>2. Current(w) \in Entry
      BY <2>1, CurrentType
    <2>3. ProcessOK' /\ BatchInHand'
      BY <1>11, <2>1, ProcessType DEF DlqAudit, Busy, PC
    <2>4. BrokerOK'
      BY <1>11, <2>2 DEF DlqAudit, broker, BrokerOK, TypeOK
    <2>5. EffectsOK' /\ attempts' \in [Entry -> Nat]
      BY <1>11, <2>2 DEF DlqAudit, AuditEffect, effects, EffectsOK, TypeOK
    <2> QED
      BY <1>11, <2>3, <2>4, <2>5, BoundsAssumption DEF DlqAudit, TypeOK
  <1>12. ASSUME NEW w \in Worker, DlqAck(w) PROVE Goal'
    <2>1. pc[w] \in Busy
      BY <1>12 DEF DlqAck, Busy, PC
    <2>2. Current(w) \in Entry
      BY <2>1, CurrentType
    <2>3. ProcessOK' /\ BatchInHand'
      BY <1>12, <2>1, ProcessType DEF DlqAck
    <2>4. BrokerOK'
      BY <1>12, <2>2, AcknowledgeType DEF DlqAck, broker
    <2>5. EffectsOK' /\ attempts' \in [Entry -> Nat]
      BY <1>12, <2>2 DEF DlqAck, effects, EffectsOK, TypeOK
    <2> QED
      BY <1>12, <2>3, <2>4, <2>5, BoundsAssumption DEF DlqAck, TypeOK
  <1>13. ASSUME NEW w \in Worker, Exit(w) PROVE Goal'
    <2>1. ProcessOK' /\ BatchInHand'
      BY <1>13 DEF Exit, Goto, broker, effects, TypeOK, ProcessOK, BatchInHand, PC, Busy
    <2> QED
      BY <1>13, <2>1, BoundsAssumption DEF Exit, Goto, broker, effects, TypeOK, BrokerOK, EffectsOK
  <1>14. ASSUME NEW w \in Worker, ConsumeFails(w) PROVE Goal'
    <2>1. BrokerOK'
      BY <1>14, DeliverType DEF ConsumeFails
    <2> QED
      BY <1>14, <2>1, BoundsAssumption DEF ConsumeFails, Fault, process, effects, TypeOK, ProcessOK, EffectsOK, BatchInHand
  <1>15. ASSUME NEW w \in Worker, CommitAnswerLost(w) PROVE Goal'
    <2>1. pc[w] \in Busy
      BY <1>15 DEF CommitAnswerLost, Busy, PC
    <2>2. Current(w) \in Entry
      BY <2>1, CurrentType
    <2>3. ProcessOK' /\ BatchInHand'
      BY <1>15, <2>1, ProcessType DEF CommitAnswerLost
    <2>4. BrokerOK'
      BY <1>15, <2>2 DEF CommitAnswerLost, broker, BrokerOK, TypeOK
    <2>5. EffectsOK' /\ attempts' \in [Entry -> Nat]
      BY <1>15, <2>2 DEF CommitAnswerLost, CommitEffect, effects, EffectsOK, TypeOK
    <2> QED
      BY <1>15, <2>3, <2>4, <2>5, BoundsAssumption DEF CommitAnswerLost, Fault, TypeOK
  <1>16. ASSUME NEW w \in Worker, AckFails(w) PROVE Goal'
    <2>1. pc[w] \in Busy
      BY <1>16 DEF AckFails, Busy, PC
    <2>2. Current(w) \in Entry
      BY <2>1, CurrentType
    <2>3. ProcessOK' /\ BatchInHand'
      BY <1>16, <2>1, ProcessType DEF AckFails
    <2>4. BrokerOK'
      BY <1>16, <2>2, AcknowledgeType DEF AckFails, broker
    <2>5. EffectsOK' /\ attempts' \in [Entry -> Nat]
      BY <1>16, <2>2 DEF AckFails, effects, EffectsOK, TypeOK
    <2> QED
      BY <1>16, <2>3, <2>4, <2>5, BoundsAssumption DEF AckFails, Fault, TypeOK
  <1>17. ASSUME NEW w \in Worker, DeadLetterFails(w) PROVE Goal'
    <2>1. pc[w] \in Busy
      BY <1>17 DEF DeadLetterFails, Busy, PC
    <2>2. Current(w) \in Entry
      BY <2>1, CurrentType
    <2>3. ProcessOK' /\ BatchInHand'
      BY <1>17, <2>1, ProcessType DEF DeadLetterFails
    <2>4. BrokerOK'
      BY <1>17, <2>2, AcknowledgeType DEF DeadLetterFails, broker, BrokerOK, TypeOK
    <2>5. EffectsOK' /\ attempts' \in [Entry -> Nat]
      <3>1. \/ CopyEffect(w) /\ UNCHANGED audits
            \/ AuditEffect(w) /\ UNCHANGED deadLetters
            \/ UNCHANGED <<deadLetters, audits>>
        BY <1>17 DEF DeadLetterFails
      <3>2. UNCHANGED <<committed, attempts>>
        BY <1>17 DEF DeadLetterFails
      <3>3. deadLetters' \in [Entry -> Nat]
        BY <2>2, <3>1 DEF CopyEffect, TypeOK
      <3>4. audits' \in [Entry -> Nat]
        BY <2>2, <3>1 DEF AuditEffect, TypeOK
      <3> QED
        BY <3>2, <3>3, <3>4 DEF EffectsOK, TypeOK
    <2> QED
      BY <1>17, <2>3, <2>4, <2>5, BoundsAssumption DEF DeadLetterFails, Fault, TypeOK
  <1>18. ASSUME NEW w \in Worker, Stop(w) PROVE Goal'
    <2>1. ProcessOK' /\ BatchInHand'
      BY <1>18 DEF Stop, Fault, broker, effects, TypeOK, ProcessOK, BatchInHand, PC, Busy
    <2> QED
      BY <1>18, <2>1, BoundsAssumption DEF Stop, Fault, broker, effects, TypeOK, BrokerOK, EffectsOK
  <1>19. ASSUME NEW w \in Worker, Crash(w) PROVE Goal'
    <2>1. ProcessOK' /\ BatchInHand'
      BY <1>19 DEF Crash, Goto, Fault, broker, effects, TypeOK, ProcessOK, BatchInHand, PC, Busy
    <2> QED
      BY <1>19, <2>1, BoundsAssumption DEF Crash, Goto, Fault, broker, effects, TypeOK, BrokerOK, EffectsOK
  <1>20. ASSUME NEW w \in Worker, Restart(w) PROVE Goal'
    <2>1. ProcessOK' /\ BatchInHand'
      BY <1>20 DEF Restart, Goto, broker, effects, TypeOK, ProcessOK, BatchInHand, PC, Busy
    <2> QED
      BY <1>20, <2>1, BoundsAssumption DEF Restart, Goto, broker, effects, TypeOK, BrokerOK, EffectsOK
  <1> QED
    BY <1>1, <1>2, <1>3, <1>4, <1>5, <1>6, <1>7, <1>8, <1>9, <1>10, <1>11, <1>12, <1>13, <1>14, <1>15, <1>16, <1>17, <1>18, <1>19, <1>20 DEF Next, Run, Disturb

------------------------------------------------------------------------------
(* Batches: every delivered entry is in at most one hand.                    *)

\* A step of a process that takes nothing new: it keeps its batch, drops the
\* first message or drops all, and may take the first off the pending list.
Drops(w) ==
    /\ \/ UNCHANGED batch
       \/ batch' = [batch EXCEPT ![w] = <<>>]
       \/ batch[w] # <<>> /\ batch' = [batch EXCEPT ![w] = Tail(@)]
    /\ \/ UNCHANGED owner
       \/ batch[w] # <<>> /\ owner' = [owner EXCEPT ![Current(w)] = NoOne]
    /\ UNCHANGED <<cursor, incarnation, deliveries>>

LEMMA StepKinds ==
    ASSUME TypeOK, BatchInHand, [Next]_vars
    PROVE  \/ UNCHANGED <<cursor, owner, deliveries, batch, incarnation>>
           \/ \E w \in Worker : Drops(w) \/ Consume(w) \/ ConsumeFails(w) \/ Restart(w)
  <1> USE DEF broker, process
  <1>1. CASE UNCHANGED vars \/ Publish
    BY <1>1 DEF vars, Publish
  <1>2. ASSUME NEW w \in Worker,
               \/ ExceedsMaxDeliveries(w) \/ StartHandler(w) \/ HandlerCommits(w)
               \/ DlqPublish(w) \/ DlqAudit(w) \/ Exit(w) \/ Stop(w)
        PROVE  UNCHANGED <<cursor, owner, deliveries, batch, incarnation>>
    BY <1>2 DEF ExceedsMaxDeliveries, StartHandler, HandlerCommits, DlqPublish, DlqAudit, Exit, Stop
  <1>3. ASSUME NEW w \in Worker, BreakBatch(w) \/ Crash(w) PROVE Drops(w)
    BY <1>3 DEF BreakBatch, Raise, Crash, Drops
  <1>4. ASSUME NEW w \in Worker, HandlerFails(w) \/ CommitAnswerLost(w) \/ AckFails(w)
        PROVE  Drops(w)
    <2>1. batch[w] # <<>>
      BY <1>4 DEF HandlerFails, CommitAnswerLost, AckFails, BatchInHand, Busy, PC
    <2> QED
      BY <1>4, <2>1 DEF HandlerFails, CommitAnswerLost, AckFails, Failed, Raise, Acknowledge, Drops
  <1>5. ASSUME NEW w \in Worker, DeadLetterFails(w) PROVE Drops(w)
    <2>1. batch[w] # <<>>
      BY <1>5 DEF DeadLetterFails, BatchInHand, Busy, PC
    <2> QED
      BY <1>5, <2>1 DEF DeadLetterFails, Raise, Acknowledge, Drops
  <1>6. ASSUME NEW w \in Worker, Ack(w) \/ DlqAck(w) PROVE Drops(w)
    <2>1. batch[w] # <<>>
      BY <1>6 DEF Ack, DlqAck, BatchInHand, Busy, PC
    <2> QED
      BY <1>6, <2>1 DEF Ack, DlqAck, Acknowledge, Advance, Drops
  <1> QED
    BY <1>1, <1>2, <1>3, <1>4, <1>5, <1>6 DEF Next, Run, Disturb

\* After such a step a batch is a suffix of what it was.
LEMMA DropsSuffix ==
    ASSUME TypeOK, NEW w \in Worker, Drops(w), NEW v \in Worker
    PROVE  \E d \in {0, 1} : \A i \in DOMAIN batch'[v] :
               i \in Nat \ {0} /\ i + d \in DOMAIN batch[v] /\ batch'[v][i] = batch[v][i + d]
  <1>1. batch[v] \in Seq(Entry) /\ batch[w] \in Seq(Entry)
    BY DEF TypeOK
  <1>2. CASE batch'[v] = batch[v]
    BY <1>1, <1>2
  <1>3. CASE batch'[v] = <<>>
    BY <1>3
  <1>4. CASE v = w /\ batch[w] # <<>> /\ batch'[w] = Tail(batch[w])
    <2>1. \A i \in DOMAIN Tail(batch[w]) :
              i \in Nat \ {0} /\ i + 1 \in DOMAIN batch[w] /\ Tail(batch[w])[i] = batch[w][i + 1]
      BY <1>1, <1>4
    <2> QED
      BY <1>4, <2>1
  <1> QED
    BY <1>2, <1>3, <1>4 DEF Drops, TypeOK

\* What a process reads is in nobody's batch.
LEMMA ReadIsFresh ==
    ASSUME TypeOK, BatchInHand, BatchIsOwn,
           NEW w \in Worker, pc[w] = "idle", NEW s \in Reads(w), IsRead(s, Readable(w)),
           NEW v \in Worker, NEW i \in DOMAIN batch[v], NEW j \in DOMAIN s
    PROVE  v # w /\ batch[v][i] # s[j]
  <1>1. batch[w] = <<>>
    BY DEF BatchInHand, Busy
  <1>2. v # w
    BY <1>1
  <1>3. batch[v][i] <= cursor /\ owner[batch[v][i]] \in {Name(v), NoOne}
    BY DEF BatchIsOwn
  <1>4. s[j] \in Readable(w)
    BY ReadType
  <1>5. owner[s[j]] = Name(w) \/ s[j] > cursor
    BY <1>4 DEF Readable, OwnPending, Unread
  <1>6. Name(v) # Name(w) /\ NoOne # Name(w)
    BY <1>2, NamesDiffer
  <1>7. cursor \in Nat /\ batch[v][i] \in Nat
    <2>1. batch[v] \in Seq(Entry) /\ cursor \in Nat
      BY DEF TypeOK
    <2>2. batch[v][i] \in Entry
      BY <2>1
    <2> QED
      BY <2>1, <2>2 DEF Entry
  <1> QED
    BY <1>2, <1>3, <1>5, <1>6, <1>7

\* What a read does to the pending list, entry by entry.
LEMMA DeliverEffect ==
    ASSUME TypeOK, NEW w \in Worker, NEW s \in Reads(w), IsRead(s, Readable(w)), Deliver(w, s)
    PROVE  /\ cursor' \in Nat /\ cursor <= cursor' /\ \A i \in DOMAIN s : s[i] <= cursor'
           /\ \A i \in DOMAIN s : owner'[s[i]] = Name(w) /\ deliveries'[s[i]] = deliveries[s[i]] + 1
           /\ \A e \in Entry : (\A i \in DOMAIN s : s[i] # e) =>
                  owner'[e] = owner[e] /\ deliveries'[e] = deliveries[e]
           /\ \A e \in Entry : deliveries'[e] >= deliveries[e]
  <1>0. s \in Seq(Entry) /\ Len(s) \in Nat \ {0} /\ \A e \in Entry : e \in Nat
    BY ReadType DEF Entry
  <1>1. DOMAIN s = 1..Len(s) /\ (\A i \in DOMAIN s : s[i] \in Entry /\ s[i] \in Nat) /\ s[Len(s)] \in Nat
    <2>1. DOMAIN s = 1..Len(s)
      BY <1>0
    <2>2. \A i \in DOMAIN s : s[i] \in Entry
      BY <1>0
    <2>3. Len(s) \in DOMAIN s
      BY <1>0, <2>1
    <2> QED
      BY <1>0, <2>1, <2>2, <2>3
  <1>2. \A i \in DOMAIN s : s[i] \in Entry /\ s[i] \in Nat /\ s[i] <= s[Len(s)]
    <2> SUFFICES ASSUME NEW i \in DOMAIN s PROVE s[i] \in Entry /\ s[i] \in Nat /\ s[i] <= s[Len(s)]
      OBVIOUS
    <2>1. s[i] \in Entry /\ s[i] \in Nat
      BY <1>0, <1>1
    <2>2. i = Len(s) \/ i < Len(s)
      BY <1>0, <1>1
    <2>3. i < Len(s) => s[i] < s[Len(s)]
      BY <1>0, <1>1 DEF IsRead
    <2> QED
      BY <1>0, <1>1, <2>1, <2>2, <2>3
  <1>3. cursor' = IF s[Len(s)] > cursor THEN s[Len(s)] ELSE cursor
    BY DEF Deliver
  <1>4. cursor \in Nat
    BY DEF TypeOK
  <1>5. cursor' \in Nat /\ cursor <= cursor' /\ s[Len(s)] <= cursor'
    BY <1>1, <1>3, <1>4
  <1>6. \A i \in DOMAIN s : s[i] <= cursor'
    BY <1>1, <1>2, <1>5
  <1>7. \A i \in DOMAIN s : owner'[s[i]] = Name(w) /\ deliveries'[s[i]] = deliveries[s[i]] + 1
    BY <1>2 DEF Deliver
  <1>8. \A e \in Entry : (\A i \in DOMAIN s : s[i] # e) =>
            owner'[e] = owner[e] /\ deliveries'[e] = deliveries[e]
    BY DEF Deliver, TypeOK
  <1>9. \A e \in Entry : deliveries'[e] >= deliveries[e]
    BY DEF Deliver, TypeOK
  <1> QED
    BY <1>5, <1>6, <1>7, <1>8, <1>9

LEMMA BatchStep ==
    ASSUME TypeOK, BatchInHand, BatchIsOwn, BatchesDisjoint, [Next]_vars
    PROVE  BatchIsOwn' /\ BatchesDisjoint'
  <1>1. CASE UNCHANGED <<cursor, owner, deliveries, batch, incarnation>>
    BY <1>1 DEF BatchIsOwn, BatchesDisjoint, Name
  <1>2. ASSUME NEW w \in Worker, Drops(w) PROVE BatchIsOwn' /\ BatchesDisjoint'
    <2>1. \A e \in Entry : owner'[e] \in {owner[e], NoOne}
      BY <1>2 DEF Drops, TypeOK
    <2>2. \A v \in Worker : Name(v)' = Name(v)
      BY <1>2 DEF Drops, Name
    <2>3. ASSUME NEW v \in Worker, NEW i \in DOMAIN batch'[v]
          PROVE  \E k \in DOMAIN batch[v] : batch'[v][i] = batch[v][k] /\ batch'[v][i] \in Entry
      <3>1. \E k \in DOMAIN batch[v] : batch'[v][i] = batch[v][k]
        BY <1>2, DropsSuffix
      <3>2. batch[v] \in Seq(Entry)
        BY DEF TypeOK
      <3> QED
        BY <3>1, <3>2
    <2>4. ASSUME NEW v \in Worker, NEW i \in DOMAIN batch'[v], NEW j \in DOMAIN batch'[v], i < j
          PROVE  batch'[v][i] < batch'[v][j]
      <3>1. PICK d \in {0, 1} : \A k \in DOMAIN batch'[v] :
                k \in Nat \ {0} /\ k + d \in DOMAIN batch[v] /\ batch'[v][k] = batch[v][k + d]
        BY <1>2, DropsSuffix
      <3>2. i + d < j + d
        BY <2>4, <3>1
      <3> QED
        BY <3>1, <3>2 DEF BatchIsOwn
    <2>5. BatchIsOwn'
      BY <1>2, <2>1, <2>2, <2>3, <2>4 DEF BatchIsOwn, Drops
    <2>6. BatchesDisjoint'
      BY <2>3 DEF BatchesDisjoint
    <2> QED
      BY <2>5, <2>6
  <1>3. ASSUME NEW w \in Worker, Consume(w) \/ ConsumeFails(w)
        PROVE  BatchIsOwn' /\ BatchesDisjoint'
    <2>1. pc[w] = "idle" /\ batch[w] = <<>>
      BY <1>3 DEF Consume, ConsumeFails, BatchInHand, Busy
    <2>2. PICK s \in Reads(w) :
             /\ IsRead(s, Readable(w)) /\ Deliver(w, s)
             /\ batch' = batch \/ batch' = [batch EXCEPT ![w] = s]
      BY <1>3 DEF Consume, ConsumeFails, process
    <2>3. \A v \in Worker : Name(v)' = Name(v)
      BY <1>3 DEF Consume, ConsumeFails, process, Name
    <2>4. /\ \A v \in Worker : v # w => batch'[v] = batch[v]
          /\ batch'[w] = <<>> \/ batch'[w] = s
      BY <2>1, <2>2 DEF TypeOK
    <2>5. \A v \in Worker : \A i \in DOMAIN batch[v] : \A j \in DOMAIN s : batch[v][i] # s[j]
      BY <2>1, <2>2, ReadIsFresh
    <2>6. ASSUME NEW v \in Worker, NEW i \in DOMAIN batch[v]
          PROVE  /\ batch[v][i] <= cursor' /\ owner'[batch[v][i]] = owner[batch[v][i]]
      <3>1. batch[v] \in Seq(Entry) /\ cursor \in Nat /\ \A e \in Entry : e \in Nat
        BY DEF TypeOK, Entry
      <3>2. batch[v][i] \in Entry /\ batch[v][i] <= cursor
        BY <3>1 DEF BatchIsOwn
      <3> QED
        BY <2>2, <2>5, <3>1, <3>2, DeliverEffect
    <2>7. ASSUME NEW i \in DOMAIN s
          PROVE  /\ s[i] <= cursor' /\ owner'[s[i]] = Name(w)
                 /\ \A j \in DOMAIN s : i < j => s[i] < s[j]
      BY <2>2, DeliverEffect DEF IsRead
    <2>8. BatchIsOwn'
      <3> SUFFICES ASSUME NEW v \in Worker, NEW i \in DOMAIN batch'[v]
                   PROVE  /\ batch'[v][i] <= cursor' /\ owner'[batch'[v][i]] \in {Name(v), NoOne}
                          /\ \A j \in DOMAIN batch'[v] : i < j => batch'[v][i] < batch'[v][j]
        BY <2>3 DEF BatchIsOwn
      <3>1. CASE batch'[v] = batch[v]
        BY <2>6, <3>1 DEF BatchIsOwn
      <3>2. CASE v = w /\ batch'[w] = s
        BY <2>7, <3>2
      <3> QED
        BY <2>1, <2>4, <3>1, <3>2
    <2>9. BatchesDisjoint'
      BY <2>4, <2>5 DEF BatchesDisjoint
    <2> QED
      BY <2>8, <2>9
  <1>4. ASSUME NEW w \in Worker, Restart(w) PROVE BatchIsOwn' /\ BatchesDisjoint'
    <2>1. batch[w] = <<>> /\ UNCHANGED <<cursor, owner, batch>>
      BY <1>4 DEF Restart, broker, BatchInHand, Busy
    <2>2. \A v \in Worker : v # w => Name(v)' = Name(v)
      BY <1>4 DEF Restart, Name, TypeOK
    <2> QED
      BY <2>1, <2>2 DEF BatchIsOwn, BatchesDisjoint
  <1> QED
    BY <1>1, <1>2, <1>3, <1>4, StepKinds

------------------------------------------------------------------------------
(* Effects: copies, audit entries and commits.                               *)

\* Effects only accumulate.
LEMMA EffectsGrow ==
    ASSUME TypeOK, BatchInHand, [Next]_vars
    PROVE  /\ committed \subseteq committed'
           /\ \A e \in Entry : deadLetters'[e] >= deadLetters[e] /\ audits'[e] >= audits[e]
  <1> USE DEF effects
  <1>1. CASE UNCHANGED vars \/ Publish
    BY <1>1 DEF vars, Publish, TypeOK
  <1>2. ASSUME NEW w \in Worker,
               Consume(w) \/ ConsumeFails(w) \/ BreakBatch(w) \/ ExceedsMaxDeliveries(w)
               \/ StartHandler(w) \/ HandlerFails(w) \/ Ack(w) \/ AckFails(w) \/ DlqAck(w)
               \/ Exit(w) \/ Stop(w) \/ Crash(w) \/ Restart(w)
        PROVE  UNCHANGED effects
    BY <1>2 DEF Consume, ConsumeFails, BreakBatch, ExceedsMaxDeliveries, StartHandler,
                HandlerFails, Ack, AckFails, DlqAck, Exit, Stop, Crash, Restart
  <1>3. ASSUME NEW w \in Worker, HandlerCommits(w) \/ CommitAnswerLost(w)
        PROVE  committed \subseteq committed' /\ UNCHANGED <<deadLetters, audits>>
    BY <1>3 DEF HandlerCommits, CommitAnswerLost, CommitEffect
  <1>4. ASSUME NEW w \in Worker, DlqPublish(w) \/ DlqAudit(w) \/ DeadLetterFails(w)
        PROVE  /\ UNCHANGED committed
               /\ CopyEffect(w) \/ UNCHANGED deadLetters
               /\ AuditEffect(w) \/ UNCHANGED audits
    BY <1>4 DEF DlqPublish, DlqAudit, DeadLetterFails
  <1>5. ASSUME NEW w \in Worker
        PROVE  /\ CopyEffect(w) => \A e \in Entry : deadLetters'[e] >= deadLetters[e]
               /\ AuditEffect(w) => \A e \in Entry : audits'[e] >= audits[e]
    <2>1. CopyEffect(w) => \A e \in Entry : deadLetters'[e] >= deadLetters[e]
      BY DEF CopyEffect, TypeOK
    <2>2. AuditEffect(w) => \A e \in Entry : audits'[e] >= audits[e]
      BY DEF AuditEffect, TypeOK
    <2> QED
      BY <2>1, <2>2
  <1>6. /\ UNCHANGED deadLetters => \A e \in Entry : deadLetters'[e] >= deadLetters[e]
        /\ UNCHANGED audits => \A e \in Entry : audits'[e] >= audits[e]
    BY DEF TypeOK
  <1> QED
    BY <1>1, <1>2, <1>3, <1>4, <1>5, <1>6 DEF Next, Run, Disturb

\* A process that is at one of these places was there before, with the same
\* message in hand, or has just come from the place before it.
LEMMA PlaceStep ==
    ASSUME TypeOK, BatchInHand, [Next]_vars, NEW v \in Worker,
           pc'[v] \in {"ack", "dlq_audit", "dlq_ack"}
    PROVE  /\ Current(v)' = Current(v)
           /\ \/ pc'[v] = pc[v]
              \/ pc'[v] = "ack" /\ HandlerCommits(v)
              \/ pc'[v] = "dlq_audit" /\ DlqPublish(v)
              \/ pc'[v] = "dlq_ack" /\ DlqAudit(v)
  <1> USE DEF process, Current, Goto, TypeOK
  <1>1. CASE UNCHANGED vars \/ Publish
    BY <1>1 DEF vars, Publish
  <1>2. ASSUME NEW w \in Worker, Consume(w) \/ Exit(w) \/ Crash(w) \/ Restart(w) \/ BreakBatch(w)
               \/ ExceedsMaxDeliveries(w) \/ StartHandler(w)
        PROVE  v # w /\ pc'[v] = pc[v] /\ batch'[v] = batch[v]
    BY <1>2 DEF Consume, Exit, Crash, Restart, BreakBatch, Raise, ExceedsMaxDeliveries, StartHandler
  <1>3. ASSUME NEW w \in Worker, Raise(w) \/ Failed(w) \/ Advance(w)
        PROVE  v # w /\ pc'[v] = pc[v] /\ batch'[v] = batch[v]
    BY <1>3 DEF Raise, Failed, Advance
  <1>4. ASSUME NEW w \in Worker, HandlerFails(w) \/ CommitAnswerLost(w) \/ AckFails(w)
               \/ Ack(w) \/ DlqAck(w) \/ DeadLetterFails(w)
        PROVE  v # w /\ pc'[v] = pc[v] /\ batch'[v] = batch[v]
    BY <1>3, <1>4 DEF HandlerFails, CommitAnswerLost, AckFails, Ack, DlqAck, DeadLetterFails
  <1>5. ASSUME NEW w \in Worker, HandlerCommits(w) \/ DlqPublish(w) \/ DlqAudit(w)
        PROVE  batch' = batch /\ (v # w => pc'[v] = pc[v])
               /\ (HandlerCommits(w) => pc'[w] = "ack")
               /\ (DlqPublish(w) => pc'[w] = "dlq_audit")
               /\ (DlqAudit(w) => pc'[w] = "dlq_ack")
    BY <1>5 DEF HandlerCommits, DlqPublish, DlqAudit
  <1>6. ASSUME NEW w \in Worker, ConsumeFails(w) \/ Stop(w) PROVE pc' = pc /\ batch' = batch
    BY <1>6 DEF ConsumeFails, Stop
  <1> QED
    BY <1>1, <1>2, <1>4, <1>5, <1>6 DEF Next, Run, Disturb

\* The audit log is written to by a process that has the copy in hand.
LEMMA AuditStep ==
    ASSUME TypeOK, BatchInHand, [Next]_vars
    PROVE  \/ UNCHANGED audits
           \/ \E w \in Worker : /\ pc[w] = "dlq_audit" /\ pc'[w] # "dlq_audit"
                                /\ AuditEffect(w) /\ UNCHANGED deadLetters
  <1> USE DEF effects
  <1>1. CASE UNCHANGED vars \/ Publish
    BY <1>1 DEF vars, Publish
  <1>2. ASSUME NEW w \in Worker,
               Consume(w) \/ ConsumeFails(w) \/ BreakBatch(w) \/ ExceedsMaxDeliveries(w)
               \/ StartHandler(w) \/ HandlerFails(w) \/ HandlerCommits(w) \/ CommitAnswerLost(w)
               \/ Ack(w) \/ AckFails(w) \/ DlqPublish(w) \/ DlqAck(w)
               \/ Exit(w) \/ Stop(w) \/ Crash(w) \/ Restart(w)
        PROVE  UNCHANGED audits
    BY <1>2 DEF Consume, ConsumeFails, BreakBatch, ExceedsMaxDeliveries, StartHandler,
                HandlerFails, HandlerCommits, CommitAnswerLost, Ack, AckFails, DlqPublish,
                DlqAck, Exit, Stop, Crash, Restart
  <1>3. ASSUME NEW w \in Worker, DlqAudit(w) \/ DeadLetterFails(w)
        PROVE  \/ UNCHANGED audits
               \/ /\ pc[w] = "dlq_audit" /\ pc'[w] # "dlq_audit"
                  /\ AuditEffect(w) /\ UNCHANGED deadLetters
    BY <1>3 DEF DlqAudit, DeadLetterFails, Raise, Goto, TypeOK
  <1> QED
    BY <1>1, <1>2, <1>3 DEF Next, Run, Disturb

Effects == AckAfterCommit /\ AuditAfterCopy /\ DlqAckAfterAudit /\ AuditHasItsCopy

LEMMA EffectsStep ==
    ASSUME TypeOK, BatchInHand, BatchesDisjoint, Effects, [Next]_vars
    PROVE  Effects'
  <1> USE DEF Effects
  <1>1. \A w \in Worker : pc[w] \in Busy => Current(w) \in Entry /\ Current(w) = batch[w][1] /\ 1 \in DOMAIN batch[w]
    BY CurrentType
  <1>2. \A w \in Worker : pc[w] \in {"ack", "dlq_audit", "dlq_ack", "dlq_publish"} => pc[w] \in Busy
    BY DEF Busy, PC
  <1>3. AckAfterCommit'
    <2> SUFFICES ASSUME NEW v \in Worker, pc'[v] = "ack" PROVE Current(v)' \in committed'
      BY DEF AckAfterCommit
    <2>1. CASE pc[v] = "ack"
      BY <2>1, PlaceStep, EffectsGrow DEF AckAfterCommit
    <2>2. CASE HandlerCommits(v)
      BY <2>2, PlaceStep DEF HandlerCommits, CommitEffect
    <2> QED
      BY <2>1, <2>2, PlaceStep
  <1>4. AuditHasItsCopy'
    <2> SUFFICES ASSUME NEW e \in Entry PROVE audits'[e] <= deadLetters'[e]
      BY DEF AuditHasItsCopy
    <2>0. audits[e] \in Nat /\ deadLetters[e] \in Nat /\ deadLetters'[e] \in Nat /\ audits'[e] \in Nat
      BY TypeStep DEF TypeOK
    <2>1. CASE UNCHANGED audits
      BY <2>0, <2>1, EffectsGrow DEF AuditHasItsCopy
    <2>2. ASSUME NEW w \in Worker, pc[w] = "dlq_audit", AuditEffect(w), UNCHANGED deadLetters
          PROVE  audits'[e] <= deadLetters'[e]
      <3>1. audits[Current(w)] < deadLetters[Current(w)] /\ Current(w) \in Entry
        BY <1>1, <1>2, <2>2 DEF AuditAfterCopy
      <3>2. audits'[e] = IF e = Current(w) THEN audits[e] + 1 ELSE audits[e]
        BY <2>2, <3>1 DEF AuditEffect, TypeOK
      <3> QED
        BY <2>0, <2>2, <3>1, <3>2 DEF AuditHasItsCopy
    <2> QED
      BY <2>1, <2>2, AuditStep
  <1>5. AuditAfterCopy'
    <2> SUFFICES ASSUME NEW v \in Worker, pc'[v] = "dlq_audit"
                 PROVE  audits'[Current(v)'] < deadLetters'[Current(v)']
      BY DEF AuditAfterCopy
    <2> DEFINE e == Current(v)
    <2>0. Current(v)' = e /\ e \in Entry
      <3>1. pc[v] \in {"dlq_audit", "dlq_publish"}
        BY PlaceStep DEF DlqPublish
      <3> QED
        BY <1>1, <1>2, <3>1, PlaceStep
    <2>1. /\ audits[e] \in Nat /\ deadLetters[e] \in Nat /\ deadLetters'[e] \in Nat /\ audits'[e] \in Nat
          /\ deadLetters'[e] >= deadLetters[e] /\ audits[e] <= deadLetters[e]
      BY <2>0, TypeStep, EffectsGrow DEF TypeOK, AuditHasItsCopy
    <2>2. CASE DlqPublish(v)
      <3>1. deadLetters'[e] = deadLetters[e] + 1 /\ audits'[e] = audits[e]
        BY <2>0, <2>2 DEF DlqPublish, CopyEffect, TypeOK
      <3> QED
        BY <2>0, <2>1, <3>1
    <2>3. CASE pc[v] = "dlq_audit"
      <3>1. audits[e] < deadLetters[e]
        BY <2>3 DEF AuditAfterCopy
      <3>2. CASE UNCHANGED audits
        BY <2>0, <2>1, <3>1, <3>2
      <3>3. ASSUME NEW w \in Worker, pc[w] = "dlq_audit", pc'[w] # "dlq_audit", AuditEffect(w)
            PROVE  audits'[e] = audits[e]
        <4>1. w # v
          BY <3>3
        <4>2. Current(w) # e
          BY <1>1, <1>2, <2>3, <3>3, <4>1 DEF BatchesDisjoint
        <4> QED
          BY <2>0, <3>3, <4>2 DEF AuditEffect, TypeOK
      <3>4. audits'[e] = audits[e]
        BY <3>2, <3>3, AuditStep
      <3> QED
        BY <2>0, <2>1, <3>1, <3>4
    <2> QED
      BY <2>2, <2>3, PlaceStep
  <1>6. DlqAckAfterAudit'
    <2> SUFFICES ASSUME NEW v \in Worker, pc'[v] = "dlq_ack" PROVE audits'[Current(v)'] > 0
      BY DEF DlqAckAfterAudit
    <2>0. Current(v)' = Current(v) /\ Current(v) \in Entry
      <3>1. pc[v] \in {"dlq_ack", "dlq_audit"}
        BY PlaceStep DEF DlqAudit
      <3> QED
        BY <1>1, <1>2, <3>1, PlaceStep
    <2>1. /\ audits[Current(v)] \in Nat /\ audits'[Current(v)] \in Nat
          /\ audits'[Current(v)] >= audits[Current(v)]
      BY <2>0, TypeStep, EffectsGrow DEF TypeOK
    <2>2. CASE pc[v] = "dlq_ack"
      BY <2>0, <2>1, <2>2 DEF DlqAckAfterAudit
    <2>3. CASE DlqAudit(v)
      <3>1. audits'[Current(v)] = audits[Current(v)] + 1
        BY <2>0, <2>3 DEF DlqAudit, AuditEffect, TypeOK
      <3> QED
        BY <2>0, <2>1, <3>1
    <2> QED
      BY <2>2, <2>3, PlaceStep
  <1> QED
    BY <1>3, <1>4, <1>5, <1>6

------------------------------------------------------------------------------
(* What is settled is accounted for.                                         *)

\* A read settles nothing: what it delivers becomes pending.
LEMMA ReadSettlesNothing ==
    ASSUME TypeOK, NEW e \in Entry, ~Settled(e), NEW w \in Worker, Consume(w) \/ ConsumeFails(w)
    PROVE  ~Settled(e)'
  <1> SUFFICES ASSUME Settled(e)' PROVE FALSE
    OBVIOUS
  <1> USE DEF Settled, TypeOK
  <1>1. PICK s \in Reads(w) : IsRead(s, Readable(w)) /\ Deliver(w, s)
    BY DEF Consume, ConsumeFails
  <1>2. Name(w) # NoOne
    BY NamesDiffer
  <1>d. /\ \A i \in DOMAIN s : owner'[s[i]] = Name(w)
        /\ (\A i \in DOMAIN s : s[i] # e) => owner'[e] = owner[e]
    <2> HIDE DEF Settled, TypeOK
    <2> QED
      BY <1>1, DeliverEffect
  <1>3. \A i \in DOMAIN s : s[i] # e
    <2>1. owner'[e] = NoOne
      OBVIOUS
    <2> QED
      BY ONLY <1>2, <1>d, <2>1
  <1>4. owner'[e] = owner[e]
    BY ONLY <1>d, <1>3
  <1>5. e > cursor /\ e <= cursor'
    <2>1. cursor \in Nat /\ e \in Nat
      BY DEF Entry
    <2> QED
      BY <1>4, <2>1
  <1>6. s \in Seq(Entry) /\ Len(s) \in Nat \ {0} /\ s[Len(s)] \in Readable(w) /\ Len(s) \in DOMAIN s
    <2>1. s \in Seq(Entry) /\ Len(s) \in Nat \ {0}
      BY <1>1, ReadType
    <2>2. Len(s) \in DOMAIN s
      BY <2>1
    <2> QED
      BY <1>1, <2>1, <2>2, ReadType
  <1>7. cursor' = s[Len(s)] /\ s[Len(s)] > cursor
    <2>1. cursor' = IF s[Len(s)] > cursor THEN s[Len(s)] ELSE cursor
      BY <1>1 DEF Deliver
    <2>2. cursor \in Nat /\ e \in Nat
      BY DEF Entry
    <2> QED
      BY <1>5, <2>1, <2>2
  <1>8. Readable(w) = Unread
    <2>1. CASE Readable(w) = OwnPending(w)
      BY <1>6, <1>7, <2>1 DEF OwnPending
    <2> QED
      BY <2>1 DEF Readable
  <1>9. e \in Unread
    <2>1. s[Len(s)] <= last /\ s[Len(s)] \in Nat /\ last \in Nat /\ e \in Nat
      BY <1>6, <1>8 DEF Unread, Entry
    <2>2. e \in 1..last
      BY <1>5, <1>7, <2>1 DEF Entry
    <2> QED
      BY <1>5, <2>2 DEF Unread
  <1>10. s[Len(s)] < e
    BY <1>1, <1>3, <1>6, <1>8, <1>9 DEF IsRead
  <1>11. e \in Nat /\ s[Len(s)] \in Nat
    BY <1>6, <1>8 DEF Entry, Unread
  <1> QED
    BY <1>5, <1>7, <1>10, <1>11

\* Entries leave the group by an acknowledgement of a message that was
\* committed or dead-lettered, and in no other way.
LEMMA SettleStep ==
    ASSUME TypeOK, BatchInHand, AckAfterCommit, DlqAckAfterAudit, [Next]_vars,
           NEW e \in Entry, Settled(e)', ~Settled(e)
    PROVE  e \in committed \/ audits[e] > 0
  <1> USE DEF broker, Settled, TypeOK
  <1>1. CASE UNCHANGED vars \/ Publish
    BY <1>1 DEF vars, Publish
  <1>2. ASSUME NEW w \in Worker,
               \/ BreakBatch(w) \/ ExceedsMaxDeliveries(w) \/ StartHandler(w)
               \/ HandlerFails(w) \/ HandlerCommits(w) \/ CommitAnswerLost(w)
               \/ DlqPublish(w) \/ DlqAudit(w) \/ Exit(w) \/ Stop(w) \/ Crash(w) \/ Restart(w)
        PROVE  UNCHANGED broker
    BY <1>2 DEF BreakBatch, ExceedsMaxDeliveries, StartHandler, HandlerFails, HandlerCommits,
                CommitAnswerLost, DlqPublish, DlqAudit, Exit, Stop, Crash, Restart
  <1>3. ASSUME NEW w \in Worker, Acknowledge(Current(w)) PROVE e = Current(w)
    BY <1>3 DEF Acknowledge
  <1>4. ASSUME NEW w \in Worker, Ack(w) \/ AckFails(w) \/ DlqAck(w) \/ DeadLetterFails(w)
        PROVE  e \in committed \/ audits[e] > 0
    <2>1. \/ UNCHANGED broker
          \/ pc[w] \in {"ack", "dlq_ack"} /\ Acknowledge(Current(w))
      BY <1>4 DEF Ack, AckFails, DlqAck, DeadLetterFails
    <2>2. CASE UNCHANGED broker
      BY <2>2
    <2>3. CASE pc[w] \in {"ack", "dlq_ack"} /\ Acknowledge(Current(w))
      BY <1>3, <2>3 DEF AckAfterCommit, DlqAckAfterAudit
    <2> QED
      BY <2>1, <2>2, <2>3
  <1>5. ASSUME NEW w \in Worker, Consume(w) \/ ConsumeFails(w) PROVE FALSE
    BY <1>5, ReadSettlesNothing
  <1> QED
    BY <1>1, <1>2, <1>4, <1>5 DEF Next, Run, Disturb

LEMMA SettledStep ==
    ASSUME TypeOK, BatchInHand, Effects, SettledIsAccountedFor, [Next]_vars
    PROVE  SettledIsAccountedFor'
  <1> SUFFICES ASSUME NEW e \in Entry, Settled(e)'
               PROVE  e \in committed' \/ (deadLetters'[e] > 0 /\ audits'[e] > 0)
    BY DEF SettledIsAccountedFor
  <1>1. e \in committed \/ (deadLetters[e] > 0 /\ audits[e] > 0)
    <2>1. CASE Settled(e)
      BY <2>1 DEF SettledIsAccountedFor
    <2>2. CASE ~Settled(e)
      <3>1. e \in committed \/ audits[e] > 0
        BY <2>2, SettleStep DEF Effects
      <3>2. audits[e] <= deadLetters[e] /\ audits[e] \in Nat /\ deadLetters[e] \in Nat
        BY DEF Effects, AuditHasItsCopy, TypeOK
      <3> QED
        BY <3>1, <3>2
    <2> QED
      BY <2>1, <2>2
  <1>2. /\ committed \subseteq committed'
        /\ deadLetters'[e] >= deadLetters[e] /\ audits'[e] >= audits[e]
        /\ deadLetters[e] \in Nat /\ deadLetters'[e] \in Nat /\ audits[e] \in Nat /\ audits'[e] \in Nat
    BY EffectsGrow, TypeStep DEF TypeOK
  <1> QED
    BY <1>1, <1>2

------------------------------------------------------------------------------
(* What the dead-letter queue holds.                                         *)

\* A message is at _dead_letter because its deliveries are used up.
LEMMA DlqEntered ==
    ASSUME TypeOK, BatchInHand, [Next]_vars, NEW v \in Worker, pc'[v] = "dlq_publish"
    PROVE  /\ Current(v)' = Current(v) /\ pc[v] \in Busy
           /\ pc[v] = "dlq_publish" \/ Exhausted(Current(v))
  <1> USE DEF process, Current, Goto, TypeOK
  <1>1. CASE UNCHANGED vars \/ Publish
    BY <1>1 DEF vars, Publish, Busy, PC
  <1>2. ASSUME NEW w \in Worker, Consume(w) \/ Exit(w) \/ Crash(w) \/ Restart(w) \/ BreakBatch(w)
               \/ StartHandler(w) \/ HandlerCommits(w) \/ DlqPublish(w) \/ DlqAudit(w)
               \/ DeadLetterFails(w)
        PROVE  v # w /\ pc'[v] = pc[v] /\ batch'[v] = batch[v]
    BY <1>2 DEF Consume, Exit, Crash, Restart, BreakBatch, Raise, StartHandler, HandlerCommits,
                DlqPublish, DlqAudit, DeadLetterFails
  <1>3. ASSUME NEW w \in Worker, Ack(w) \/ DlqAck(w)
        PROVE  v # w /\ pc'[v] = pc[v] /\ batch'[v] = batch[v]
    BY <1>3 DEF Ack, DlqAck, Advance
  <1>4. ASSUME NEW w \in Worker, ConsumeFails(w) \/ Stop(w)
        PROVE  pc'[v] = pc[v] /\ batch'[v] = batch[v]
    BY <1>4 DEF ConsumeFails, Stop
  <1>5. ASSUME NEW w \in Worker, ExceedsMaxDeliveries(w)
        PROVE  /\ batch'[v] = batch[v] /\ (v # w => pc'[v] = pc[v])
               /\ Exhausted(Current(w)) /\ pc[w] = "loop"
    <2>1. pc[w] = "loop" /\ Exceeds(Current(w)) /\ batch' = batch /\ (v # w => pc'[v] = pc[v])
      BY <1>5 DEF ExceedsMaxDeliveries
    <2>2. Current(w) \in Entry
      BY <2>1, CurrentType DEF Busy, PC
    <2>3. deliveries[Current(w)] \in Nat
      BY <2>2
    <2>4. Exhausted(Current(w))
      BY <2>1, <2>3, BoundsAssumption DEF Exceeds, Exhausted
    <2> QED
      BY <2>1, <2>4
  <1>6. ASSUME NEW w \in Worker, HandlerFails(w) \/ CommitAnswerLost(w) \/ AckFails(w)
        PROVE  /\ batch'[v] = batch[v] /\ (v # w => pc'[v] = pc[v])
               /\ (v = w => Exhausted(Current(w))) /\ pc[w] \in {"handling", "ack"}
    BY <1>6 DEF HandlerFails, CommitAnswerLost, AckFails, Failed, Raise
  <1>7. pc'[v] = pc[v] => pc[v] \in Busy
    BY DEF Busy, PC
  <1>8. {"loop", "handling", "ack"} \subseteq Busy
    BY DEF Busy, PC
  <1> QED
    BY <1>1, <1>2, <1>3, <1>4, <1>5, <1>6, <1>7, <1>8 DEF Next, Run, Disturb

\* Delivery counts never go down.
LEMMA DeliveriesGrow ==
    ASSUME TypeOK, [Next]_vars, NEW e \in Entry
    PROVE  deliveries'[e] \in Nat /\ deliveries[e] \in Nat /\ deliveries'[e] >= deliveries[e]
  <1>0. deliveries[e] \in Nat
    BY DEF TypeOK
  <1>1. ASSUME NEW w \in Worker, Consume(w) \/ ConsumeFails(w)
        PROVE  deliveries'[e] \in Nat /\ deliveries'[e] >= deliveries[e]
    <2>1. PICK s \in Reads(w) : IsRead(s, Readable(w)) /\ Deliver(w, s)
      BY <1>1 DEF Consume, ConsumeFails
    <2> QED
      BY <1>0, <2>1 DEF Deliver
  <1>2. CASE UNCHANGED vars \/ Publish
    BY <1>0, <1>2 DEF vars, broker, Publish
  <1>3. ASSUME NEW w \in Worker,
               \/ BreakBatch(w) \/ ExceedsMaxDeliveries(w) \/ StartHandler(w) \/ HandlerCommits(w)
               \/ HandlerFails(w) \/ CommitAnswerLost(w) \/ Ack(w) \/ AckFails(w) \/ DlqPublish(w)
               \/ DlqAudit(w) \/ DlqAck(w) \/ DeadLetterFails(w) \/ Exit(w) \/ Stop(w) \/ Crash(w)
               \/ Restart(w)
        PROVE  UNCHANGED deliveries
    BY <1>3 DEF BreakBatch, ExceedsMaxDeliveries, StartHandler, HandlerCommits, HandlerFails,
                CommitAnswerLost, Ack, AckFails, Acknowledge, DlqPublish, DlqAudit, DlqAck,
                DeadLetterFails, Exit, Stop, Crash, Restart, broker
  <1> QED
    BY <1>0, <1>1, <1>2, <1>3 DEF Next, Run, Disturb

\* What a step can do to copies and audit entries: it makes or audits a copy,
\* fails in between, or leaves both alone; and if it is no fault, it also leaves
\* alone the processes that are about to audit.
LEMMA CopyKinds ==
    ASSUME TypeOK, BatchInHand, [Next]_vars
    PROVE  \/ \E w \in Worker : DlqPublish(w) \/ DlqAudit(w) \/ DeadLetterFails(w)
           \/ /\ UNCHANGED <<deadLetters, audits>>
              /\ \/ faults' = faults + 1
                 \/ /\ UNCHANGED faults
                    /\ \A v \in Worker : pc[v] = "dlq_audit" => pc'[v] = pc[v] /\ batch'[v] = batch[v]
  <1> DEFINE Quiet == /\ UNCHANGED faults
                      /\ \A v \in Worker : pc[v] = "dlq_audit" => pc'[v] = pc[v] /\ batch'[v] = batch[v]
  <1>1. CASE UNCHANGED vars \/ Publish
    BY <1>1 DEF vars, Publish, effects, process
  <1>2. ASSUME NEW w \in Worker,
               \/ ConsumeFails(w) \/ CommitAnswerLost(w) \/ AckFails(w) \/ Stop(w) \/ Crash(w)
        PROVE  UNCHANGED <<deadLetters, audits>> /\ faults' = faults + 1
    BY <1>2 DEF ConsumeFails, CommitAnswerLost, AckFails, Stop, Crash, Fault, effects
  <1>3. ASSUME NEW w \in Worker,
               \/ Consume(w) \/ BreakBatch(w) \/ ExceedsMaxDeliveries(w) \/ StartHandler(w)
               \/ HandlerCommits(w) \/ HandlerFails(w) \/ Ack(w) \/ DlqAck(w) \/ Exit(w) \/ Restart(w)
        PROVE  UNCHANGED <<deadLetters, audits>> /\ Quiet
    <2>1. /\ UNCHANGED <<deadLetters, audits>> /\ UNCHANGED faults
          /\ pc[w] # "dlq_audit"
      BY <1>3 DEF Consume, BreakBatch, ExceedsMaxDeliveries, StartHandler, HandlerCommits,
                  HandlerFails, Ack, DlqAck, Exit, Restart, effects
    <2>2. \A v \in Worker \ {w} : pc'[v] = pc[v] /\ batch'[v] = batch[v]
      BY <1>3 DEF Consume, BreakBatch, ExceedsMaxDeliveries, StartHandler, HandlerCommits,
                  HandlerFails, Failed, Ack, DlqAck, Advance, Exit, Restart, Raise, Goto, TypeOK
    <2> QED
      BY <2>1, <2>2
  <1> QED
    BY <1>1, <1>2, <1>3 DEF Next, Run, Disturb

Letters == DlqExhausted /\ DeadLetterAfterMaxDeliveries /\ CopiesAccounted

\* A process at dlq_publish is the only one that has its message in hand.
LEMMA NoOtherCopy ==
    ASSUME TypeOK, BatchInHand, BatchesDisjoint, NEW w \in Worker, NEW v \in Worker,
           pc[w] \in Busy, pc[v] = "dlq_audit", Current(v) = Current(w)
    PROVE  v = w
  <1>1. pc[v] \in Busy
    BY DEF Busy, PC
  <1>2. /\ Current(w) = batch[w][1] /\ 1 \in DOMAIN batch[w]
        /\ Current(v) = batch[v][1] /\ 1 \in DOMAIN batch[v]
    BY <1>1, CurrentType
  <1> QED
    BY <1>2 DEF BatchesDisjoint

LEMMA LettersStep ==
    ASSUME TypeOK, BatchInHand, BatchesDisjoint, Letters, [Next]_vars
    PROVE  Letters'
  <1> USE DEF Letters
  <1>0. /\ \A e \in Entry : /\ deadLetters[e] \in Nat /\ audits[e] \in Nat
                             /\ deadLetters'[e] \in Nat /\ audits'[e] \in Nat
        /\ faults \in Nat /\ faults' \in Nat /\ MaxDeliveries \in Nat
    BY TypeStep, BoundsAssumption DEF TypeOK
  <1>c. \A w \in Worker : pc[w] \in {"dlq_publish", "dlq_audit", "dlq_ack"} =>
            pc[w] \in Busy /\ Current(w) \in Entry
    BY CurrentType DEF Busy, PC
  <1>1. DlqExhausted'
    <2> SUFFICES ASSUME NEW v \in Worker, pc'[v] \in {"dlq_publish", "dlq_audit", "dlq_ack"}
                 PROVE  deliveries'[Current(v)'] >= MaxDeliveries
      BY DEF DlqExhausted, Exhausted
    <2>1. Current(v)' = Current(v) /\ Current(v) \in Entry /\ deliveries[Current(v)] >= MaxDeliveries
      <3>1. CASE pc'[v] = "dlq_publish"
        <4>1. Current(v)' = Current(v) /\ Current(v) \in Entry
          BY <3>1, DlqEntered, CurrentType
        <4> QED
          BY <3>1, <4>1, DlqEntered DEF DlqExhausted, Exhausted
      <3>2. CASE pc'[v] \in {"dlq_audit", "dlq_ack"}
        <4>1. pc[v] \in {"dlq_publish", "dlq_audit", "dlq_ack"} /\ Current(v)' = Current(v)
          BY <3>2, PlaceStep DEF DlqPublish, DlqAudit
        <4> QED
          BY <1>c, <4>1 DEF DlqExhausted, Exhausted
      <3> QED
        BY <3>1, <3>2
    <2>2. /\ deliveries'[Current(v)] \in Nat /\ deliveries[Current(v)] \in Nat
          /\ deliveries'[Current(v)] >= deliveries[Current(v)]
      BY <2>1, DeliveriesGrow
    <2> QED
      BY <1>0, <2>1, <2>2
  \* What the three steps of _dead_letter do.
  <1>2. ASSUME NEW w \in Worker, DlqPublish(w) \/ DlqAudit(w) \/ DeadLetterFails(w), NEW e \in Entry
        PROVE  /\ Current(w) \in Entry /\ pc[w] \in {"dlq_publish", "dlq_audit", "dlq_ack"}
               /\ deadLetters'[e] = deadLetters[e] \/
                      (pc[w] = "dlq_publish" /\ e = Current(w) /\ deadLetters'[e] = deadLetters[e] + 1)
               /\ audits'[e] = audits[e] \/
                      (pc[w] = "dlq_audit" /\ e = Current(w) /\ audits'[e] = audits[e] + 1)
    <2>1. /\ pc[w] \in {"dlq_publish", "dlq_audit", "dlq_ack"}
          /\ deadLetters' = deadLetters \/ (pc[w] = "dlq_publish" /\ CopyEffect(w))
          /\ audits' = audits \/ (pc[w] = "dlq_audit" /\ AuditEffect(w))
      BY <1>2 DEF DlqPublish, DlqAudit, DeadLetterFails
    <2>2. Current(w) \in Entry
      BY <1>c, <2>1
    <2>3. CopyEffect(w) => deadLetters'[e] = IF e = Current(w) THEN deadLetters[e] + 1 ELSE deadLetters[e]
      BY <2>2 DEF CopyEffect, TypeOK
    <2>4. AuditEffect(w) => audits'[e] = IF e = Current(w) THEN audits[e] + 1 ELSE audits[e]
      BY <2>2 DEF AuditEffect, TypeOK
    <2> QED
      BY <2>1, <2>2, <2>3, <2>4
  <1>3. DeadLetterAfterMaxDeliveries'
    <2> SUFFICES ASSUME NEW e \in Entry, deadLetters'[e] > 0 PROVE deliveries'[e] >= MaxDeliveries
      BY DEF DeadLetterAfterMaxDeliveries
    <2>1. deliveries[e] >= MaxDeliveries
      <3>1. CASE deadLetters'[e] = deadLetters[e]
        BY <3>1 DEF DeadLetterAfterMaxDeliveries
      <3>2. ASSUME NEW w \in Worker, pc[w] = "dlq_publish", e = Current(w)
            PROVE  deliveries[e] >= MaxDeliveries
        BY <3>2 DEF DlqExhausted, Exhausted
      <3> QED
        BY <1>2, <3>1, <3>2, CopyKinds
    <2>2. deliveries'[e] \in Nat /\ deliveries[e] \in Nat /\ deliveries'[e] >= deliveries[e]
      BY DeliveriesGrow
    <2> QED
      BY <1>0, <2>1, <2>2
  <1>4. CopiesAccounted'
    <2> SUFFICES ASSUME NEW e \in Entry
                 PROVE  deadLetters'[e] <= audits'[e] + faults' + (IF CopyInHand(e)' THEN 1 ELSE 0)
      BY DEF CopiesAccounted
    <2>0. deadLetters[e] <= audits[e] + faults + (IF CopyInHand(e) THEN 1 ELSE 0)
      BY DEF CopiesAccounted
    <2>1. CASE UNCHANGED <<deadLetters, audits>> /\ faults' = faults + 1
      BY <1>0, <2>0, <2>1
    <2>2. CASE /\ UNCHANGED <<deadLetters, audits>> /\ UNCHANGED faults
               /\ \A v \in Worker : pc[v] = "dlq_audit" => pc'[v] = pc[v] /\ batch'[v] = batch[v]
      <3>1. CopyInHand(e) => CopyInHand(e)'
        BY <2>2 DEF CopyInHand, Current
      <3> QED
        BY <1>0, <2>0, <2>2, <3>1
    \* Another process that has a copy of e in hand keeps it.
    <2>3. ASSUME NEW w \in Worker, DlqPublish(w) \/ DlqAudit(w),
                 CopyInHand(e), ~(pc[w] = "dlq_audit" /\ Current(w) = e)
          PROVE  CopyInHand(e)'
      <3>1. PICK v \in Worker : pc[v] = "dlq_audit" /\ Current(v) = e
        BY <2>3 DEF CopyInHand
      <3>2. v # w /\ pc'[v] = pc[v] /\ batch' = batch
        BY <2>3, <3>1 DEF DlqPublish, DlqAudit, Goto, TypeOK
      <3> QED
        BY <3>1, <3>2 DEF CopyInHand, Current
    <2>4. ASSUME NEW w \in Worker, pc[w] = "dlq_publish", e = Current(w) PROVE ~CopyInHand(e)
      BY <1>c, <2>4, NoOtherCopy DEF CopyInHand
    <2>5. ASSUME NEW w \in Worker, DlqPublish(w)
          PROVE  deadLetters'[e] <= audits'[e] + faults' + (IF CopyInHand(e)' THEN 1 ELSE 0)
      <3>1. audits' = audits /\ faults' = faults /\ pc[w] = "dlq_publish"
        BY <2>5 DEF DlqPublish
      <3>2. CASE e = Current(w)
        <4>1. ~CopyInHand(e)
          BY <2>4, <3>1, <3>2
        <4>2. CopyInHand(e)'
          BY <2>5, <3>2 DEF DlqPublish, Goto, TypeOK, CopyInHand, Current
        <4>3. deadLetters'[e] = deadLetters[e] \/ deadLetters'[e] = deadLetters[e] + 1
          BY <1>2, <2>5
        <4> QED
          BY <1>0, <2>0, <3>1, <4>1, <4>2, <4>3
      <3>3. CASE e # Current(w)
        <4>1. deadLetters'[e] = deadLetters[e]
          BY <1>2, <2>5, <3>3
        <4>2. CopyInHand(e) => CopyInHand(e)'
          BY <2>3, <2>5, <3>3
        <4> QED
          BY <1>0, <2>0, <3>1, <4>1, <4>2
      <3> QED
        BY <3>2, <3>3
    <2>6. ASSUME NEW w \in Worker, DlqAudit(w)
          PROVE  deadLetters'[e] <= audits'[e] + faults' + (IF CopyInHand(e)' THEN 1 ELSE 0)
      <3>1. deadLetters' = deadLetters /\ faults' = faults /\ pc[w] = "dlq_audit" /\ AuditEffect(w)
        BY <2>6 DEF DlqAudit
      <3>2. CASE e = Current(w)
        <4>1. audits'[e] = audits[e] + 1
          BY <3>1, <3>2 DEF AuditEffect, TypeOK
        <4> QED
          BY <1>0, <2>0, <3>1, <4>1
      <3>3. CASE e # Current(w)
        <4>1. audits'[e] = audits[e]
          BY <1>2, <2>6, <3>3
        <4>2. CopyInHand(e) => CopyInHand(e)'
          BY <2>3, <2>6, <3>3
        <4> QED
          BY <1>0, <2>0, <3>1, <4>1, <4>2
      <3> QED
        BY <3>2, <3>3
    <2>7. ASSUME NEW w \in Worker, DeadLetterFails(w)
          PROVE  deadLetters'[e] <= audits'[e] + faults' + (IF CopyInHand(e)' THEN 1 ELSE 0)
      <3>1. faults' = faults + 1
        BY <2>7 DEF DeadLetterFails, Fault
      <3>2. audits'[e] = audits[e] \/ audits'[e] = audits[e] + 1
        BY <1>2, <2>7
      <3>3. CASE deadLetters'[e] = deadLetters[e]
        BY <1>0, <2>0, <3>1, <3>2, <3>3
      <3>4. CASE deadLetters'[e] = deadLetters[e] + 1 /\ ~CopyInHand(e)
        BY <1>0, <2>0, <3>1, <3>2, <3>4
      <3>5. \/ deadLetters'[e] = deadLetters[e]
            \/ deadLetters'[e] = deadLetters[e] + 1 /\ ~CopyInHand(e)
        BY <1>2, <2>4, <2>7
      <3> QED
        BY <3>3, <3>4, <3>5
    <2> QED
      BY <2>1, <2>2, <2>5, <2>6, <2>7, CopyKinds
  <1> QED
    BY <1>1, <1>3, <1>4

\* At most one process has a copy of an entry in hand.
LEMMA CopiesInHand ==
    ASSUME TypeOK, BatchInHand, BatchesDisjoint, NEW e
    PROVE  Cardinality({w \in Worker : pc[w] = "dlq_audit" /\ Current(w) = e})
               = IF CopyInHand(e) THEN 1 ELSE 0
  <1> DEFINE S == {w \in Worker : pc[w] = "dlq_audit" /\ Current(w) = e}
  <1>1. CASE CopyInHand(e)
    <2>1. PICK w \in Worker : pc[w] = "dlq_audit" /\ Current(w) = e
      BY <1>1 DEF CopyInHand
    <2>2. \A v \in S : v = w
      BY <2>1, NoOtherCopy DEF Busy, PC
    <2>3. S = {w}
      BY <2>1, <2>2
    <2> QED
      BY <1>1, <2>3, FS_Singleton
  <1>2. CASE ~CopyInHand(e)
    <2>1. S = {}
      BY <1>2 DEF CopyInHand
    <2> QED
      BY <1>2, <2>1, FS_EmptySet
  <1> QED
    BY <1>1, <1>2

------------------------------------------------------------------------------
(* A message is started at most once in each of its deliveries.              *)

Attempts == StartToSpare /\ AttemptBudget

\* A process comes to the head of the loop from its read or from the message
\* before.
LEMMA LoopStep ==
    ASSUME TypeOK, BatchInHand, [Next]_vars, NEW v \in Worker, pc'[v] = "loop"
    PROVE  \/ pc[v] = "loop" /\ batch'[v] = batch[v]
           \/ batch[v] # <<>> /\ batch'[v] = Tail(batch[v])
           \/ Consume(v)
  <1> USE DEF process, Goto, TypeOK
  <1>1. CASE UNCHANGED vars \/ Publish
    BY <1>1 DEF vars, Publish
  <1>2. ASSUME NEW w \in Worker, BreakBatch(w) \/ ExceedsMaxDeliveries(w) \/ StartHandler(w)
               \/ HandlerCommits(w) \/ DlqPublish(w) \/ DlqAudit(w) \/ DeadLetterFails(w)
               \/ Exit(w) \/ Crash(w) \/ Restart(w)
        PROVE  v # w /\ pc[v] = "loop" /\ batch'[v] = batch[v]
    BY <1>2 DEF BreakBatch, ExceedsMaxDeliveries, StartHandler, HandlerCommits, DlqPublish,
                DlqAudit, DeadLetterFails, Raise, Exit, Crash, Restart
  <1>3. ASSUME NEW w \in Worker, HandlerFails(w) \/ CommitAnswerLost(w) \/ AckFails(w)
        PROVE  v # w /\ pc[v] = "loop" /\ batch'[v] = batch[v]
    BY <1>3 DEF HandlerFails, CommitAnswerLost, AckFails, Failed, Raise
  <1>4. ASSUME NEW w \in Worker, Ack(w) \/ DlqAck(w)
        PROVE  \/ pc[v] = "loop" /\ batch'[v] = batch[v]
               \/ batch[v] # <<>> /\ batch'[v] = Tail(batch[v])
    <2>1. batch[w] # <<>>
      BY <1>4 DEF Ack, DlqAck, BatchInHand, Busy, PC
    <2> QED
      BY <1>4, <2>1 DEF Ack, DlqAck, Advance
  <1>5. ASSUME NEW w \in Worker, Consume(w), w # v PROVE pc[v] = "loop" /\ batch'[v] = batch[v]
    BY <1>5 DEF Consume
  <1>6. ASSUME NEW w \in Worker, ConsumeFails(w) \/ Stop(w) PROVE pc[v] = "loop" /\ batch'[v] = batch[v]
    BY <1>6 DEF ConsumeFails, Stop
  <1> QED
    BY <1>1, <1>2, <1>3, <1>4, <1>5, <1>6 DEF Next, Run, Disturb

LEMMA AttemptStep ==
    ASSUME TypeOK, BatchInHand, BatchIsOwn, BatchesDisjoint, Attempts, [Next]_vars
    PROVE  Attempts'
  <1> USE DEF Attempts
  <1>0. /\ \A e \in Entry : attempts[e] \in Nat /\ deliveries[e] \in Nat /\ attempts[e] <= deliveries[e]
        /\ \A v \in Worker : \A i \in DOMAIN batch[v] : i \in Nat \ {0} /\ batch[v][i] \in Entry
        /\ \A v \in Worker : \A i \in DOMAIN batch'[v] : i \in Nat \ {0} /\ batch'[v][i] \in Entry
    <2>1. \A v \in Worker : batch[v] \in Seq(Entry) /\ batch'[v] \in Seq(Entry)
      BY TypeStep DEF TypeOK
    <2>2. \A v \in Worker : \A i \in DOMAIN batch[v] : i \in Nat \ {0} /\ batch[v][i] \in Entry
      BY <2>1
    <2>3. \A v \in Worker : \A i \in DOMAIN batch'[v] : i \in Nat \ {0} /\ batch'[v][i] \in Entry
      BY <2>1
    <2>4. \A e \in Entry : attempts[e] \in Nat /\ deliveries[e] \in Nat /\ attempts[e] <= deliveries[e]
      BY DEF TypeOK, StartToSpare
    <2> QED
      BY <2>2, <2>3, <2>4
  <1>1. ASSUME NEW w \in Worker, StartHandler(w) PROVE Attempts'
    <2>1. /\ pc[w] = "loop" /\ pc' = [pc EXCEPT ![w] = "handling"]
          /\ UNCHANGED <<deliveries, batch>>
          /\ deliveries[Current(w)] <= MaxDeliveries
          /\ attempts' = [attempts EXCEPT ![Current(w)] = @ + 1]
      <3>1. Current(w) \in Entry
        BY <1>1, CurrentType DEF StartHandler, Busy, PC
      <3> QED
        BY <1>0, <1>1, <3>1, BoundsAssumption DEF StartHandler, Exceeds, Goto, broker
    <2>2. Current(w) \in Entry /\ Current(w) = batch[w][1] /\ 1 \in DOMAIN batch[w]
      BY <2>1, CurrentType DEF Busy, PC
    <2>3. attempts[Current(w)] < deliveries[Current(w)]
      BY <2>1, <2>2 DEF StartToSpare
    <2>4. \A e \in Entry : attempts'[e] = IF e = Current(w) THEN attempts[e] + 1 ELSE attempts[e]
      BY <2>1, <2>2 DEF TypeOK
    <2>5. AttemptBudget'
      BY <1>0, <2>1, <2>2, <2>3, <2>4, BoundsAssumption DEF AttemptBudget
    <2>6. \A e \in Entry : attempts'[e] <= deliveries'[e]
      BY <1>0, <2>1, <2>2, <2>3, <2>4
    <2>7. ASSUME NEW v \in Worker, NEW i \in DOMAIN batch'[v], pc'[v] = "loop" \/ i > 1
          PROVE  attempts'[batch'[v][i]] < deliveries'[batch'[v][i]]
      <3>1. i \in DOMAIN batch[v] /\ batch'[v][i] = batch[v][i]
        BY <2>1, <2>7
      <3>2. batch[v][i] # Current(w)
        <4>1. CASE v # w
          BY <2>2, <3>1, <4>1 DEF BatchesDisjoint
        <4>2. CASE v = w
          <5>1. i > 1
            BY <2>1, <2>7, <4>2 DEF TypeOK
          <5>2. batch[w][1] < batch[w][i] /\ batch[w][1] \in Entry /\ batch[w][i] \in Entry
            BY <1>0, <2>2, <3>1, <4>2, <5>1 DEF BatchIsOwn
          <5> QED
            BY <2>2, <4>2, <5>2 DEF Entry
        <4> QED
          BY <4>1, <4>2
      <3>3. pc[v] = "loop" \/ i > 1
        BY <2>1, <2>7 DEF TypeOK
      <3> QED
        BY <1>0, <2>1, <2>4, <3>1, <3>2, <3>3 DEF StartToSpare
    <2> QED
      BY <2>5, <2>6, <2>7 DEF StartToSpare
  <1>2. ASSUME ~(\E w \in Worker : StartHandler(w)) PROVE UNCHANGED attempts
    BY <1>2 DEF vars, Next, Run, Disturb, Publish, Consume, ConsumeFails, BreakBatch,
                ExceedsMaxDeliveries, HandlerCommits, HandlerFails, CommitAnswerLost, Ack,
                AckFails, DlqPublish, DlqAudit, DlqAck, DeadLetterFails, Exit, Stop, Crash, Restart
  <1>3. ASSUME UNCHANGED attempts, UNCHANGED <<cursor, owner, deliveries, batch, incarnation>>
        PROVE  Attempts'
    <2>1. \A v \in Worker : pc'[v] = "loop" /\ batch[v] # <<>> => pc[v] = "loop"
      <3> SUFFICES ASSUME NEW v \in Worker, pc'[v] = "loop", batch[v] # <<>> PROVE pc[v] = "loop"
        OBVIOUS
      <3>1. batch[v] \in Seq(Entry) /\ batch'[v] = batch[v]
        BY <1>3 DEF TypeOK
      <3>2. batch'[v] # Tail(batch[v])
        <4>1. Len(Tail(batch[v])) # Len(batch[v])
          BY <3>1
        <4> QED
          BY <3>1, <4>1
      <3>3. ~Consume(v)
        BY DEF Consume, BatchInHand, Busy
      <3> QED
        BY <3>2, <3>3, LoopStep
    <2>2. \A v \in Worker : \A i \in DOMAIN batch[v] : batch[v] # <<>>
      OBVIOUS
    <2> QED
      BY <1>3, <2>1, <2>2 DEF StartToSpare, AttemptBudget
  <1>4. ASSUME UNCHANGED attempts, NEW w \in Worker, Drops(w) PROVE Attempts'
    <2>1. UNCHANGED deliveries
      BY <1>4 DEF Drops
    <2>2. ASSUME NEW v \in Worker, NEW i \in DOMAIN batch'[v], pc'[v] = "loop" \/ i > 1
          PROVE  attempts[batch'[v][i]] < deliveries[batch'[v][i]]
      <3>1. PICK d \in {0, 1} : i \in Nat \ {0} /\ i + d \in DOMAIN batch[v] /\ batch'[v][i] = batch[v][i + d]
        BY <1>4, DropsSuffix
      <3>2. CASE i > 1
        BY <3>1, <3>2 DEF StartToSpare
      <3>3. CASE pc'[v] = "loop" /\ pc[v] = "loop" /\ batch'[v] = batch[v]
        BY <3>3 DEF StartToSpare
      <3>4. CASE batch[v] # <<>> /\ batch'[v] = Tail(batch[v])
        <4>1. batch[v] \in Seq(Entry)
          BY DEF TypeOK
        <4>2. i + 1 \in DOMAIN batch[v] /\ batch'[v][i] = batch[v][i + 1] /\ i + 1 > 1
          BY <3>1, <3>4, <4>1
        <4> QED
          BY <4>2 DEF StartToSpare
      <3>5. CASE Consume(v)
        <4>1. pc[v] = "idle" /\ batch[v] = <<>>
          BY <3>5 DEF Consume, BatchInHand, Busy
        <4> QED
          BY <3>1, <4>1
      <3> QED
        BY <2>2, <3>2, <3>3, <3>4, <3>5, LoopStep
    <2> QED
      BY <1>4, <2>1, <2>2 DEF StartToSpare, AttemptBudget
  <1>5. ASSUME UNCHANGED attempts, NEW w \in Worker, Consume(w) \/ ConsumeFails(w) PROVE Attempts'
    <2>1. pc[w] = "idle" /\ batch[w] = <<>>
      BY <1>5 DEF Consume, ConsumeFails, BatchInHand, Busy
    <2>2. PICK s \in Reads(w) :
             /\ IsRead(s, Readable(w)) /\ Deliver(w, s)
             /\ \/ UNCHANGED <<pc, batch>>
                \/ batch' = [batch EXCEPT ![w] = s] /\ Goto(w, "loop")
      BY <1>5 DEF Consume, ConsumeFails, process
    <2>3. /\ \A v \in Worker : v # w => batch'[v] = batch[v] /\ pc'[v] = pc[v]
          /\ batch'[w] = <<>> \/ batch'[w] = s
      BY <2>1, <2>2 DEF TypeOK, Goto
    <2>4. \A v \in Worker : \A i \in DOMAIN batch[v] : \A j \in DOMAIN s : batch[v][i] # s[j]
      BY <2>1, <2>2, ReadIsFresh
    <2>5. \A e \in Entry : attempts'[e] <= deliveries'[e]
      <3>1. \A e \in Entry : deliveries'[e] >= deliveries[e] /\ deliveries'[e] \in Nat
        BY <2>2, DeliverEffect, TypeStep DEF TypeOK
      <3> QED
        BY <1>0, <1>5, <3>1
    <2>6. \A v \in Worker : \A i \in DOMAIN batch[v] : deliveries'[batch[v][i]] = deliveries[batch[v][i]]
      BY <1>0, <2>2, <2>4, DeliverEffect
    <2>7. \A i \in DOMAIN s : s[i] \in Entry /\ attempts[s[i]] < deliveries'[s[i]]
      <3>1. \A i \in DOMAIN s : s[i] \in Entry
        <4>1. s \in Seq(Entry)
          BY <2>2, ReadType
        <4> QED
          BY <4>1
      <3>2. \A i \in DOMAIN s : deliveries'[s[i]] = deliveries[s[i]] + 1
        BY <2>2, DeliverEffect
      <3> QED
        BY <1>0, <3>1, <3>2
    <2>8. ASSUME NEW v \in Worker, NEW i \in DOMAIN batch'[v], pc'[v] = "loop" \/ i > 1
          PROVE  attempts'[batch'[v][i]] < deliveries'[batch'[v][i]]
      <3>1. CASE v # w
        BY <1>5, <2>3, <2>6, <2>8, <3>1 DEF StartToSpare
      <3>2. CASE v = w
        BY <1>5, <2>3, <2>7, <3>2
      <3> QED
        BY <3>1, <3>2
    <2> QED
      BY <1>5, <2>5, <2>8 DEF StartToSpare, AttemptBudget
  <1>6. ASSUME UNCHANGED attempts, NEW w \in Worker, Restart(w) PROVE Attempts'
    <2>1. UNCHANGED <<deliveries, batch>> /\ \A v \in Worker : pc'[v] = "loop" => pc[v] = "loop"
      BY <1>6 DEF Restart, Goto, broker, TypeOK
    <2> QED
      BY <1>6, <2>1 DEF StartToSpare, AttemptBudget
  <1> QED
    BY <1>1, <1>2, <1>3, <1>4, <1>5, <1>6, StepKinds

------------------------------------------------------------------------------
(* The theorems.                                                             *)

LEMMA IInvInit == Init => IInv
  BY BoundsAssumption
  DEF Init, IInv, TypeOK, BatchInHand, BatchIsOwn, BatchesDisjoint, AckAfterCommit,
      AuditAfterCopy, DlqAckAfterAudit, StartToSpare, AuditHasItsCopy, SettledIsAccountedFor,
      AttemptBudget, Settled, Busy, PC, Entry, DlqExhausted, DeadLetterAfterMaxDeliveries,
      CopiesAccounted

LEMMA IInvStep == IInv /\ [Next]_vars => IInv'
  BY TypeStep, BatchStep, EffectsStep, SettledStep, AttemptStep, LettersStep
  DEF IInv, Effects, Attempts, Letters

LEMMA IInvariant == Spec => []IInv
  BY IInvInit, IInvStep, PTL DEF Spec

\* Every variable stays in its type.
THEOREM TypeCorrect == Spec => []TypeOK
  BY IInvariant, PTL DEF IInv

\* An entry leaves the group only once its handler's transaction has committed
\* or the dead-letter queue and the audit log have it.
THEOREM SettledAccounted == Spec => []SettledIsAccountedFor
  BY IInvariant, PTL DEF IInv

\* The dead-letter queue and the audit log agree on what was given up: no audit
\* entry without its copy, no copy without its audit entry beyond what failed or
\* is in hand, and only after queue.max_deliveries deliveries.
THEOREM DeadLettersAccount == Spec => []DeadLettersAccounted
  <1>1. IInv => DeadLettersAccounted
    <2> SUFFICES ASSUME IInv PROVE DeadLettersAccounted
      OBVIOUS
    <2>1. CopyHasItsAudit
      BY CopiesInHand DEF IInv, CopiesAccounted, CopyHasItsAudit
    <2> QED
      BY <2>1 DEF IInv, DeadLettersAccounted
  <1> QED
    BY <1>1, IInvariant, PTL

\* No message starts its handler more than queue.max_deliveries times.
THEOREM AttemptsBounded == Spec => []AttemptBudget
  BY IInvariant, PTL DEF IInv

\* No entry is in two hands, or in a hand while pending for another consumer.
THEOREM DeliveryExclusive == Spec => []ExclusiveDelivery
  <1>1. IInv => ExclusiveDelivery
    BY DEF IInv, BatchIsOwn, BatchesDisjoint, ExclusiveDelivery
  <1> QED
    BY <1>1, IInvariant, PTL

------------------------------------------------------------------------------
(* The runner implements AtLeastOnce.                                        *)

\* What is not yet dealt with is still pending for the process that holds it:
\* its handler can commit for no settled message.
HeldIsPending ==
    \A w \in Worker : \A i \in DOMAIN batch[w] :
        (pc[w] \in {"loop", "handling", "ack"} \/ i > 1) => owner[batch[w][i]] = Name(w)

LEMMA HeldStep ==
    ASSUME TypeOK, BatchInHand, BatchIsOwn, BatchesDisjoint, HeldIsPending, [Next]_vars
    PROVE  HeldIsPending'
  <1> DEFINE InTime(w) == pc[w] \in {"loop", "handling", "ack"}
             Held(w) == \A i \in DOMAIN batch[w] : (InTime(w) \/ i > 1) => owner[batch[w][i]] = Name(w)
             Mine(w) == Raise(w) \/ Advance(w) \/ Failed(w)
  <1>0. SUFFICES \A v \in Worker : Held(v)'
    BY DEF HeldIsPending
  <1>1. \A v \in Worker : Held(v) /\ batch[v] \in Seq(Entry)
    BY DEF HeldIsPending, TypeOK
  <1>2. CASE UNCHANGED <<owner, pc, batch, incarnation>>
    BY <1>1, <1>2 DEF Name
  \* The message in hand is not among the later ones of the batch, nor in
  \* another batch.
  <1>3. ASSUME NEW w \in Worker, batch[w] # <<>>
        PROVE  /\ Current(w) = batch[w][1] /\ 1 \in DOMAIN batch[w]
               /\ \A i \in DOMAIN batch[w] : i > 1 => batch[w][i] # Current(w)
               /\ \A v \in Worker \ {w} : \A i \in DOMAIN batch[v] : batch[v][i] # Current(w)
    <2>1. Current(w) = batch[w][1] /\ 1 \in DOMAIN batch[w]
      BY <1>1, <1>3 DEF Current
    <2>2. \A i \in DOMAIN batch[w] : batch[w][i] \in Nat
      <3>1. \A i \in DOMAIN batch[w] : batch[w][i] \in Entry
        BY <1>1
      <3> QED
        BY <3>1 DEF Entry
    <2>3. \A i \in DOMAIN batch[w] : i > 1 => batch[w][i] # Current(w)
      BY <2>1, <2>2 DEF BatchIsOwn
    <2> QED
      BY <2>1, <2>3 DEF BatchesDisjoint
  \* What a process does to its own batch and first message leaves the others
  \* alone.
  <1>4. ASSUME NEW w \in Worker, NEW v \in Worker \ {w}, Drops(w), pc'[v] = pc[v] PROVE Held(v)'
    <2>1. batch'[v] = batch[v] /\ Name(v)' = Name(v)
      BY <1>4 DEF Drops, Name, TypeOK
    <2>2. \A i \in DOMAIN batch[v] : owner'[batch[v][i]] = owner[batch[v][i]]
      <3>1. CASE owner' = owner
        BY <3>1
      <3>2. CASE batch[w] # <<>> /\ owner' = [owner EXCEPT ![Current(w)] = NoOne]
        <4>1. \A i \in DOMAIN batch[v] : batch[v][i] \in Entry /\ batch[v][i] # Current(w)
          BY <1>1, <1>3, <3>2
        <4> QED
          BY <3>2, <4>1 DEF TypeOK
      <3> QED
        BY <1>4, <3>1, <3>2 DEF Drops
    <2> QED
      BY <1>1, <1>4, <2>1, <2>2
  <1>5. ASSUME NEW w \in Worker, batch'[w] = <<>> PROVE Held(w)'
    BY <1>5
  <1>6. ASSUME NEW w \in Worker, pc[w] \in Busy, UNCHANGED <<batch, incarnation>>,
               owner' = owner \/ owner' = [owner EXCEPT ![Current(w)] = NoOne],
               ~InTime(w)'
        PROVE  Held(w)'
    <2>1. batch[w] # <<>> /\ \A i \in DOMAIN batch[w] : batch[w][i] \in Entry
      BY <1>1, <1>6 DEF BatchInHand
    <2>2. \A i \in DOMAIN batch[w] : i > 1 => owner'[batch[w][i]] = owner[batch[w][i]]
      BY <1>3, <1>6, <2>1 DEF TypeOK
    <2> QED
      BY <1>1, <1>6, <2>2 DEF Name
  <1>7. ASSUME NEW w \in Worker, pc[w] \in Busy, Acknowledge(Current(w)), Advance(w) PROVE Held(w)'
    <2>1. batch[w] # <<>> /\ batch'[w] = Tail(batch[w]) /\ Name(w)' = Name(w)
      BY <1>7 DEF BatchInHand, Advance, Name, TypeOK
    <2>2. \A i \in DOMAIN batch'[w] :
              i \in Nat \ {0} /\ i + 1 \in DOMAIN batch[w] /\ batch'[w][i] = batch[w][i + 1] /\ batch'[w][i] \in Entry
      BY <1>1, <2>1
    <2>3. \A i \in DOMAIN batch'[w] : owner'[batch'[w][i]] = owner[batch'[w][i]]
      BY <1>3, <1>7, <2>1, <2>2 DEF Acknowledge, TypeOK
    <2> QED
      BY <1>1, <2>1, <2>2, <2>3
  <1>8. CASE UNCHANGED vars \/ Publish
    BY <1>2, <1>8 DEF vars, Publish, process, broker
  <1>9. ASSUME NEW w \in Worker,
               \/ ExceedsMaxDeliveries(w) \/ StartHandler(w) \/ HandlerCommits(w)
               \/ DlqPublish(w) \/ DlqAudit(w) \/ Stop(w)
        PROVE  /\ UNCHANGED <<owner, batch, incarnation>>
               /\ InTime(w)' => InTime(w)
               /\ \A v \in Worker \ {w} : pc'[v] = pc[v]
    BY <1>9 DEF ExceedsMaxDeliveries, StartHandler, HandlerCommits, DlqPublish, DlqAudit, Stop,
                Goto, broker, TypeOK
  <1>10. ASSUME NEW w \in Worker,
               \/ HandlerFails(w) \/ CommitAnswerLost(w) \/ AckFails(w) \/ DeadLetterFails(w)
               \/ Ack(w) \/ DlqAck(w) \/ BreakBatch(w) \/ Crash(w)
        PROVE  Held(w)' /\ Drops(w) /\ \A v \in Worker \ {w} : pc'[v] = pc[v]
    <2>1. \A v \in Worker \ {w} : pc'[v] = pc[v]
      BY <1>10 DEF HandlerFails, CommitAnswerLost, AckFails, DeadLetterFails, Ack, DlqAck, BreakBatch,
                   Crash, Failed, Advance, Raise, Goto, TypeOK
    <2>2. CASE BreakBatch(w) \/ Crash(w) \/ DeadLetterFails(w)
      <3>1. batch'[w] = <<>>
        BY <2>2 DEF BreakBatch, Crash, DeadLetterFails, Raise, TypeOK
      <3>2. Drops(w)
        <4>1. DeadLetterFails(w) => batch[w] # <<>>
          BY DEF DeadLetterFails, BatchInHand, Busy, PC
        <4> QED
          BY <2>2, <4>1 DEF BreakBatch, Crash, DeadLetterFails, Raise, Acknowledge, broker, Drops
      <3> QED
        BY <1>5, <2>1, <3>1, <3>2
    <2>3. CASE Ack(w) \/ DlqAck(w)
      <3>1. pc[w] \in Busy /\ Acknowledge(Current(w)) /\ Advance(w) /\ batch[w] # <<>>
        BY <2>3 DEF Ack, DlqAck, Busy, PC, BatchInHand
      <3>2. Drops(w)
        BY <3>1 DEF Acknowledge, Advance, Drops
      <3> QED
        BY <1>7, <2>1, <3>1, <3>2
    <2>4. CASE HandlerFails(w) \/ CommitAnswerLost(w) \/ AckFails(w)
      <3>1. /\ pc[w] \in Busy /\ batch[w] # <<>> /\ Failed(w)
            /\ UNCHANGED broker \/ Acknowledge(Current(w))
        BY <2>4 DEF HandlerFails, CommitAnswerLost, AckFails, Busy, PC, BatchInHand
      <3>2. Drops(w)
        BY <3>1 DEF Failed, Raise, Acknowledge, broker, Drops
      <3>3. Held(w)'
        <4>1. CASE Raise(w)
          <5>1. batch'[w] = <<>>
            BY <4>1 DEF Raise, TypeOK
          <5> QED
            BY <1>5, <5>1
        <4>2. CASE Goto(w, "dlq_publish") /\ UNCHANGED <<batch, stopping, incarnation>>
          <5>1. ~InTime(w)'
            BY <4>2 DEF Goto, TypeOK
          <5> QED
            BY <1>6, <3>1, <4>2, <5>1 DEF Acknowledge, broker
        <4> QED
          BY <3>1, <4>1, <4>2 DEF Failed
      <3> QED
        BY <2>1, <3>2, <3>3
    <2> QED
      BY <1>10, <2>2, <2>3, <2>4
  <1>11. ASSUME NEW w \in Worker, Exit(w) \/ Restart(w) PROVE \A v \in Worker : Held(v)'
    <2>1. batch'[w] = <<>> /\ UNCHANGED <<batch, owner>>
      BY <1>11 DEF Exit, Restart, broker, BatchInHand, Busy
    <2>2. \A v \in Worker \ {w} : pc'[v] = pc[v] /\ Name(v)' = Name(v)
      BY <1>11 DEF Exit, Restart, Goto, Name, TypeOK
    <2> QED
      BY <1>1, <1>5, <2>1, <2>2
  <1>12. ASSUME NEW w \in Worker, Consume(w) \/ ConsumeFails(w) PROVE \A v \in Worker : Held(v)'
    <2>1. pc[w] = "idle" /\ batch[w] = <<>>
      BY <1>12 DEF Consume, ConsumeFails, BatchInHand, Busy
    <2>2. PICK s \in Reads(w) :
             /\ IsRead(s, Readable(w)) /\ Deliver(w, s)
             /\ \/ UNCHANGED <<pc, batch>>
                \/ batch' = [batch EXCEPT ![w] = s] /\ Goto(w, "loop")
      BY <1>12 DEF Consume, ConsumeFails, process
    <2>3. /\ \A v \in Worker : v # w => batch'[v] = batch[v] /\ pc'[v] = pc[v]
          /\ batch'[w] = <<>> \/ batch'[w] = s
          /\ \A v \in Worker : Name(v)' = Name(v)
      BY <1>12, <2>1, <2>2 DEF TypeOK, Goto, Consume, ConsumeFails, process, Name
    <2>4. \A v \in Worker : \A i \in DOMAIN batch[v] : \A j \in DOMAIN s : batch[v][i] # s[j]
      BY <2>1, <2>2, ReadIsFresh
    <2>5. \A v \in Worker : \A i \in DOMAIN batch[v] : owner'[batch[v][i]] = owner[batch[v][i]]
      <3>1. \A v \in Worker : \A i \in DOMAIN batch[v] : batch[v][i] \in Entry
        BY <1>1
      <3> QED
        BY <2>2, <2>4, <3>1, DeliverEffect
    <2>6. \A i \in DOMAIN s : owner'[s[i]] = Name(w)
      BY <2>2, DeliverEffect
    <2> QED
      BY <1>1, <2>3, <2>5, <2>6
  <1>13. ASSUME NEW w \in Worker,
               \/ ExceedsMaxDeliveries(w) \/ StartHandler(w) \/ HandlerCommits(w)
               \/ DlqPublish(w) \/ DlqAudit(w) \/ Stop(w)
        PROVE  \A v \in Worker : Held(v)'
    <2>1. UNCHANGED <<owner, batch, incarnation>>
      BY <1>9, <1>13
    <2>2. \A v \in Worker : InTime(v)' => InTime(v)
      BY <1>9, <1>13
    <2> QED
      BY <1>1, <2>1, <2>2 DEF Name
  <1>14. ASSUME NEW w \in Worker,
               \/ HandlerFails(w) \/ CommitAnswerLost(w) \/ AckFails(w) \/ DeadLetterFails(w)
               \/ Ack(w) \/ DlqAck(w) \/ BreakBatch(w) \/ Crash(w)
        PROVE  \A v \in Worker : Held(v)'
    BY <1>4, <1>10, <1>14
  <1> QED
    BY <1>8, <1>11, <1>12, <1>13, <1>14 DEF Next, Run, Disturb

\* Settled entries stay settled, and the steps that settle one do nothing else
\* the promise speaks of.
LEMMA SettledGrows ==
    ASSUME TypeOK, [Next]_vars, NEW e \in Entry, Settled(e)
    PROVE  Settled(e)'
  <1> USE DEF Settled, broker, TypeOK
  <1>1. CASE UNCHANGED vars \/ Publish
    BY <1>1 DEF vars, Publish
  <1>2. ASSUME NEW w \in Worker,
               \/ BreakBatch(w) \/ ExceedsMaxDeliveries(w) \/ StartHandler(w)
               \/ HandlerFails(w) \/ HandlerCommits(w) \/ CommitAnswerLost(w)
               \/ DlqPublish(w) \/ DlqAudit(w) \/ Exit(w) \/ Stop(w) \/ Crash(w) \/ Restart(w)
        PROVE  UNCHANGED broker
    BY <1>2 DEF BreakBatch, ExceedsMaxDeliveries, StartHandler, HandlerFails, HandlerCommits,
                CommitAnswerLost, DlqPublish, DlqAudit, Exit, Stop, Crash, Restart
  <1>3. ASSUME NEW w \in Worker, Ack(w) \/ AckFails(w) \/ DlqAck(w) \/ DeadLetterFails(w)
        PROVE  UNCHANGED broker \/ Acknowledge(Current(w))
    BY <1>3 DEF Ack, AckFails, DlqAck, DeadLetterFails
  <1>4. ASSUME NEW w \in Worker, UNCHANGED broker \/ Acknowledge(Current(w)) PROVE Settled(e)'
    BY <1>4 DEF Acknowledge
  <1>5. ASSUME NEW w \in Worker, Consume(w) \/ ConsumeFails(w) PROVE Settled(e)'
    <2>1. PICK s \in Reads(w) : IsRead(s, Readable(w)) /\ Deliver(w, s)
      BY <1>5 DEF Consume, ConsumeFails
    <2>2. \A i \in DOMAIN s : s[i] # e
      <3>1. \A i \in DOMAIN s : s[i] \in Readable(w)
        BY <2>1, ReadType
      <3>2. Name(w) # NoOne
        BY NamesDiffer
      <3>3. e \notin OwnPending(w) /\ e \notin Unread
        <4>1. cursor \in Nat /\ e \in Nat
          BY DEF Entry
        <4> QED
          BY <3>2, <4>1 DEF OwnPending, Unread
      <3> QED
        BY <3>1, <3>3 DEF Readable
    <2>3. owner'[e] = owner[e] /\ cursor' \in Nat /\ cursor <= cursor'
      BY <2>1, <2>2, DeliverEffect
    <2>4. cursor \in Nat /\ e \in Nat
      BY DEF Entry
    <2> QED
      BY <2>3, <2>4
  <1> QED
    BY <1>1, <1>2, <1>3, <1>4, <1>5 DEF Next, Run, Disturb

\* Each step of the system is a step of the promise, or none.
LEMMA PromiseStep ==
    ASSUME IInv, HeldIsPending, [Next]_vars
    PROVE  [Promise!Next]_(Promise!vars)
  <1> DEFINE Dead == {e \in Entry : deadLetters[e] > 0}
             Audited == {e \in Entry : audits[e] > 0}
             Done == {e \in Entry : Settled(e)}
  <1> USE DEF IInv
  <1>0. TypeOK /\ BatchInHand /\ BatchIsOwn /\ Effects /\ HeldIsPending
    BY DEF Effects
  \* Settling happens by acknowledging the message in hand.
  <1>1. ASSUME NEW w \in Worker, pc[w] \in Busy, Acknowledge(Current(w))
        PROVE  Done' = Done \cup {Current(w)}
    <2>1. Current(w) \in Entry /\ Current(w) <= cursor
      BY <1>0, <1>1, CurrentType DEF BatchIsOwn
    <2> QED
      BY <1>0, <1>1, <2>1 DEF Acknowledge, Settled, TypeOK
  <1>2. UNCHANGED broker => Done' = Done
    BY DEF broker, Settled
  <1>3. UNCHANGED deadLetters => Dead' = Dead
    OBVIOUS
  <1>4. UNCHANGED audits => Audited' = Audited
    OBVIOUS
  <1>5. ASSUME NEW w \in Worker, pc[w] \in Busy, CopyEffect(w)
        PROVE  Dead' = Dead \cup {Current(w)}
    <2>1. Current(w) \in Entry
      BY <1>0, <1>5, CurrentType
    <2>2. \A e \in Entry : deadLetters'[e] = IF e = Current(w) THEN deadLetters[e] + 1 ELSE deadLetters[e]
      BY <1>0, <1>5, <2>1 DEF CopyEffect, TypeOK
    <2>3. \A e \in Entry : deadLetters[e] \in Nat
      BY <1>0 DEF TypeOK
    <2> QED
      BY <2>1, <2>2, <2>3
  <1>6. ASSUME NEW w \in Worker, pc[w] \in Busy, AuditEffect(w)
        PROVE  Audited' = Audited \cup {Current(w)}
    <2>1. Current(w) \in Entry
      BY <1>0, <1>6, CurrentType
    <2>2. \A e \in Entry : audits'[e] = IF e = Current(w) THEN audits[e] + 1 ELSE audits[e]
      BY <1>0, <1>6, <2>1 DEF AuditEffect, TypeOK
    <2>3. \A e \in Entry : audits[e] \in Nat
      BY <1>0 DEF TypeOK
    <2> QED
      BY <2>1, <2>2, <2>3
  <1>8. ASSUME committed' = committed, Dead' = Dead, Audited' = Audited, Done' = Done
        PROVE  UNCHANGED Promise!vars
    BY <1>8 DEF Promise!vars
  <1>9. ASSUME UNCHANGED vars PROVE UNCHANGED Promise!vars
    BY <1>2, <1>3, <1>4, <1>8, <1>9 DEF vars, effects
  <1>10. ASSUME Publish PROVE UNCHANGED Promise!vars
    BY <1>2, <1>3, <1>4, <1>8, <1>10 DEF Publish, effects, Settled
  <1>11. ASSUME NEW w \in Worker,
               \/ BreakBatch(w) \/ ExceedsMaxDeliveries(w) \/ StartHandler(w) \/ HandlerFails(w)
               \/ Exit(w) \/ Stop(w) \/ Crash(w) \/ Restart(w)
        PROVE  UNCHANGED Promise!vars
    <2>1. UNCHANGED <<broker, effects>>
      BY <1>11 DEF BreakBatch, ExceedsMaxDeliveries, StartHandler, HandlerFails, Exit, Stop, Crash, Restart
    <2> QED
      BY <1>2, <1>3, <1>4, <1>8, <2>1 DEF effects
  <1>12. ASSUME NEW w \in Worker, Consume(w) \/ ConsumeFails(w) PROVE UNCHANGED Promise!vars
    <2>1. UNCHANGED effects
      BY <1>12 DEF Consume, ConsumeFails
    <2>2. Done' = Done
      <3> SUFFICES ASSUME NEW e \in Entry PROVE Settled(e)' <=> Settled(e)
        OBVIOUS
      <3>1. Settled(e) => Settled(e)'
        BY <1>0, SettledGrows
      <3>2. ~Settled(e) => ~Settled(e)'
        BY <1>0, <1>12, ReadSettlesNothing
      <3> QED
        BY <3>1, <3>2
    <2> QED
      BY <1>3, <1>4, <1>8, <2>1, <2>2 DEF effects
  <1>13. ASSUME NEW w \in Worker, HandlerCommits(w) \/ CommitAnswerLost(w)
         PROVE  Promise!Handle(Current(w)) /\ Current(w) \in Entry
    <2>1. pc[w] = "handling" /\ pc[w] \in Busy
      BY <1>13 DEF HandlerCommits, CommitAnswerLost, Busy, PC
    <2>2. Current(w) \in Entry /\ Current(w) = batch[w][1] /\ 1 \in DOMAIN batch[w]
      BY <1>0, <2>1, CurrentType
    <2>3. owner[Current(w)] = Name(w) /\ Name(w) # NoOne
      BY <1>0, <2>1, <2>2, NamesDiffer DEF HeldIsPending
    <2>4. Current(w) \notin Done
      BY <2>3 DEF Settled
    <2>5. UNCHANGED <<broker, deadLetters, audits>> /\ CommitEffect(w)
      BY <1>13 DEF HandlerCommits, CommitAnswerLost
    <2> QED
      BY <1>2, <1>3, <1>4, <2>2, <2>4, <2>5 DEF Promise!Handle, CommitEffect
  <1>14. ASSUME NEW w \in Worker, Ack(w) \/ AckFails(w)
         PROVE  UNCHANGED Promise!vars \/ (Promise!Settle({Current(w)}) /\ Current(w) \in Entry)
    <2>1. pc[w] = "ack" /\ pc[w] \in Busy
      BY <1>14 DEF Ack, AckFails, Busy, PC
    <2>2. UNCHANGED effects /\ (UNCHANGED broker \/ Acknowledge(Current(w)))
      BY <1>14 DEF Ack, AckFails
    <2>3. Current(w) \in Entry /\ Current(w) \in committed
      BY <1>0, <2>1, CurrentType DEF AckAfterCommit
    <2>4. CASE UNCHANGED broker
      BY <1>2, <1>3, <1>4, <1>8, <2>2, <2>4 DEF effects
    <2>5. CASE Acknowledge(Current(w))
      BY <1>1, <1>3, <1>4, <2>1, <2>2, <2>3, <2>5 DEF effects, Promise!Settle
    <2> QED
      BY <2>2, <2>4, <2>5
  <1>15. ASSUME NEW w \in Worker,
               DlqPublish(w) \/ DlqAudit(w) \/ DlqAck(w) \/ DeadLetterFails(w)
         PROVE  /\ Current(w) \in Entry
                /\ \/ UNCHANGED Promise!vars
                   \/ Promise!DeadLetter(Current(w)) \/ Promise!Audit(Current(w)) \/ Promise!Settle({Current(w)})
    <2>1. pc[w] \in Busy
      BY <1>15 DEF DlqPublish, DlqAudit, DlqAck, DeadLetterFails, Busy, PC
    <2>2. Current(w) \in Entry
      BY <1>0, <2>1, CurrentType
    <2>3. /\ UNCHANGED committed
          /\ \/ CopyEffect(w) /\ UNCHANGED <<broker, audits>>
             \/ pc[w] = "dlq_audit" /\ AuditEffect(w) /\ UNCHANGED <<broker, deadLetters>>
             \/ pc[w] = "dlq_ack" /\ Acknowledge(Current(w)) /\ UNCHANGED <<deadLetters, audits>>
             \/ UNCHANGED <<broker, deadLetters, audits>>
      BY <1>15 DEF DlqPublish, DlqAudit, DlqAck, DeadLetterFails, effects
    <2>4. CASE CopyEffect(w) /\ UNCHANGED <<broker, audits>>
      BY <1>2, <1>4, <1>5, <2>1, <2>2, <2>3, <2>4 DEF Promise!DeadLetter
    <2>5. CASE pc[w] = "dlq_audit" /\ AuditEffect(w) /\ UNCHANGED <<broker, deadLetters>>
      <3>1. Current(w) \in Dead
        <4>1. /\ audits[Current(w)] < deadLetters[Current(w)]
              /\ audits[Current(w)] \in Nat /\ deadLetters[Current(w)] \in Nat
          BY <1>0, <2>2, <2>5 DEF AuditAfterCopy, TypeOK
        <4> QED
          BY <2>2, <4>1
      <3> QED
        BY <1>2, <1>3, <1>6, <2>1, <2>2, <2>3, <2>5, <3>1 DEF Promise!Audit
    <2>6. CASE pc[w] = "dlq_ack" /\ Acknowledge(Current(w)) /\ UNCHANGED <<deadLetters, audits>>
      <3>1. Current(w) \in Audited
        BY <1>0, <2>2, <2>6 DEF DlqAckAfterAudit
      <3> QED
        BY <1>1, <1>3, <1>4, <2>1, <2>2, <2>3, <2>6, <3>1 DEF Promise!Settle
    <2>7. CASE UNCHANGED <<broker, deadLetters, audits>>
      <3>1. UNCHANGED broker /\ UNCHANGED deadLetters /\ UNCHANGED audits
        BY <2>7
      <3>2. Done' = Done
        BY <1>2, <3>1
      <3>3. Dead' = Dead
        BY <1>3, <3>1
      <3>4. Audited' = Audited
        BY <1>4, <3>1
      <3> QED
        BY <1>8, <2>2, <2>3, <3>2, <3>3, <3>4
    <2> QED
      BY <2>2, <2>3, <2>4, <2>5, <2>6, <2>7
  <1>16. UNCHANGED Promise!vars \/ Promise!Next
    <2>1. ASSUME NEW w \in Worker, Run(w) \/ Disturb(w) \/ Restart(w)
          PROVE  UNCHANGED Promise!vars \/ Promise!Next
      <3>1. CASE \/ BreakBatch(w) \/ ExceedsMaxDeliveries(w) \/ StartHandler(w) \/ HandlerFails(w)
                 \/ Exit(w) \/ Stop(w) \/ Crash(w) \/ Restart(w)
        BY <1>11, <3>1
      <3>2. CASE Consume(w) \/ ConsumeFails(w)
        BY <1>12, <3>2
      <3>3. CASE HandlerCommits(w) \/ CommitAnswerLost(w)
        BY <1>13, <3>3 DEF Promise!Next
      <3>4. CASE Ack(w) \/ AckFails(w)
        BY <1>14, <3>4 DEF Promise!Next
      <3>5. CASE DlqPublish(w) \/ DlqAudit(w) \/ DlqAck(w) \/ DeadLetterFails(w)
        <4>1. Current(w) \in Entry
          BY <1>15, <3>5
        <4>2. \/ UNCHANGED Promise!vars
              \/ Promise!DeadLetter(Current(w)) \/ Promise!Audit(Current(w)) \/ Promise!Settle({Current(w)})
          BY <1>15, <3>5
        <4> QED
          BY <4>1, <4>2 DEF Promise!Next, Promise!DeadLetter, Promise!Audit, Promise!Settle
      <3> QED
        BY <2>1, <3>1, <3>2, <3>3, <3>4, <3>5 DEF Run, Disturb
    <2> QED
      BY <1>9, <1>10, <2>1 DEF Next
  <1> QED
    BY <1>16

\* The runner and the Redis driver implement the promise AtLeastOnce.
THEOREM RunnerImplementsAtLeastOnce == Spec => ImplementsAtLeastOnce
  <1>1. Init => Promise!Init
    BY BoundsAssumption DEF Init, Promise!Init, Settled, Entry
  <1>2. Init => HeldIsPending
    BY DEF Init, HeldIsPending
  <1>3. IInv /\ HeldIsPending /\ [Next]_vars => HeldIsPending'
    BY HeldStep DEF IInv
  <1>4. IInv /\ HeldIsPending /\ [Next]_vars => [Promise!Next]_(Promise!vars)
    BY PromiseStep
  <1> QED
    BY <1>1, <1>2, <1>3, <1>4, IInvariant, PTL DEF Spec, ImplementsAtLeastOnce, Promise!Spec
==============================================================================
