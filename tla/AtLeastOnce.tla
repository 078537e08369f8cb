----------------------------- MODULE AtLeastOnce -----------------------------
(***************************************************************************)
(* What the queue infrastructure promises at each of its two hops, from an *)
(* outbox row to the broker and from the broker to a handler: a message    *)
(* may be handled, and may be copied to the dead-letter queue, any number  *)
(* of times; it is settled (the hop is done with it for good) only when it *)
(* has been handled, or dead-lettered with an audit entry; and a settled   *)
(* message is never handled again.                                         *)
(*                                                                         *)
(* Nothing here knows about consumers, deliveries, batches, row locks or   *)
(* crashes.                                                                *)
(***************************************************************************)
CONSTANT Entry      (* the messages of the queue *)

VARIABLES
    handled,        (* messages some handler transaction committed for     *)
    dead,           (* messages with a copy in the dead-letter queue       *)
    audited,        (* messages whose dead-lettering was audited           *)
    settled         (* messages acknowledged, never to be delivered again  *)

vars == <<handled, dead, audited, settled>>

Init ==
    /\ handled = {}
    /\ dead = {}
    /\ audited = {}
    /\ settled = {}

Handle(e) ==
    /\ e \notin settled
    /\ handled' = handled \cup {e}
    /\ UNCHANGED <<dead, audited, settled>>

\* A copy may be made of a message that is already settled: the answer to an
\* acknowledgement can be lost on its way back.
DeadLetter(e) ==
    /\ dead' = dead \cup {e}
    /\ UNCHANGED <<handled, audited, settled>>

Audit(e) ==
    /\ e \in dead
    /\ audited' = audited \cup {e}
    /\ UNCHANGED <<handled, dead, settled>>

\* Several messages may be settled at once.
Settle(S) ==
    /\ S \subseteq handled \cup audited
    /\ settled' = settled \cup S
    /\ UNCHANGED <<handled, dead, audited>>

Next ==
    \/ \E e \in Entry : Handle(e) \/ DeadLetter(e) \/ Audit(e)
    \/ \E S \in SUBSET Entry : Settle(S)

Spec == Init /\ [][Next]_vars
==============================================================================
