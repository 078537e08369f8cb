---------------------------- MODULE MCOutboxRelay ----------------------------
(* An instance of OutboxRelay for TLC: two relays.                            *)
EXTENDS OutboxRelay

CONSTANTS r1, r2

TwoRelays == {r1, r2}
==============================================================================
