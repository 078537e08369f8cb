---------------------------- MODULE MCAuditChain -----------------------------
(* Instances of AuditChain for TLC.                                          *)
EXTENDS AuditChain

CONSTANTS w1, w2

TwoWriters == {w1, w2}
NoneLate == {}
SecondLate == {w2}
==============================================================================
