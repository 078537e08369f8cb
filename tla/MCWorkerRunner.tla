--------------------------- MODULE MCWorkerRunner ----------------------------
(* Two workers of one group; a restarted one keeps its consumer name or has  *)
(* a new one.                                                                *)
EXTENDS WorkerRunner

CONSTANTS w1, w2

TwoWorkers == {w1, w2}
KeepOrRename == {TRUE, FALSE}
==============================================================================
