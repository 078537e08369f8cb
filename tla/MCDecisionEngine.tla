--------------------------- MODULE MCDecisionEngine --------------------------
(* Instances of DecisionEngine for TLC.                                      *)
EXTENDS DecisionEngine, TLC

CONSTANTS w1, w2, x1, x2, x3, p1, p2, c1, c2

OneWorker == {w1}
TwoWorkers == {w1, w2}

\* One page, one cluster; and two pages that share a cluster with a field of
\* each other.
TwoFields == {x1, x2}
OnePage == {p1}
SamePage == [x \in TwoFields |-> p1]
SameCluster == [x \in TwoFields |-> c1]

ThreeFields == {x1, x2, x3}
TwoPages == {p1, p2}
SplitPages == [x \in ThreeFields |-> IF x = x3 THEN p2 ELSE p1]
SplitClusters == [x \in ThreeFields |-> IF x = x2 THEN c2 ELSE c1]

NovelOrNot == {"outside_calibrated_regime", "audit_sample"}
AllOutcomes == ValidOutcome
Symmetry == Permutations(TwoWorkers)
==============================================================================
