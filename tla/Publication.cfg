SPECIFICATION Spec
SYMMETRY Symmetry
CONSTANTS
    r1 = r1
    r2 = r2
    g1 = g1
    Group = {g1}
    l1 = l1
    l2 = l2
    Leaf = {l1, l2}
    NumPositions = 4
    Request = {r1, r2}
    MaxPlacements = 4
    MaxRecords = 2
    MaxConflicts = 1
INVARIANTS
    VersionsContiguous
    IndexNamesGapsUnlessRaced
PROPERTY
    GateHoldsUnlessRaced
CHECK_DEADLOCK FALSE
