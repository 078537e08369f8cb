CONSTANTS
    r1 = r1
    r2 = r2
    Relay <- TwoRelays
    MaxRows = 3
    BatchSize = 2
    MaxFaults = 2
SPECIFICATION FairSpec
INVARIANTS
    BatchesDisjoint
    CopiesNeedFaults
PROPERTIES
    ImplementsAtLeastOnce
    EveryRowDispatched
CHECK_DEADLOCK FALSE
