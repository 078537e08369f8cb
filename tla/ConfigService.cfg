SPECIFICATION Spec
CONSTANTS
    w1 = w1
    w2 = w2
    c1 = c1
    Writer = {w1, w2}
    Client = {c1}
    MaxClock = 3
    MaxVersions = 3
    MaxRestarts = 1
    TTL = 2
SYMMETRY Symmetry
INVARIANTS
    OneLineageUnlessOverlapped
    StaleHasAReason
CHECK_DEADLOCK FALSE
