SPECIFICATION Spec
SYMMETRY Symmetry
CONSTANTS
    o1 = o1
    o2 = o2
    r1 = r1
    r2 = r2
    NumTasks = 1
    Checked = {1}
    Sampled = {1}
    Officer = {o1, o2}
    Rescan = {x1}
    x1 = x1
    Request = {r1, r2}
    MaxClock = 2
INVARIANTS
    OnceUnlessOverlapped
    TwoPairsOfEyes
PROPERTIES
    ThroughThePool
CHECK_DEADLOCK FALSE
