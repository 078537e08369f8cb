CONSTANTS
    w1 = w1
    w2 = w2
    Writer <- TwoWriters
    Late <- NoneLate
    NumShards = 1
    Genesis = 0
    MaxEntries = 3
    MaxRolls = 0
SPECIFICATION Spec
INVARIANT
    NoTwoFromOnePrev
CHECK_DEADLOCK FALSE
