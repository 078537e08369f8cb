CONSTANTS
    w1 = w1
    w2 = w2
    Writer <- TwoWriters
    Late <- SecondLate
    NumShards = 2
    Genesis = 2
    MaxEntries = 6
    MaxRolls = 0
SPECIFICATION FairSpec
PROPERTY
    EveryTransactionEnds
CHECK_DEADLOCK FALSE
