CONSTANTS
    w1 = w1
    w2 = w2
    Writer <- TwoWriters
    Late <- SecondLate
    NumShards = 2
    Genesis = 1
    MaxEntries = 4
    MaxRolls = 2
SPECIFICATION Spec
INVARIANTS
    VerifiesUnlessContended
    PrevIsCommitted
    WitnessedHistory
CHECK_DEADLOCK FALSE
