CONSTANTS
    w1 = w1
    w2 = w2
    Worker <- TwoWorkers
    MaxEntries = 2
    MaxDeliveries = 2
    BatchCount = 2
    MaxFaults = 2
    RestartKeeps <- KeepOrRename
SPECIFICATION FairSpec
INVARIANTS
    SettledIsAccountedFor
    DeadLettersAccounted
    AttemptBudget
    ExclusiveDelivery
PROPERTIES
    ImplementsAtLeastOnce
    EverySettledUnlessOrphaned
CHECK_DEADLOCK FALSE
