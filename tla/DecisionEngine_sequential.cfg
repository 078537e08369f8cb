CONSTANTS
    w1 = w1
    w2 = w2
    x1 = x1
    x2 = x2
    x3 = x3
    p1 = p1
    p2 = p2
    c1 = c1
    c2 = c2
    Worker <- OneWorker
    Field <- ThreeFields
    Page <- TwoPages
    PageOf <- SplitPages
    ClusterOf <- SplitClusters
    Outcome <- AllOutcomes
    MaxScores = 1
SPECIFICATION Spec
INVARIANTS
    SequentialPromise
CHECK_DEADLOCK FALSE
