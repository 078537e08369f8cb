CONSTANTS
    w1 = w1
    w2 = w2
    x1 = x1
    x2 = x2
    x3 = x3
    p1 = p1
    p2 = p2
    c1 = c1
    c2 = c2
    Worker <- TwoWorkers
    Field <- TwoFields
    Page <- OnePage
    PageOf <- SamePage
    ClusterOf <- SameCluster
    Outcome <- NovelOrNot
    MaxScores = 2
SPECIFICATION Spec
SYMMETRY Symmetry
INVARIANTS
    ExactlyOneOutcome
    AlertsListDecided
    ProcessedIsBacked
PROPERTY
    DecisionsAreFinal
CHECK_DEADLOCK FALSE
