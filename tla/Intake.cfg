SPECIFICATION FairSpec
CONSTANTS
    a = a
    f = f
    g = g
    Source = {a, f}
    Dropped = {f}
    WellFormed = {a, f}
    Surveyed = {a}
    DigestOf <- MCDigestOf
    NumPages = 1
    ClassOf <- MCClassOf
    Worker = {w1, w2}
    w1 = w1
    w2 = w2
    MaxDeliveries = 2
    MaxPromotions = 1
    MaxFaults = 1
INVARIANTS
    CustodyBeforeRow
    OnceUnlessOverlapped
    OneVersionPerPage
PROPERTIES
    GoodFilesLostHalfWay
    PinnedForever
    EveryDocumentRouted
CHECK_DEADLOCK FALSE
