\* The algorithms on bounded inputs; an input that was judged is at its end.
SPECIFICATION CaseSpec
CONSTANTS
    Scale = 4
    None = None
    Absent = Absent
    Inputs <- MCInputs
    Evidence <- MCEvidence
    MinSamples <- MCMin
    MaxStatements = 5
INVARIANTS
    SteadyIsEarned
    RoutedSafely
    CalibratorIsSound
    MapIsFaithful
    LayoutIsKept
    ReadingsReachTheRecord
    ReadsAreLawful
CHECK_DEADLOCK FALSE
