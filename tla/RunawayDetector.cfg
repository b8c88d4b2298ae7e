CONSTANTS
    BucketLen = 2
    Trail = 2
    ZeroTolerance = 1
    MaxTime = 8
    MaxMissed = 2
    Draws = {0, 3}
    StaleGap = 1
    G2Min = 2
    G3Min = 1
    NightStart = 2
    NightEnd = 9
    AwaySlack = 2
    Gates <- SmallGates
    MaxEvents = 1
SPECIFICATION Spec
INVARIANTS OpenIsCurrent NotCountedTwice OneWindow
PROPERTIES RunHasNoStaleGap BackgroundEvidence RowKeepsGate ExcusedStaysQuiet
