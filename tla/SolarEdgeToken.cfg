CONSTANTS
    p1 = p1
    p2 = p2
    Authoriser = Authoriser
    Nobody = Nobody
    NoPair = NoPair
    Pollers = {p1, p2}
    MaxGrants = 2
    MaxEnded = 1
    MaxGets = 1
    MaxRuns = 3
    MaxFaults = 1
SPECIFICATION Spec
INVARIANTS TypeOK NoRaceKillsTheGrant UsedIsSaved AlertsExcused WarningsExcused
PROPERTY FileMovesOn
SYMMETRY PollerSymmetry
