CONSTANTS
    p1 = p1
    p2 = p2
    Authoriser = Authoriser
    Nobody = Nobody
    NoPair = NoPair
    Pollers = {p1, p2}
    MaxGrants = 2
    MaxEnded = 0
    MaxGets = 2
    MaxRuns = 2
    MaxFaults = 1
SPECIFICATION FairSpec
PROPERTY EveryRunEnds
