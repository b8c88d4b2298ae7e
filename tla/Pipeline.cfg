CONSTANTS
    f1 = f1
    f2 = f2
    Files = {f1, f2}
    Uploaded = {f1, f2}
    LastVersion <- TwoAndOne
    Unreadable <- Malformed
    Rowless <- HeaderOnly
    Devices = {"p1"}
    MaxPolls = 1
    RebuildEvery = 2
    MaxDeletes = 1
    MaxFaults = 1
    Nobody = Nobody
    NoFile = NoFile
    Nothing = Nothing
SPECIFICATION FairSpec
INVARIANTS SkippedIsStored
PROPERTIES NothingVanishes ImplementsRollups RollupsCatchUp EveryFileSettles
