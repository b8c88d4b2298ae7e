CONSTANTS
    run = run
    night = night
    poller = poller
    NoEpisode = NoEpisode
    Episodes = {run, night}
    Callers = {poller}
    Owner <- OwnedByPoller
    Via <- TierOfEach
    MaxSends = 4
    MaxFaults = 1
SPECIFICATION FairSpec
INVARIANTS CountBacked AckSilences NightOnce
PROPERTIES Spaced FirstAlertArrives
