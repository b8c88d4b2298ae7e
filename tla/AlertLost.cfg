CONSTANTS
    run = run
    night = night
    poller = poller
    NoEpisode = NoEpisode
    Episodes = {run}
    Callers = {poller}
    Owner <- OwnedByPoller
    Via <- TierOfEach
    MaxSends = 2
    MaxFaults = 1
SPECIFICATION FairSpec
PROPERTY FailedSendNeverLost
