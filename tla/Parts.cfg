CONSTANTS
    Metrics <- TwoMetrics
    Step = 45
    Horizon = 270
    MaxRows = 2
    BackAt = 0
    Back = 0

    Pollers = {timer, manual}
    Nil = Nil
    LastDay = 4
    MaxSpan = 2
    MonthLength = 2
    MaxFaults = 1

    LastNight = 4
    MinHistory = 1
    MaxRefreshes = 1
    MaxRestarts = 1

    Moments <- ThreeDaysAndAMonthLater
    Primary = "combined"
    Fallback = "tariff"
    Writes <- PowerWrites
    Exported = {2, 3}
    MeterStart = 2
    MaxMishaps = 1

    Amounts <- SmallAmounts
    MaxDays = 2

    LogDays = 3
    SlotsPerDay = 2
    Counts = {0, 2}
    BridgeDays = 1
    MaxEntries = 3
SPECIFICATION Spec
INVARIANTS SilenceIsReported AskedOncePerDay HolesWereAsked HolesAreTheArchives RerunTells
           TotalsReconcile FullDaysAreExact NoPhantomUsage RibbonsSum OnlyForcedFallback MajorityOfTheDay
CHECK_DEADLOCK FALSE
