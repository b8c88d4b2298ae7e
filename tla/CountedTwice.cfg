CONSTANTS
    Moments <- TwoDays
    Primary = "combined"
    Fallback = "tariff"
    Writes <- PowerWrites
    Exported = {2, 3}
    MeterStart = 2
    MaxMishaps = 0
SPECIFICATION UsageSpec
CHECK_DEADLOCK FALSE
INVARIANT CountedOnce
