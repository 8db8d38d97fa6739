CONSTANTS
    s1 = s1
    s2 = s2
    PageSize = 1
    Cap = 3
    MaxAttempts = 1
    Lookback = 1
    Slots <- OneSlot
    Kinds <- UntimedOnly
    OtherStreams = 1
    TieLimit = 1
    MaxTime = 2
    MaxRecords = 2
    MaxCrashes = 0
SPECIFICATION FairSpec
PROPERTIES StateAdvances
