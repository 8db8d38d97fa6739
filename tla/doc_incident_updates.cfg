CONSTANTS
    s1 = s1
    s2 = s2
    PageSize = 1
    Cap = 4
    MaxAttempts = 1
    Lookback = 2
    Slots <- OneSlot
    Kinds <- GoodOnly
    OtherStreams = 1
    TieLimit = 2
    MaxTime = 3
    MaxRecords = 4
    MaxCrashes = 0
SPECIFICATION IncidentSpec
INVARIANTS UpdatesCaptured
