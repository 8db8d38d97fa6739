CONSTANTS
    s1 = s1
    s2 = s2
    PageSize = 1
    Cap = 2
    MaxAttempts = 2
    Lookback = 1
    Slots <- TwoSlots
    Kinds <- Damaged
    OtherStreams = 0
    TieLimit = 2
    MaxTime = 2
    MaxRecords = 3
    MaxCrashes = 1
SPECIFICATION FairSpec
PROPERTIES EventuallyHandled PollsEnd
