CONSTANTS
    s1 = s1
    s2 = s2
    PageSize = 1
    Cap = 3
    MaxAttempts = 2
    Lookback = 1
    Slots <- OneSlot
    Kinds <- AnyKind
    OtherStreams = 1
    TieLimit = 2
    MaxTime = 3
    MaxRecords = 3
    MaxCrashes = 1
SPECIFICATION Spec
INVARIANTS IInv TypeOK NoGap CursorAttained QueueAhead
PROPERTIES ImplementsFeed NoRewind CursorMonotone
