CONSTANTS
    QueueSize = 1
    MaxLines = 1
    MaxRecords = 2
    MaxEnds = 2
SPECIFICATION FairSpec
INVARIANTS IInv
PROPERTIES CleanExit Reaches ImplementsOutboxes
