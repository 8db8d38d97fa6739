CONSTANTS
    Transports <- TcpAndUdp
    QueueSize = 2
    WireCap = 1
    MaxMsgs = 4
    MaxConns = 3
SPECIFICATION FairReceiverSpec
INVARIANTS IInv Accounted SendOrder DrainedWhenStopped
PROPERTIES ImplementsChannel QueueMoves ExitEnds
CHECK_DEADLOCK FALSE
