CONSTANTS
    Lines <- TextLines
    MaxBytes = 10
    MaxSent = 2
SPECIFICATION FairSpec
INVARIANTS IInv LinePerFrame
PROPERTIES LinesArrive
CHECK_DEADLOCK FALSE
