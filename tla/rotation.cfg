CONSTANTS
    MaxBytes = 2
    BackupCount = 2
    MaxLines = 6
    MaxDay = 3
    MaxFaults = 2
    MaxCrashes = 1
SPECIFICATION Spec
INVARIANTS IInv Chronicle DaysApart DiskBounded DrainedAtExit
CHECK_DEADLOCK FALSE
