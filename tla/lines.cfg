CONSTANTS
    Letters <- AllLetters
    Formats <- AllFormats
    MaxLen = 2
    RecordsOf <- Records
SPECIFICATION Spec
INVARIANTS TypeOK ReadsBack OneLine NothingVanishes
CHECK_DEADLOCK FALSE
