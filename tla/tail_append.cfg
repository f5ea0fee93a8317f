SPECIFICATION Spec
CONSTANTS
    MaxRead = 3
    AdmitLines = 2
    MaxLen = 5
    MaxCrashes = 1
    MaxFaults = 1
    MaxTruncates = 0
INVARIANTS
    TypeOK
    StoredExactly
PROPERTIES
    EveryLineConsumed
    ImplementsLog
CHECK_DEADLOCK FALSE
