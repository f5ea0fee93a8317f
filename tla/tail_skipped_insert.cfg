SPECIFICATION Spec
CONSTANTS
    MaxRead = 3
    AdmitLines = 2
    MaxLen = 5
    MaxCrashes = 0
    MaxFaults = 1
    MaxTruncates = 0
INVARIANTS
    NoLineSkipped
CHECK_DEADLOCK FALSE
