SPECIFICATION Spec
CONSTANTS
    MaxRead = 2
    AdmitLines = 2
    MaxLen = 4
    MaxCrashes = 1
    MaxFaults = 1
    MaxTruncates = 1
PROPERTIES
    CaughtUpInTheEnd
CHECK_DEADLOCK FALSE
