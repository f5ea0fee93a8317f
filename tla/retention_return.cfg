SPECIFICATION Spec
CONSTANTS
    Session = {s1}
    NoSession = none
    MaxLines = 2
    BatchEvents = 1
    MaxFaults = 0
    MaxCrashes = 1
    MaxCycles = 1
    MaxAsks = 1
PROPERTIES
    EveryLineIngested
    RowsReachTheTimeline
CHECK_DEADLOCK FALSE
