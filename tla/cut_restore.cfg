SPECIFICATION Spec
CONSTANTS
    Session = {s1}
    NoSession = none
    MaxLines = 2
    BatchEvents = 1
    MaxFaults = 0
    MaxCrashes = 1
    MaxCycles = 2
    MaxAsks = 1
INVARIANTS
    PurgedCompleteInStore
CHECK_DEADLOCK FALSE
