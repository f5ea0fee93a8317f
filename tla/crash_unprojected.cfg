SPECIFICATION Spec
CONSTANTS
    Session = {s1}
    NoSession = none
    MaxLines = 1
    BatchEvents = 1
    MaxFaults = 0
    MaxCrashes = 1
    MaxCycles = 0
    MaxAsks = 0
PROPERTIES
    InsertedIsProjected
CHECK_DEADLOCK FALSE
