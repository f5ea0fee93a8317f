SPECIFICATION Spec
CONSTANTS
    Session = {s1}
    NoSession = none
    MaxLines = 2
    BatchEvents = 1
    MaxFaults = 1
    MaxCrashes = 1
    MaxCycles = 2
    MaxAsks = 1
INVARIANTS
    TypeOK
    NothingLost
    Accounted
    DigestComplete
    
    RollupExact
PROPERTIES
    DeletesOnlyExported
CHECK_DEADLOCK FALSE
