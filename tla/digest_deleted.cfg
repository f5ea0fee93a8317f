CONSTANTS
    Parts = {"rebuild"}
    Line <- Shapes
    MaxLine = 3
    MaxBehind = 1
    MaxOffset = 3
    MaxGeneration = 2
    PageSize = 1
    NEvents = 2
    MaxReindex = 1
    MaxStop = 2
    Receipt <- Receipts
    Record <- Records
    MaxStored = 4
    LastDay = 2
    Fork = 3
    File = {f1, f2}
    MaxEdit = 2
    MaxTrouble = 1
    LastSource = 3
    Digest = 3
    Block = {1}
    MaxText = 2
    MaxRun = 1
    MaxUpset = 1
    Root = {a, b}
    MaxServers = 1
    MaxRequest = 2
    MaxChange = 1
    MaxMishap = 1
SPECIFICATION Spec
INVARIANT DigestKept
CHECK_DEADLOCK FALSE
