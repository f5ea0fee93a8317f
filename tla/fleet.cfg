CONSTANTS
    Pty = {p1}
    MaxBoot = 2
    Conn = {c1, c2, c3}
    NoConn = noconn
    Key = {k1, k2}
    NoKey = nokey
    MaxFaults = 1
    Old = old
    New = new
    NoIdent = noident
    MaxSpawns = 2
    MaxBreaks = 1
SPECIFICATION Spec
INVARIANTS
    FleetTypeOK
    DeadMeansExited
PROPERTIES
    RegistryHolds
    ReapSparesShells
    RegistrySettles
    ShellsHaveNoHusk
CHECK_DEADLOCK FALSE
