CONSTANTS
    Parts = {"plans"}
    MaxChunk = 2
    QueueCap = 2
    Req = {r1, r2}
    MaxInput = 2
    MaxParts = 2
    Ctl = {a, b}
    FirstKeyed = 2
    NoCtl = none
    MaxRelease = 3
    MaxCrash = 1
    Pty = {y1}
    MaxPlan = 2
    MaxBranchDepth = 1
    PhaseRoom <- TwoAndOne
    AskStatus = {"blocked", "completed"}
    AskPlan = {"active", "completed", "canceled"}
    Term = {y1}
    Conv = {c1, c2}
    MaxLaunch = 2
    Model = {m1, m2}
    Launch = m1
    MaxSwitch = 3
    MaxTurn = 2
    MaxFault = 1
    Text = {t1}
    MaxSent = 2
    Skew = 1
    Name = {1, 2}
    MaxOps = 2
    MaxRepoFault = 1
    HeadBranch = {b1, b2}
    MaxChange = 3
    MaxCheck = 2
    Commit = {1, 2, 3}
    Deploy = {1, 2, 3}
    MaxFail = 1
    Caller = {p1, p2}
    Key = {k1, k2}
    Taken = k2
    MaxRun = 2
    MaxCall = 2
    Attempts = 1
    Secret = {s1, s2}
    EnvVar = {v1, v2}
    MaxUnlock = 2
    MaxEdit = 1
    MaxKey = 2
    MaxSigned = 2
    LastMinute = 7
    Ahead = 1
    LastTime = 3
    MaxLogin = 2
    CacheTTL = 2
    Cooldown = 1
    MaxBack = 1
SPECIFICATION Spec
INVARIANT NoStrandedBranch
CHECK_DEADLOCK FALSE
