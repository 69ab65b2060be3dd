\* One task asked for and cancelled by two threads, two tasks at the agent, two troubles.
SPECIFICATION FairSpec
CONSTANTS
    Tasks = {t1}
    Remotes = {n1, n2}
    Requests = {r1, r2}
    MaxAttempts = 2
    EventBound = 1
    TroubleBound = 2
    AdminBound = 1
    None = None
CHECK_DEADLOCK FALSE
INVARIANTS
    LogIsExact
    AgreesWithAgent
    OrphansHaveACause
PROPERTY
    OnlyStreamsHang
