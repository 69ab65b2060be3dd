\* One API request and one scheduler dispatch the same row; nothing crashes.
SPECIFICATION Spec
CONSTANTS
    Jobs = {j1}
    Keys = {k1}
    CronKeys = {}
    Clients = {c1}
    Schedulers = {s1}
    Workers = {w1, w2}
    MaxAttempts = 2
    MaxDispatch = 2
    AttemptBound = 2
    CopyBound = 2
    CrashBound = 0
    WorkerCrashBound = 0
    CancelBound = 0
    TroubleBound = 0
    None = None
SYMMETRY Symmetry
INVARIANT
    QueuedJobIsCarried
