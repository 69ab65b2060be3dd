\* Two API requests and one scheduler, two workers, a cancel or a crashed
\* transaction; the first failed send dead-letters a row.
SPECIFICATION Spec
CONSTANTS
    Jobs = {j1, j2}
    Keys = {k1}
    CronKeys = {}
    Clients = {c1, c2}
    Schedulers = {s1}
    Workers = {w1, w2}
    MaxAttempts = 2
    MaxDispatch = 1
    AttemptBound = 2
    CopyBound = 2
    CrashBound = 1
    WorkerCrashBound = 0
    CancelBound = 1
    TroubleBound = 1
    None = None
SYMMETRY Symmetry
INVARIANTS
    TypeOK
    OneJobPerKey
    DispatchedWasSent
    OutcomeRecorded
    FirstDispatchSurvives
