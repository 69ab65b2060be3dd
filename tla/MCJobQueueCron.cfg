\* One scheduler is the only producer and the only dispatcher.  It, the workers
\* and the clock keep going, but one worker may die.
SPECIFICATION FairSpec
CONSTANTS
    Jobs = {j1, j2}
    Keys = {k1, k2}
    CronKeys = {k1, k2}
    Clients = {}
    Schedulers = {s1}
    Workers = {w1, w2}
    MaxAttempts = 2
    MaxDispatch = 2
    AttemptBound = 3
    CopyBound = 2
    CrashBound = 0
    WorkerCrashBound = 1
    CancelBound = 0
    TroubleBound = 0
    None = None
INVARIANTS
    ExclusiveExecution
    EffectOnce
    OutcomesAgree
PROPERTIES
    RefinesLifecycle
    AcceptedJobsFinish
