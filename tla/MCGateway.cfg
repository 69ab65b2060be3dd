\* A limit of one per two ticks and a cache of one nonce, so that both fill up.
\* Without a Redis client the process's counter admits two in a row, the last of
\* one window and the first of the next.
SPECIFICATION Spec
CONSTANTS
    Nonces = {n1, n2}
    Requests = {r1, r2}
    Limit = 1
    Window = 2
    Skew = 1
    Drift = {0, 1}
    CacheSize = 1
    MaxAttempts = 2
    MaxTime = 3
    DeliverBound = 3
    TroubleBound = 1
    AdminBound = 1
    None = None
SYMMETRY Symmetry
CHECK_DEADLOCK FALSE
INVARIANTS
    HandledOnce
    ConfigKept
    BurstBounded
    CounterExpires
