\* Two refreshes at a time, one call, two changes, two troubles, two refreshes besides starts.
SPECIFICATION Spec
CONSTANTS
    lenient = lenient
    strict = strict
    look = look
    Configs <- MCConfigs
    Tools = {look}
    Reads <- MCReads
    Refreshers = {f1, f2}
    Calls = {c1}
    MaxAttempts = 2
    AdminBound = 2
    TroubleBound = 2
    RefreshBound = 2
    None = None
SYMMETRY Symmetry
CHECK_DEADLOCK FALSE
INVARIANTS
    ConnectedWasTried
    OneSnapshot
    HandSetKept
    CallsFollowTheRow
