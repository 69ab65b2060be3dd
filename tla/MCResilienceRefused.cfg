\* Two threads: one is refused while the other's call succeeds.
SPECIFICATION CBSpec
CONSTANTS
    Callers = {c1, c2}
    Attempts = 1
    Threshold = 1
INVARIANT
    RefusedAsOpen
