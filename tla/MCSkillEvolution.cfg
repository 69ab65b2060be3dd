\* Two requests at a time, one of which may die.
SPECIFICATION Spec
CONSTANTS
    Proposals = {p1, p2}
    Requests = {r1, r2}
    Files = {md, extra}
    Main = md
    OpBound = 4
    CrashBound = 1
    None = None
SYMMETRY Symmetry
CHECK_DEADLOCK FALSE
INVARIANTS
    AppliedOnItsBase
    IndexMirrors
    OnlyCheckedContent
