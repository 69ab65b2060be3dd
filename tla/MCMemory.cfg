\* Three memories, two requests at a time, two proposals, one trouble.
SPECIFICATION Spec
CONSTANTS
    Ids = {m1, m2, m3}
    Contents <- MCContents
    FirstLine <- MCFirstLine
    Requests = {r1, r2}
    Proposals = {p1, p2}
    EditedLines <- MCEditedLines
    CandidateLimit = 1
    OpBound = 4
    TroubleBound = 1
    None = None
SYMMETRY Symmetry
CHECK_DEADLOCK FALSE
INVARIANTS
    MirrorWhenCalm
    ReplacedIsHidden
    ConflictsNoted
    FileComplete
