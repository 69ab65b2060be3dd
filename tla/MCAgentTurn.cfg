\* One turn of two rounds, interrupted twice, and two decisions at a time.
SPECIFICATION Spec
CONSTANTS
    Approvals = {a1, a2}
    Requests = {q1, q2}
    MaxRounds = 2
    MaxCalls = 2
    TurnBound = 1
    DecisionBound = 2
    None = None
SYMMETRY Symmetry
CHECK_DEADLOCK FALSE
INVARIANTS
    TranscriptComplete
    EditsReachTheModel
    GatedCallWasDecided
    RoundsBounded
