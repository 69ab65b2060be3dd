\* Three threads share a circuit that needs two failed calls to open; the
\* upstream fails and comes back.
SPECIFICATION FairSpec
CONSTANTS
    Callers = {c1, c2, c3}
    Attempts = 2
    Threshold = 2
INVARIANTS
    CBTypeOK
    TripIsEarned
    ThresholdTrips
PROPERTY
    Recovers
