\* Two notes, and two edits, reviews, overlaps or crashes.
SPECIFICATION Spec
CONSTANTS
    n1 = n1
    n2 = n2
    Notes = {n1, n2}
    NoteRank <- MCNoteRank
    k1 = k1
    k2 = k2
    Names = {k1, k2}
    NoteContents <- MCNoteContents
    StartNotes <- MCStartNotes
    RepairLimit = 5
    ErrorLimit = 4
    OpBound = 2
    None = None
INVARIANTS
    ReferencesHold
    SufficientIsBacked
    TwoPassesConverge
