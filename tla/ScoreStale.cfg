SPECIFICATION Spec
CONSTANTS
    Desks = {1}
    Athletes = {1, 2, 3}
    Marks = {0, 1}
    Judges <- LeadJudges
    Paces = {"hasty"}
    MaxSaves = 2
    MaxMoves = 0
    MaxBoard = 1
    MaxRefused = 0
    Typed <- TypedByPace
    MaxAll <- MaxTogether
CHECK_DEADLOCK FALSE
INVARIANTS
    SavedIsOwn
