SPECIFICATION Spec
CONSTANTS
    Desks = {1, 2}
    Athletes = {1, 2, 3}
    Marks = {0, 1}
    Judges <- SharedJudges
    Paces = {"patient", "brisk"}
    MaxSaves = 3
    MaxMoves = 1
    MaxBoard = 2
    MaxRefused = 1
    Typed <- TypedByPace
    MaxAll <- MaxTogether
CHECK_DEADLOCK FALSE
INVARIANTS
    SavedIsTheRow
    WinnerFollowsScores
    PendingIsAsked
PROPERTIES
    WinnerNeedsTwoRows
