SPECIFICATION Spec
CONSTANTS
    Panels = {1, 2}
    DefaultCap = 1
    FinalCap = 2
    DefaultTryMs = 30
    Windows = {30, 20}
    Abreast = TRUE
    OpenResets = FALSE
    InOrder = TRUE
    MaxTries = 2
    MaxArms = 2
    MaxLeaves = 1
    MaxTweaks = 1
    MaxNotes = 1
    MaxAll = 5
CHECK_DEADLOCK FALSE
INVARIANTS
    QuietRoomShowsTheSeries
PROPERTIES
    SpentTriesStaySpent
    OwnWindowStaysOpen
