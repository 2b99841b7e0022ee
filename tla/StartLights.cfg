SPECIFICATION FairSpec
CONSTANTS
    Panels = {1, 2}
    PreBeepGap = 2
    LightStep = 1
    Throttled <- Background
    MaxLate = 2
    StartDelay = 1
    Latency = 1
    Hasty = FALSE
    MaxStarts = 2
    MaxAborts = 2
    MaxResets = 1
    MaxPress = 7
CHECK_DEADLOCK FALSE
INVARIANTS
    SurfacesAgree
    DisplayRunsTheRace
    GoIsTheSeeds
    StepsOnSchedule
PROPERTIES
    SequencesKept
    GoComes
