SPECIFICATION Spec
CONSTANTS
    Panels = {1, 2}
    BreakMs = 1
    Preset <- ShortPresets
    Drafts = {1}
    Patient = TRUE
    MaxTime = 4
    MaxStarts = 2
    MaxBreakTakes = 1
    MaxArms = 2
    MaxReloads = 1
    MaxAll = 2
CHECK_DEADLOCK FALSE
INVARIANTS
    LanesAgree
    BudgetIsSpentOnce
    TurnsAlternate
    PlateKeepsItsPromise
PROPERTIES
    PauseIsNotReanchored
