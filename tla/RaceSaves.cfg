SPECIFICATION Spec
CONSTANTS
    Panels = {1, 2}
    Athletes = {1, 2}
    Elapsed = {1, 2}
    Judges <- SplitJudges
    MaxRuns = 2
    MaxResets = 1
    MaxResumes = 1
    MaxVoids = 0
    MaxSwaps = 0
    MaxRefused = 1
    MaxFlags = 0
    MaxAwards = 0
    MaxDnfs = 0
    MaxEdits = 0
    MaxAll = 9
    PromptServer = TRUE
CHECK_DEADLOCK FALSE
INVARIANTS
    ClocksAgree
    OneTimePerRun
    TimesAreTheClocks

