SPECIFICATION SeriesSpec
CONSTANTS
    Panels = {1, 2}
    Athletes = {1, 2}
    Elapsed = {1, 2}
    Judges <- SplitJudges
    MaxRuns = 2
    MaxResets = 1
    MaxResumes = 0
    MaxVoids = 1
    MaxSwaps = 1
    MaxRefused = 0
    MaxFlags = 2
    MaxAwards = 1
    MaxDnfs = 1
    MaxEdits = 1
    MaxAll = 3
    PromptServer = TRUE
CHECK_DEADLOCK FALSE
INVARIANTS
    OneWinPerRun
    TallyIsLedger
    MatchFollowsTally

