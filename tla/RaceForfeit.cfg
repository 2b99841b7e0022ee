SPECIFICATION Spec
CONSTANTS
    Panels = {1, 2}
    Athletes = {1, 2}
    Elapsed = {1, 2}
    Judges <- SplitJudges
    MaxRuns = 1
    MaxResets = 0
    MaxResumes = 0
    MaxVoids = 0
    MaxSwaps = 0
    MaxRefused = 0
    MaxFlags = 2
    MaxAwards = 0
    MaxDnfs = 0
    MaxEdits = 0
    MaxAll = 2
    PromptServer = TRUE
CHECK_DEADLOCK FALSE
PROPERTIES
    ForfeitNeverScores
