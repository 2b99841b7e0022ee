SPECIFICATION Spec
CONSTANTS
    Clients = {"small", "timing", "large"}
    May <- Alone
    Athletes = {1, 2, 3, 4, 5, 6, 7, 8, 9}
    Discipline = "speed"
    Elapsed = {5}
    Marks <- SomeMarks
    MaxAthletes = 300
    PostRounds = {}
    Overrides = {"auto", "quarter"}
    Shifts <- AloneShifts
    Prompt = TRUE
    Counted <- Corrections
    Budget <- AloneBudget
CHECK_DEADLOCK FALSE
INVARIANTS
    EveryonePlaced
    FirmRanksFitTheirSource
PROPERTIES
    FirmRanksStay
    PlayedStaysPlayed
