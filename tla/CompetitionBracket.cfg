SPECIFICATION Spec
CONSTANTS
    Clients = {"organiser", "panel", "desk", "planner", "referee", "remover", "timing", "judge", "clerk"}
    May <- Office
    Athletes = {1, 2, 3, 4}
    Discipline = "speed"
    Elapsed = {15}
    Marks <- SomeMarks
    MaxAthletes = 3
    PostRounds = {"qualification"}
    Overrides = {"auto"}
    Shifts <- OfficeShifts
    Prompt = FALSE
    Counted <- Requests
    Budget <- OfficeBudget
CHECK_DEADLOCK FALSE
INVARIANTS
    OneRowPerSlot
    KeepsReferenced

    
