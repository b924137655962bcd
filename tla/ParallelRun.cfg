SPECIFICATION FairSpec
CONSTANTS
    N = 3
    ConcurrentTasks = 2
    Timeouts = {TRUE, FALSE}
    InitResults = {TRUE, FALSE}
    Fates = {"returns", "raises", "raises_long", "fails", "hangs"}
INVARIANTS
    TypeOK
    NoSurvivors
    SlotsAccounted
    CleanIsComplete
PROPERTIES
    Returns
CHECK_DEADLOCK FALSE
