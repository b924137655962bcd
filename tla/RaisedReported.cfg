SPECIFICATION Spec
CONSTANTS
    N = 2
    ConcurrentTasks = 2
    Timeouts = {FALSE}
    InitResults = {FALSE}
    Fates = {"returns", "fails"}
INVARIANTS
    RaisedReported
CHECK_DEADLOCK FALSE
