SPECIFICATION Spec
CONSTANTS
    Dut <- TwoDuts
    SlotPos <- Position
    DutName <- Names
    ScriptName <- Files
    Shared <- Vlans
    Links <- NoLinks
    NoOne = NoOne
    ScriptPaths <- TwoScripts
    BaseName <- Base
    Workloads <- Singles
    MaxWorkers = 2
    AcquireTimeouts = {TRUE}
    DryRun = FALSE
    Scrub = TRUE
    MaxClock = 1
INVARIANTS
    SessionsIsolated
    FailuresReported
PROPERTIES
    OutcomesFinal
