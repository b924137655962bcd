SPECIFICATION Spec
CONSTANTS
    Dut <- TwoDuts
    SlotPos <- Position
    DutName <- Names
    ScriptName <- Files
    Shared <- Vlans
    Links <- NoLinks
    NoOne = NoOne
    ScriptPaths <- TwoScripts
    BaseName <- Base
    Workloads <- ZeroDuts
    MaxWorkers = 2
    AcquireTimeouts = {FALSE}
    DryRun = TRUE
    Scrub = FALSE
    MaxClock = 0
INVARIANTS
    PoolAccounted
