SPECIFICATION FairSpec
CONSTANTS
    Dut <- TwoDuts
    SlotPos <- Position
    DutName <- Names
    ScriptName <- Files
    Shared <- Vlans
    Links <- NoLinks
    NoOne = NoOne
    ScriptPaths <- TwoScripts
    BaseName <- Base
    Workloads <- Sessions
    MaxWorkers = 2
    AcquireTimeouts = {FALSE, TRUE}
    DryRun = FALSE
    Scrub = FALSE
    MaxClock = 0
PROPERTIES
    StopEndsRun
    RunReturns
