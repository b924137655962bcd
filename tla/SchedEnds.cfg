SPECIFICATION FairSpec
CONSTANTS
    Dut <- ThreeDuts
    SlotPos <- Position
    DutName <- Names
    ScriptName <- Files
    Shared <- Vlans
    Links <- Chain
    NoOne = NoOne
    ScriptPaths <- ThreeScripts
    BaseName <- Base
    Workloads <- Served
    MaxWorkers = 2
    AcquireTimeouts = {FALSE}
    DryRun = TRUE
    Scrub = FALSE
    MaxClock = 0
PROPERTIES
    RunReturns
