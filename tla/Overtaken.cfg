SPECIFICATION Spec
CONSTANTS
    Dut <- TwoDuts
    SlotPos <- Position
    DutName <- Names
    ScriptName <- Files
    Shared <- Vlans
    Links <- NoLinks
    NoOne = NoOne
    ScriptPaths <- ThreeScripts
    BaseName <- Base
    Workloads <- Singles
    MaxWorkers = 3
    AcquireTimeouts = {FALSE}
    DryRun = TRUE
    Scrub = FALSE
    MaxClock = 0
PROPERTIES
    LargeNotOvertaken
