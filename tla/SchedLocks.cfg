SPECIFICATION Spec
CONSTANTS
    Dut <- ThreeDuts
    SlotPos <- Position
    DutName <- Names
    ScriptName <- Files
    Shared <- Vlans
    Links <- Chain
    NoOne = NoOne
    ScriptPaths <- ThreeScripts
    BaseName <- Base
    Workloads <- Mixed
    MaxWorkers = 3
    AcquireTimeouts = {FALSE}
    DryRun = TRUE
    Scrub = FALSE
    MaxClock = 0
INVARIANTS
    TypeOK
    DutsExclusive
    PoolAccounted
    ConflictsSerialized
    RefusalsPredicted
    PendingWitnessed
    GuardLostOnlyToPeer
    NoWedge
PROPERTIES
    ImplementsLocks
