SPECIFICATION FairSpec
CONSTANTS
    Proc = {"sup", "lc1", "lc2"}
    Leader = "sup"
    Modes <- AllModes
    Reloaders <- AnyOf
    TimeoutsOn = {TRUE, FALSE}
    MaxCrashes = 1
INVARIANTS
    TypeOK
    TestsAfterSetup
    LeaderScope
    ReloadTogether
    BarrierStaysVisible
PROPERTIES
    ImplementsRendezvous
    AllEnd
    FailedSetupEnds
CHECK_DEADLOCK FALSE
