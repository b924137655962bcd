SPECIFICATION Spec
CONSTANTS
    Proc = {"sup", "lc1", "lc2"}
    Leader = "sup"
    Modes <- AllAtOnce
    Reloaders <- InStep
    TimeoutsOn = {FALSE}
    MaxCrashes = 0
INVARIANTS
    AckStaysVisible
CHECK_DEADLOCK FALSE
