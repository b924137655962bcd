SPECIFICATION Spec
CONSTANT Setups <- Excludes
INVARIANT DevicesExclusive
CHECK_DEADLOCK FALSE
