SPECIFICATION FairSpec
CONSTANT Setups <- Runs
INVARIANTS
  TypeOK
  DevicesExclusive
  DevicesAccounted
  TestsAccounted
  NothingLeftBehind
PROPERTIES
  RunEnds
CHECK_DEADLOCK FALSE
