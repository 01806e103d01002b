SPECIFICATION MCSpec
CONSTANTS
  MaxInits = 2
  MaxAgents = 3
  MaxRegions = 3
INVARIANT TypeOK
INVARIANT SetOnce
INVARIANT FailuresMisleadLocally
INVARIANT ReadyIsUsable
\* Init() returns, or the program aborts.
CHECK_DEADLOCK FALSE
