SPECIFICATION Spec
CONSTANTS
  MaxRuns = 2
  QueueSize = 2
  TIMEOUT = 1
  MaxClock = 2
  Extents <- Shapes
  Segments = {0, 3}
  Word = 4
INVARIANT TypeOK
INVARIANT LaunchedAsAsked
INVARIANT VerifyAfterCompletion
PROPERTY PublishedPacketStable
PROPERTY ImplementsKernelCall
\* Run() returns and the program ends.
CHECK_DEADLOCK FALSE
