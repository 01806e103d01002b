SPECIFICATION Spec
CONSTANTS
  MaxRuns = 1
  QueueSize = 2
  TIMEOUT = 1
  MaxClock = 2
  Extents <- OneShape
  Segments = {0, 3}
  Word = 4
INVARIANT GroupSegmentAsAsked
\* Run() returns and the program ends.
CHECK_DEADLOCK FALSE
