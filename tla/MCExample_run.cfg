SPECIFICATION KernelsSpec
CONSTANTS
  Examples <- AllExamples
  Word = 3
  DppInputs <- Vectors
INVARIANT TypesOK
INVARIANT OnlyErrorsFail
INVARIANT KernelSeesItsArguments
INVARIANT VerifyReadsDevice
INVARIANT CrashNeedsError
INVARIANT WaitsLongEnough
PROPERTY LeavesWhenReached
PROPERTY LoopEnds
INVARIANT PrefixSum
INVARIANT SumsAgree
INVARIANT HalfInverse
\* The program ends.
CHECK_DEADLOCK FALSE
