SPECIFICATION KernelsSpec
CONSTANTS
  Examples <- AllExamples
  Word = 2
  DppInputs <- Vectors
INVARIANT RequiredWorkgroup
\* The program ends.
CHECK_DEADLOCK FALSE
