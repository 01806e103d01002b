SPECIFICATION Spec
CONSTANTS
  MaxKernels = 1
  Symbols = {"a", "b", "c"}
  OnceSymbols = {"c"}
  Sizes <- MCSizes
  Starts = {8, 65536}
  MinLimits = {10, 11}
  MaxLimits = {0, 8}
  Alignments = {4}
INVARIANT TypeOK
INVARIANT NoOverlap
INVARIANT CountsCover
INVARIANT MinWavesForVgprs
\* The text of the file ends, or an .error ends the assembly.
CHECK_DEADLOCK FALSE
