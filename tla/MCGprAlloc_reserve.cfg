SPECIFICATION Spec
CONSTANTS
  MaxKernels = 1
  Symbols = {"a", "b"}
  OnceSymbols = {}
  Sizes <- MCSizes
  Starts = {8}
  MinLimits = {10}
  MaxLimits = {8}
  Alignments = {4}
INVARIANT MinWavesForSgprs
\* The text of the file ends, or an .error ends the assembly.
CHECK_DEADLOCK FALSE
