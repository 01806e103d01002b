SPECIFICATION Spec
CONSTANTS
  MaxKernels = 2
  Symbols = {"a", "b"}
  OnceSymbols = {"b"}
  Sizes <- FewSizes
  Starts = {8}
  MinLimits = {10}
  MaxLimits = {8}
  Alignments = {4}
INVARIANT NoOverlap
\* The text of the file ends, or an .error ends the assembly.
CHECK_DEADLOCK FALSE
