SPECIFICATION ToolSpec
CONSTANTS
  READ_SIZE = 2
  InputLengths = {0, 1, 2, 3, 4, 5}
  OldLengths = {0, 3, 8}
  SectionTables <- Tables
  EhdrSize = 64
  PhdrSize = 56
  Names = {"a", "b"}
  MaxDepth = 3
  StreamSize = 12
  Sizes = {4, 8}
  MaxObject = 2
  Waves = {0, 1}
  Width = 2
  Ring = 2
  debug_wid = 1
  Texts <- DebugTexts
INVARIANT TypesOK
INVARIANT OnlyShortCallsDamage
INVARIANT SegmentsMatchFile
INVARIANT SegmentsDisjoint
INVARIANT NestingKept
PROPERTY EscapedInItsFunction
INVARIANT NullsAreNoticed
INVARIANT DecodesWholeStream
INVARIANT PrintsWholeObject
PROPERTY ApiEnds
INVARIANT KernelUndisturbed
INVARIANT StoredIsDumped
\* The programs and the kernels end.
CHECK_DEADLOCK FALSE
