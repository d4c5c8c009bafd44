CONSTANTS
  NumLevels = 2
  Cache <- TwoLevels
  LastLoad = 2
  LastStore = 2
  Ranges <- LineRanges
  MaxCalls = 1000
SPECIFICATION Spec
VIEW WithZeros
INVARIANTS
  TypeOK
  NoDuplicateLines
  WriteHitsItsLine
  FillsBeforeReplacing
  LoadsHitOrMiss
PROPERTIES
  FlushReachesMemory
  InvalidateReachesAll
  ResetReachesAll
  ImplementsWriteBuffer
