CONSTANTS
  NumLevels = 2
  Cache <- MruRandom
  LastLoad = 2
  LastStore = 2
  Ranges <- MixedRanges
  MaxCalls = 1000
SPECIFICATION Spec
VIEW WithoutStats
INVARIANTS
  NoDuplicateLines
  FillFindsLineBelow
PROPERTIES
  ImplementsWriteBuffer
