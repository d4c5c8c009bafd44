CONSTANTS
  NumLevels = 2
  Cache <- Combine2
  LastLoad = 2
  LastStore = 2
  Ranges <- PartsOfTwo
  MaxCalls = 1000
SPECIFICATION Spec
VIEW WithoutStats
INVARIANTS
  NonTemporalOnlyWhole
