CONSTANTS
  NumLevels = 1
  Cache <- MRUOnly
  LastLoad = 1
  LastStore = 1
  Ranges <- LineRanges
  MaxCalls = 1000
SPECIFICATION Spec
VIEW WithoutStats
INVARIANTS
  NoLostWrites
