CONSTANTS
  NumLevels = 3
  Cache <- Skylake
  LastLoad = 2
  LastStore = 3
  Ranges <- LineRanges
  MaxCalls = 1000
SPECIFICATION Spec
VIEW WithBalances
INVARIANTS
  NoDuplicateLines
  NoLostWrites
  EvictsAreStoresBelow
  MemoryStatsExact
  VictimLoadsHit
