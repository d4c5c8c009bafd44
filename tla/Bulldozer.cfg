CONSTANTS
  NumLevels = 4
  Cache <- Bulldozer
  LastLoad = 3
  LastStore = 4
  Ranges <- HalfLines
  MaxCalls = 1000
SPECIFICATION Spec
VIEW WithBalances
INVARIANTS
  NoLostWrites
  WriteHitsItsLine
  FillFindsLineBelow
  EvictsAreStoresBelow
PROPERTIES
  FlushReachesMemory
