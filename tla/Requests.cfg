CONSTANTS
  NumLevels = 3
  Cache <- Skylake
  LastLoad = 2
  LastStore = 3
  Ranges <- LineRanges
  MaxCalls = 5
  Requests <- SmallRequests
  Stray <- RStray
SPECIFICATION RequestsFairSpec
CHECK_DEADLOCK FALSE
INVARIANTS
  RequestsTypeOK
  AppliedInOrder
  StrayOnlyAfterError
  ErrorsSurface
PROPERTIES
  RequestsReturn
  CallsReturn
