CONSTANTS
  Programs <- SmallPrograms
  Threads = {1, 2}
  MaxSteps = 12
SPECIFICATION Spec
CHECK_DEADLOCK FALSE
INVARIANTS
  TypeOK
  FollowCountsMarked
  DefaultCountsBetween
  FlagFollowsFlow
