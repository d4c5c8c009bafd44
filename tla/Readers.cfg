CONSTANTS
  Files <- AllFiles
  Numbers = {0, 1, 2, 3, 4}
  PolicyChoices <- SomePolicies
SPECIFICATION ReadersSpec
CHECK_DEADLOCK FALSE
INVARIANTS
  TypeOK
  Connected
  DictTypeOK
  ReadersAgree
PROPERTIES
  ImplementsWiring
  DictImplementsWiring
  Finishes
  DictFinishes
