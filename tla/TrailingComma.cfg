CONSTANTS
  Files <- CommaFiles
  Numbers = {0, 1, 2, 3, 4}
  PolicyChoices <- DefaultComma
SPECIFICATION ReadersSpec
CHECK_DEADLOCK FALSE
PROPERTIES
  FinishesAlways
