CONSTANTS
  Files <- Widths
  Numbers = {0, 1, 2, 3, 4}
  PolicyChoices <- DefaultWidths
SPECIFICATION ReadersSpec
CHECK_DEADLOCK FALSE
INVARIANTS
  LineSizesIncrease
