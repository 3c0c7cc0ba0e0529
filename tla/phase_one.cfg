SPECIFICATION Spec
CONSTANTS
  LocalNode = 1
  Destination = 4
  Plans <- WithLongWay
  Infinity = 99
  MaxNow = 3
  Wanted = {1, 2}
INVARIANTS RoutesAreWays SelectedInOrder YenExhausts
CHECK_DEADLOCK FALSE
