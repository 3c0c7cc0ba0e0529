SPECIFICATION Spec
CONSTANTS
  LocalNode = 1
  Destination = 4
  Plans <- AlmostAll
  Infinity = 99
  MaxNow = 3
  Wanted = {1, 2}

PROPERTIES CostsCurrent
CHECK_DEADLOCK FALSE
