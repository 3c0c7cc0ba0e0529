SPECIFICATION EitherSpec
CONSTANTS
  Ways <- MCWays
  Towards <- MCTowards
  MaxEdits = 1
  MaxExpired = 1
  MaxSpurs = 2
  Keys = {1, 2, 3, 4, 5, 6, 7, 8}
INVARIANTS
  HeapSound
  ReferencesMutual
  TreeBalanced
  TreeActsAsSortedSet
CONSTRAINT FewRoutes
PROPERTY ForgetsExactly
CHECK_DEADLOCK FALSE
