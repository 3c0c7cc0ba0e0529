SPECIFICATION Spec
CONSTANTS
  MaxTime = 9
  Node <- MCNode
  LocalNode = 1
  ContactPairs <- LocalPairs
  RangePairs <- OnePair
  Times <- Instants
  Rates = {1, 2}
  Owlts = {1, 2}
CONSTRAINT
  FinePartOrCoarsePlan
PROPERTY
  SweepAsDocumented
