SPECIFICATION Spec
CONSTANTS
  MaxTime = 9
  Node <- MCNode
  LocalNode = 1
  ContactPairs <- LocalPairs
  RangePairs <- OnePair
  Times <- Instants
  Rates = {1, 2}
  Owlts = {1, 2}
CONSTRAINT
  FinePartOrCoarsePlan
INVARIANTS
  TypeOK
  KeysAlmostUnique
  PlanNestedOrDisjoint
  ExpiryCachesSound
  LookupFindsRange
PROPERTIES
  ExpiryExact
  ContactsImplementStore
  RangesImplementStore
