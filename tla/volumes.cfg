SPECIFICATION Spec
CONSTANTS
  LocalNode = 1
  Contacts <- Plan
  RouteSets <- SomeRoutes
  Bundles <- FourBundles
  NewRates = {1}
  MaxEvc = 3
  MaxNow = 6
INVARIANTS BookingsBounded PromiseNotEarly
PROPERTIES SentByEto
CHECK_DEADLOCK FALSE
