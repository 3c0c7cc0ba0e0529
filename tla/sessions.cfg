SPECIFICATION Spec
CONSTANTS
  Router = {1, 2, 3}
  Hop <- Line
  Custodian <- Root
  Expiring <- Middle
  Bundle <- MCBundle
  Source <- MCSource
  Origin <- MCOrigin
  Id <- MCId
  Obsoletes <- MCObsoletes
  MaxRegistrations <- FarTwice
  MaxFirings = 1
INVARIANTS NoObsolete SubscribersServed SubscriptionKept
CHECK_DEADLOCK FALSE
