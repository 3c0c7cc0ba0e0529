SPECIFICATION Spec
CONSTANTS
  Bundle = {b1, b2}
  Link <- MCLink
  Node <- MCNode
  LinkOrder <- MCLinkOrder
  Remote <- MCRemote
  QueueLow = 1
  QueueHigh = 2
  Custody = {b1}
  FirstTables <- AllOrFirst
  Sources <- OneSide
  Opportunistic = {"l2"}
  MaxDowns <- FirstOnce
  MaxEvents = 2
  CanFail = TRUE
  CanExpire = TRUE
  MaxChanges = 1
CHECK_DEADLOCK FALSE
INVARIANTS
  TypeOK
  QueuedIsOnItsWay
  OneCopy
  TransmittedNotDeferred
PROPERTIES
  NoOvertaking
