SPECIFICATION FairSpec
CONSTANTS
  Bundle = {b1, b2}
  Link <- MCLink
  Node <- MCNode
  LinkOrder <- MCLinkOrder
  Remote <- MCRemote
  QueueLow = 1
  QueueHigh = 1
  Custody = {}
  FirstTables <- AllRoutes
  Sources <- Anywhere
  Opportunistic = {}
  MaxDowns <- FirstTwice
  MaxEvents = 1
  CanFail = FALSE
  CanExpire = FALSE
  MaxChanges = 0
CHECK_DEADLOCK FALSE
PROPERTIES
  RoutedIsTransmitted
  DownLinkIsDrained
