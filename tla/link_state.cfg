SPECIFICATION MCFairSpec
CONSTANTS
  MaxDistance = 15
  Router = {1, 2, 3}
  Endpoint = {9}
  Link <- Triangle
  Cost <- DirectIsDear
  Settled = TRUE
  KeepDownLinks = TRUE
  MinLsaInterval = 1
  LsaLifetime = 100
  MaxTime = 3
  MaxPeriodic <- NoneOf
  MaxChanges <- OneFlaps
  MaxRestarts <- NoneOf
INVARIANTS TypeOK RoutesShortest
PROPERTIES MostRecentHeld MCViewsConverge
CHECK_DEADLOCK FALSE
