SPECIFICATION FairSpec
CONSTANTS
  Neighbor = {a, b}
  MaxPaths <- LongAndMiddle
  MaxDijkstraRoutes = 1
  PlanExpires = TRUE
INVARIANTS
  TypeOK
  FlagsStayTrue
  SearchComplete
  OneOpenRoutePerNeighbor
PROPERTIES
  ChainsCloseInVain
  CallEnds
