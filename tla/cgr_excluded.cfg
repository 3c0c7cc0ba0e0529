SPECIFICATION Spec
CONSTANTS
  Neighbor = {a, b}
  MaxPaths <- LongAndShort
  MaxDijkstraRoutes = 1
  PlanExpires = TRUE
INVARIANT
  ExclusionKept
