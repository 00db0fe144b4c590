SPECIFICATION SeedSpec
CONSTANTS
  a1 = a1
  y1 = y1
  y2 = y2
  NoType = NoType
  NoKey = NoKey
  NoScope = NoScope
  NoAnchor = NoAnchor
  EventScope = EventScope
  Attempts = {a1}
  Types = {y1, y2}
  DefaultType = y1
  Keys = {}
  Quantities = {1}
  Capacity <- MCCapacity
  MaxResends = 0
  Rank <- MCRank
  PageSize = 1
  MaxJobs = 1
CHECK_DEADLOCK FALSE
INVARIANTS JobIsWhole
PROPERTIES SeedsInactive ReconcileKeepsLater
