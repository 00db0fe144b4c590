SPECIFICATION Spec
CONSTANTS
  a1 = a1
  a2 = a2
  y1 = y1
  y2 = y2
  NoType = NoType
  NoKey = NoKey
  NoScope = NoScope
  NoAnchor = NoAnchor
  EventScope = EventScope
  Attempts = {a1, a2}
  Types = {y1, y2}
  DefaultType = y1
  Keys = {k1}
  Quantities = {1, 2}
  Capacity <- MCCapacity
  MaxResends = 1
SYMMETRY AttemptSymmetry
CHECK_DEADLOCK FALSE
INVARIANT CounterCoversStock
PROPERTY LaterReservesKept
