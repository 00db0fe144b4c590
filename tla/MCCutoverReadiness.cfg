SPECIFICATION ReadinessSpec
CONSTANTS
  Events = {1, 2}
  Types = {1, 2, 3}
  Home <- MCHome
  Defaults = {1, 3}
  Capacity <- MCCapacity
  PageSize = 1
  NoType = 0
  MaxChanges = 1
CHECK_DEADLOCK FALSE
INVARIANTS GreenMissedNothing NoFalseSoldOut NormalOperationIsGreen
