SPECIFICATION Spec
CONSTANTS
  c1 = c1
  c2 = c2
  Events = {e1}
  Callers = {c1, c2}
  Ttl = 2
  MaxEntries = 1
  MaxDelay = 1
  MaxTime = 4
  MaxLoads = 3
  MaxSwitches = 1
SYMMETRY MCSymmetry
CHECK_DEADLOCK FALSE
INVARIANTS OldLoadsStayOut OneLoadPerMiss StalenessBounded
