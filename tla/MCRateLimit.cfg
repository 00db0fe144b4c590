SPECIFICATION Spec
CONSTANTS
  r1 = r1
  r2 = r2
  Requests = {r1, r2}
  Ips = {"ip"}
  Subs = {"u"}
  Limit <- MCLimit
  Second = 3
  Window = 2
  MaxTime = 7
  MaxExcess = 1
  MaxFaults = 1
SYMMETRY MCSymmetry
CHECK_DEADLOCK FALSE
INVARIANTS LimitPerWindow WaitIsLongEnough
