SPECIFICATION Spec
CONSTANTS
  r1 = r1
  r2 = r2
  r3 = r3
  Users = {u1}
  Requests = {r1, r2}
  TTL = 1
  Retention = 1
  BatchSize = 1
  MaxOpen = 1
  MaxTokens = 3
  MaxTime = 3
SYMMETRY Interchangeable
INVARIANTS OneLiveToken LineageIntact
PROPERTIES HistoryKept SuccessorsOfLive
CHECK_DEADLOCK FALSE
