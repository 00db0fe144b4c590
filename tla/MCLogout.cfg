SPECIFICATION Spec
CONSTANTS
  r1 = r1
  r2 = r2
  r3 = r3
  Users = {u1}
  Requests = {r1, r2}
  TTL = 1
  Retention = 1
  BatchSize = 1
  MaxOpen = 1
  MaxTokens = 3
  MaxTime = 1
INVARIANT LogoutEndsFamily
CHECK_DEADLOCK FALSE
