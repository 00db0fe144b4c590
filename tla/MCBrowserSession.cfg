SPECIFICATION FairSession
CONSTANTS
  t1 = t1
  t2 = t2
  f1 = f1
  c1 = c1
  c2 = c2
  c3 = c3
  Requests = {t1, t2, f1}
  Tabs = {t1, t2}
  Forms = {f1}
  Calls = {c1, c2, c3}
  TabOf <- TwoTabs
  Users = {u1}
  TTL = 1
  Retention = 0
  BatchSize = 1
  MaxOpen = 0
  MaxTokens = 6
  MaxTime = 0
INVARIANTS ReuseHasCause CookieIsCurrent
PROPERTY CallsSettle
CHECK_DEADLOCK FALSE
