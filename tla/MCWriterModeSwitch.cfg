SPECIFICATION FairSpec
CONSTANTS
  t1 = t1
  t2 = t2
  t3 = t3
  w1 = w1
  d1 = d1
  NoTask = NoTask
  Tasks = {t1, t3}
  Target <- MCTarget
  Writers = {w1}
  Direct = {d1}
  MaxRevision = 1
CHECK_DEADLOCK FALSE
INVARIANT ExitIsTrue
PROPERTIES SwitchIsClean SalesResume
