SPECIFICATION FairSpec
CONSTANTS
  y1 = y1
  y2 = y2
  Absent = Absent
  Types = {y1, y2}
  DefaultType = y1
  Quantities = {1}
  Capacity <- MCCapacity
  MaxInteger = 1
  Workers = {w1, w2}
  BatchSize = 1
  MaxVersion = 2
INVARIANTS DocumentOnRecord RebuildCatchesUp ReportIsRight
PROPERTIES DocumentNeverGoesBack EveryMessageLands
