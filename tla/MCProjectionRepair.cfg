SPECIFICATION MCSpec
CONSTANTS
  y1 = y1
  y2 = y2
  Absent = Absent
  Types = {y1, y2}
  DefaultType = y1
  Foreign = {y2}
  Quantities = {1}
  Capacity <- MCCapacity
  MaxInteger = 2
  Workers = {w1}
  BatchSize = 1
  MaxVersion = 2
  Damages = {0, Absent}
  MaxDamages = 1
INVARIANTS ReportIsHonest RepairHolds
PROPERTIES RepairTouchesOnlyDamage DamageIsRepaired
