------------------------- MODULE MCInventoryCounters -------------------------
EXTENDS InventoryCounters, TLC
CONSTANTS a1, a2, y1, y2
MCCapacity == [y \in Types |-> IF y = DefaultType THEN 2 ELSE 1]
AttemptSymmetry == Permutations(Attempts)
=============================================================================
