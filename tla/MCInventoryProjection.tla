------------------------ MODULE MCInventoryProjection ------------------------
EXTENDS InventoryProjection, TLC
CONSTANTS y1, y2
MCCapacity == [y \in Types |-> IF y = DefaultType THEN 1 ELSE 0]
=============================================================================
