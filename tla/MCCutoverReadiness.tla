------------------------- MODULE MCCutoverReadiness -------------------------
EXTENDS CutoverReadiness, TLC
MCHome == [y \in Types |-> IF y = 3 THEN 2 ELSE 1]
MCCapacity == [y \in Types |-> 1]
=============================================================================
