---------------------------- MODULE MCCounterSeed ----------------------------
EXTENDS CounterSeed, TLC
CONSTANTS a1, y1, y2
MCCapacity == [y \in Types |-> IF y = DefaultType THEN 2 ELSE 1]
MCRank == [s \in Scopes |-> IF s = EventScope THEN 1 ELSE IF s = DefaultType THEN 3 ELSE 2]
=============================================================================
