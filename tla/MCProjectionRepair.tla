-------------------------- MODULE MCProjectionRepair --------------------------
EXTENDS ProjectionRepair, TLC
CONSTANTS y1, y2
MCCapacity == [y \in Types |-> 1]
\* One writer mode: the CLI reads neither.
MCInit == RepairInit /\ mode = "ticket_type"
MCSpec == MCInit /\ [][RepairNext]_repairVars /\ Diligence
=============================================================================
