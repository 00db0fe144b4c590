------------------------- MODULE MCWriterModeSwitch -------------------------
EXTENDS WriterModeSwitch, TLC
CONSTANTS t1, t2, t3, w1, d1
\* Two activations, which may take each other for themselves, and a rollback.
MCTarget == [t \in Tasks |-> IF t = t3 THEN "legacy" ELSE "ticket_type"]
=============================================================================
