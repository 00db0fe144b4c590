--------------------------- MODULE MCBrowserSession ---------------------------
EXTENDS BrowserSession, TLC
CONSTANTS t1, t2, f1, c1, c2, c3
TwoTabs == [c \in Calls |-> IF c = c3 THEN t2 ELSE t1]
=============================================================================
