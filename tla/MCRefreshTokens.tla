--------------------------- MODULE MCRefreshTokens ---------------------------
EXTENDS RefreshTokens, TLC
CONSTANTS r1, r2, r3
Interchangeable == Permutations(Requests)
=============================================================================
