---------------------------- MODULE MCTypeResolver ----------------------------
EXTENDS TypeResolver, TLC
CONSTANTS c1, c2
MCSymmetry == Permutations({c1, c2})
=============================================================================
