----------------------------- MODULE MCRateLimit -----------------------------
EXTENDS RateLimit, TLC
CONSTANTS r1, r2
MCLimit == [k \in Keys |-> IF k \in Ips THEN 2 ELSE 1]
MCSymmetry == Permutations({r1, r2})
=============================================================================
