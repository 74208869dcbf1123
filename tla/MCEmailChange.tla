---------------------------- MODULE MCEmailChange ----------------------------
EXTENDS EmailChange, TLC
CONSTANTS c1, c2, s1, a1, a2
Symmetry == Permutations(Caller)
=============================================================================
