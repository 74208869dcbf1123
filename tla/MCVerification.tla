--------------------------- MODULE MCVerification ---------------------------
EXTENDS Verification, TLC
CONSTANTS c1, c2
Symmetry == Permutations(Caller)
=============================================================================
