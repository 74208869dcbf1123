--------------------------- MODULE MCPasswordReset ---------------------------
EXTENDS PasswordReset, TLC
CONSTANTS c1, c2, s1
Symmetry == Permutations(Caller)
=============================================================================
