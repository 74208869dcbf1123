---------------------------- MODULE MCProviders ----------------------------
(***************************************************************************)
(* Instances of Providers for TLC.                                         *)
(***************************************************************************)
EXTENDS Providers, TLC

CONSTANTS a1, a2, p1, p2, p3, c1, c2

\* p1 and p2 hold the same identity; p3 has its sub, but another issuer.
SubOf == [p \in Provider |-> "sub"]
IssuerOf == [p \in Provider |-> IF p = p3 THEN "other" ELSE "issuer"]

Symmetry == Permutations(Caller) \cup Permutations(Account)
=============================================================================
