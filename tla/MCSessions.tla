----------------------------- MODULE MCSessions -----------------------------
(***************************************************************************)
(* Instances of Sessions for TLC.                                          *)
(***************************************************************************)
EXTENDS Sessions, TLC

CONSTANTS s1, s2, a1, c1, c2

\* All sessions belong to one account, so that every RevokeAll touches them all.
OneOwner == [s \in Session |-> CHOOSE a \in Account : TRUE]

\* Callers and sessions are interchangeable.
Symmetry == Permutations(Caller) \cup Permutations(Session)
=============================================================================
