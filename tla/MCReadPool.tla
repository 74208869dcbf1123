----------------------------- MODULE MCReadPool -----------------------------
(***************************************************************************)
(* Instances of ReadPool for TLC.                                          *)
(***************************************************************************)
EXTENDS ReadPool

CONSTANTS c1, c2, c3, k1, k2
=============================================================================
