------------------------------- MODULE MCJWKS -------------------------------
(* Instances of JWKS for TLC. *)
EXTENDS JWKS

CONSTANTS k1, k2, k3, r1, r2, bg
=============================================================================
