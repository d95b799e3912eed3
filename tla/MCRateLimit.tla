---------------------------- MODULE MCRateLimit ----------------------------
(* Model-checking instances of RateLimit.                                  *)
EXTENDS RateLimit, TLC

KeySymmetry == Permutations(Keys)
=============================================================================
