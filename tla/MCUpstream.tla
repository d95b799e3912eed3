----------------------------- MODULE MCUpstream -----------------------------
(* Model-checking instances of Upstream; the constants are in the cfgs.    *)
EXTENDS Upstream, TLC

\* Callers are interchangeable; used by the runs that check safety only.
CallerSymmetry == Permutations(Callers)
=============================================================================
