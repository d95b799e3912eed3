---------------------------- MODULE MCForwarding ----------------------------
(* An instance of Forwarding for TLC. *)
EXTENDS Forwarding, TLC

CONSTANTS u1, u2, z1, p1, g1, g2

\* Nothing, some headers, and "*".
MCSettings == {{}, {"realIP"}, {"xff", "proto"}, HeaderNames}

UntrustedSymmetry == Permutations({u1, u2}) \union Permutations({g1, g2})
=============================================================================
