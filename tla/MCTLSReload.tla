---------------------------- MODULE MCTLSReload -----------------------------
(* Instances of TLSReload for TLC. *)
EXTENDS TLSReload

CONSTANTS l1, l2

\* The CA bundle in a directory of its own, as a mounted secret often is.
MCDirOf == [f \in {"cert", "key", "ca"} |-> IF f = "ca" THEN "ca_dir" ELSE "cert_dir"]
=============================================================================
