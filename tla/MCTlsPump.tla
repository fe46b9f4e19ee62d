----------------------------- MODULE MCTlsPump -----------------------------
(* Instances of TlsPump: the constants are in the configurations. *)
EXTENDS TlsPump
=============================================================================
