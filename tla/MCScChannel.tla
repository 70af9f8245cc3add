---------------------------- MODULE MCScChannel -----------------------------
(* Instances of ScChannel for TLC. *)
EXTENDS ScChannel
=============================================================================
