----------------------------- MODULE MCFotaTask -----------------------------
(* Instances of FotaTask for TLC; the constants are in the .cfg files.     *)
EXTENDS FotaTask
=============================================================================
