---------------------------- MODULE MCMainTask ------------------------------
(* Instances of MainTask for TLC. *)
EXTENDS MainTask, TLC

CONSTANTS m1, m2, m3

\* A task report, a report asked for by an AT command, and a FOTA report.
KindMixed == (m1 :> "task") @@ (m2 :> "at") @@ (m3 :> "fota")
=============================================================================
