---------------------------- MODULE MCFotaRecord ----------------------------
(* Instances of FotaRecord for TLC.                                        *)
EXTENDS FotaRecord, TLC

CONSTANTS t1, t2

OneFrom == t1 :> "A"
OneTo   == t1 :> "B"

\* t1 upgrades A to B, t2 upgrades B to C.
ChainFrom == t1 :> "A" @@ t2 :> "B"
ChainTo   == t1 :> "B" @@ t2 :> "C"

\* Both upgrade A to B: the cloud sends a new task after one that failed.
SameFrom == t1 :> "A" @@ t2 :> "A"
SameTo   == t1 :> "B" @@ t2 :> "B"
=============================================================================
