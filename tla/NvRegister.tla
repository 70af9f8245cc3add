---------------------------- MODULE NvRegister ------------------------------
(***************************************************************************)
(* What the NV store promises its callers: a register that survives power  *)
(* failures.  A caller puts a new version into the cache (g_ty_cloud_nv),  *)
(* a save commits the cached version, a crash loses the cache, and a boot  *)
(* finds a version that is no older than the last committed one and was    *)
(* really put.  Only a register damaged by a write error of the main file  *)
(* may come back empty.                                                    *)
(***************************************************************************)
EXTENDS Integers

VARIABLES
  up,         \* the device is running
  cache,      \* the version the callers see
  committed,  \* the version of the last save that finished
  newest,     \* the newest version put so far
  damaged     \* a write error of the main file has not been made good

vars == <<up, cache, committed, newest, damaged>>

Init ==
  /\ up = FALSE
  /\ cache = 0 /\ committed = 0 /\ newest = 0
  /\ damaged = FALSE

Put ==
  /\ up
  /\ newest' = newest + 1 /\ cache' = newest + 1
  /\ UNCHANGED <<up, committed, damaged>>

\* A save never takes the register back behind an earlier one.
Commit ==
  /\ up
  /\ cache >= committed
  /\ committed' = cache
  /\ UNCHANGED <<up, cache, newest, damaged>>

\* A write of the main file fails, or a later one makes it good.
Damage ==
  /\ up
  /\ damaged' = ~damaged
  /\ UNCHANGED <<up, cache, committed, newest>>

Crash ==
  /\ up
  /\ up' = FALSE /\ cache' = 0
  /\ UNCHANGED <<committed, newest, damaged>>

Boot ==
  /\ ~up
  /\ up' = TRUE
  /\ cache' \in committed..newest
  /\ UNCHANGED <<committed, newest, damaged>>

BootEmpty ==
  /\ ~up /\ damaged
  /\ up' = TRUE
  /\ cache' = 0 /\ committed' = 0
  /\ UNCHANGED <<newest, damaged>>

Next == Put \/ Commit \/ Damage \/ Crash \/ Boot \/ BootEmpty

Spec == Init /\ [][Next]_vars
=============================================================================
