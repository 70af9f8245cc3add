---------------------------- MODULE MCNvStore -------------------------------
(* Instances of NvStore for TLC. *)
EXTENDS NvStore, TLC

\* The tasks that save are interchangeable.
TaskSymmetry == Permutations(Tasks)
=============================================================================
