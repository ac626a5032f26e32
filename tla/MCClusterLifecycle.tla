------------------------- MODULE MCClusterLifecycle -------------------------
(* ClusterLifecycle for TLC: processes are interchangeable. *)
EXTENDS ClusterLifecycle, TLC

WorkerSymmetry == Permutations(Workers)
=============================================================================
