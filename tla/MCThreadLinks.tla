---------------------------- MODULE MCThreadLinks ----------------------------
(* Small instances of ThreadLinks for TLC. *)
EXTENDS ThreadLinks, TLC

Symmetry == Permutations(Threads)

Runnable == {"Ready", "Running"}
Anybody  == {"Ready", "Running", "Blocked"}
=============================================================================
