---------------------------- MODULE MCMessageQueue ----------------------------
(* Small instances of MessageQueue for TLC. *)
EXTENDS MessageQueue, TLC

Symmetry == Permutations(Threads) \cup Permutations(Readers)
=============================================================================
