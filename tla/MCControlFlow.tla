---------------------------- MODULE MCControlFlow ----------------------------
(* Small instances of ControlFlow for TLC. *)
EXTENDS ControlFlow, TLC

AllTargets == 0 .. Length - 2
LaterTargets == 1 .. Length - 2

Symmetry == Permutations(Segments) \cup Permutations(Closures)
=============================================================================
