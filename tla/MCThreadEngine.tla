--------------------------- MODULE MCThreadEngine ---------------------------
(* Three VM threads, hence at most three pthreads of the engine. *)
EXTENDS ThreadEngine

ThreeEngines == 1..3
=============================================================================
