------------------------------ MODULE MCThreads ------------------------------
(* Small instances of Threads for TLC. *)
EXTENDS Threads, TLC

Symmetry == Permutations(Threads)

\* Everything but what the run at hand leaves out.
AllKinds == AllOpcodes
Runnable == {"Ready", "Running"}

\* No critical section and no blocker: a thread may stay in the one for ever,
\* and only the program decides to resume the other.
LiveOpcodes == AllOpcodes \ {"crit_begin", "crit_end", "suspend", "resume"}
=============================================================================
