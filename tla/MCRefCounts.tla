----------------------------- MODULE MCRefCounts -----------------------------
(* Small instances of RefCounts for TLC: the main thread has two values on   *)
(* its data stack, a local and a frame, any other thread one value.          *)
EXTENDS RefCounts, TLC

Stacks == [t \in Threads |-> IF t = Main THEN 2 ELSE 1]
OneOfMain == [t \in Threads |-> IF t = Main THEN 1 ELSE 0]
NoneOf == [t \in Threads |-> 0]
Symmetric == Permutations(Objects)

\* Bound: not everything at once.  Three objects are two virtual ones with
\* members to share, and the main thread calls functions when it is alone.
Sparse ==
    LET Used(kinds) == Cardinality({o \in Objects : kind[o] \in kinds})
    IN  /\ Used(Kinds) = 3 => Used({"VObj"}) = 2
        /\ frames[Main] # <<>> => alive = {Main}
=============================================================================
