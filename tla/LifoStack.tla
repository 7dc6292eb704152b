------------------------------- MODULE LifoStack -------------------------------
(***************************************************************************)
(* What a stack promises: the token that is popped or looked at is the one *)
(* that was pushed there, and the tokens that are reserved at once are     *)
(* zeroes or left-overs, never memory that nobody wrote.                   *)
(***************************************************************************)
EXTENDS Integers, Sequences, SequencesExt

CONSTANTS Tokens, Zero

VARIABLES
  contents,  \* the tokens, the top last
  seen       \* the tokens that the last pop, peek or end of the stack gave

vars == <<contents, seen>>

Init == contents = <<>> /\ seen = <<>>

Push == \E w \in Tokens : contents' = Append(contents, w) /\ seen' = <<>>

Pop ==
  /\ contents # <<>>
  /\ contents' = Front(contents)
  /\ seen' = <<Last(contents)>>

Reserve ==
  /\ IsPrefix(contents, contents')
  /\ \A i \in DOMAIN contents' \ DOMAIN contents : contents'[i] \in Tokens \cup {Zero}
  /\ seen' = <<>>

Release == (\E n \in 0 .. Len(contents) : contents' = SubSeq(contents, 1, n)) /\ seen' = <<>>

Peek == (\E i \in DOMAIN contents : seen' = <<contents[i]>>) /\ UNCHANGED contents

\* The end of a stack gives all tokens, the top first, and a new one begins.
Drain == contents' = <<>> /\ seen' = Reverse(contents)

Next == Push \/ Pop \/ Reserve \/ Release \/ Peek \/ Drain

Spec == Init /\ [][Next]_vars
===============================================================================
