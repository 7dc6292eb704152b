------------------------------ MODULE NameTable ------------------------------
(***************************************************************************)
(* What a map promises: names get numbers in the order of their arrival    *)
(* and keep them, number 0 being the empty text, and a name has the value  *)
(* that it was given last.  Numbers stand for names in compiled code.      *)
(***************************************************************************)
EXTENDS Sequences, SequencesExt

CONSTANTS Texts, EmptyText, Values, NULL

VARIABLES names, value

Init == names = <<EmptyText>> /\ value = [t \in Texts |-> NULL]

Put(t, v) ==
  /\ names' = IF Contains(names, t) THEN names ELSE Append(names, t)
  /\ value' = [value EXCEPT ![t] = v]

Next == \E t \in Texts, v \in Values : Put(t, v)

Spec == Init /\ [][Next]_<<names, value>>
===============================================================================
