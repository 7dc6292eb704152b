----------------------------- MODULE Activations -----------------------------
(***************************************************************************)
(* What calls and exceptions promise a program, whatever stacks they are   *)
(* made of: a thread is in an activation of a function, which knows where  *)
(* to return to, which closure it sees and which catch blocs it installed. *)
(* A throw leaves all activations inside the one that installed the most   *)
(* recent catch bloc, and nothing else, and uses the bloc up.              *)
(***************************************************************************)
EXTENDS Integers, Sequences, SequencesExt

CONSTANTS Segments, Positions, Closures, NULL

VARIABLES
  at,     \* the next instruction: segment and position
  act,    \* the activations, innermost last; site: the call, catch: its blocs
  alive

vars == <<at, act, alive>>

Places == [seg : Segments, ip : Positions]
Current == Last(act)
WithCatch(blocs) == Front(act) \o <<[Current EXCEPT !.catch = blocs]>>

\* Anything that stays in the function, jumps included.
Step ==
  /\ at' \in [seg : {at.seg}, ip : Positions]
  /\ UNCHANGED <<act, alive>>

Call ==
  /\ at' \in Places
  /\ \E c \in Closures \cup {NULL} :
       act' = Append(act, [site |-> at, closure |-> c, catch |-> <<>>])
  /\ UNCHANGED alive

Return ==
  /\ Len(act) > 1
  /\ at' = [Current.site EXCEPT !.ip = @ + 1]
  /\ act' = Front(act)
  /\ UNCHANGED alive

Install ==
  /\ at' = [at EXCEPT !.ip = @ + 1]
  /\ \E p \in Positions :
       act' = WithCatch(Append(Current.catch, [seg |-> at.seg, ip |-> p]))
  /\ UNCHANGED alive

Uninstall ==
  /\ Current.catch # <<>>
  /\ at' \in [seg : {at.seg}, ip : Positions]
  /\ act' = WithCatch(Front(Current.catch))
  /\ UNCHANGED alive

Catching(i) ==
  /\ act[i].catch # <<>>
  /\ \A j \in i + 1 .. Len(act) : act[j].catch = <<>>

Throw ==
  \E i \in DOMAIN act :
    /\ Catching(i)
    /\ at' = Last(act[i].catch)
    /\ act' = [SubSeq(act, 1, i) EXCEPT ![i].catch = Front(@)]
    /\ UNCHANGED alive

Die ==
  /\ alive' = FALSE
  /\ at' \in [seg : {at.seg}, ip : Positions]
  /\ UNCHANGED act

Init ==
  /\ at \in Places
  /\ act = <<[site |-> NULL, closure |-> NULL, catch |-> <<>>]>>
  /\ alive = TRUE

Next ==
  alive /\ (Step \/ Call \/ Return \/ Install \/ Uninstall \/ Throw \/ Die)

Spec == Init /\ [][Next]_vars
=============================================================================
