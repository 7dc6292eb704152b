----------------------------- MODULE ThreadQueues -----------------------------
(***************************************************************************)
(* What the thread lists of the VM promise, whatever they are built from:  *)
(* a thread is in one list at a time; the ready list and the waiting list  *)
(* of a lock serve higher priorities first and equal priorities in order   *)
(* of arrival; a thread is taken from the head of the ready list; a        *)
(* wake-up moves a whole waiting list, in order, behind the threads that   *)
(* are already ready; the death of a thread wakes its joiners with it.     *)
(*                                                                         *)
(* Threads and ThreadLinks implement this specification.                   *)
(***************************************************************************)
EXTENDS Integers, Sequences

CONSTANTS Threads, Locks, Blockers, Prios

VARIABLES
  prio,     \* the priority of a thread that is in a list
  ready,    \* one FIFO per priority
  running,  \* the round of the time slices
  pending   \* for each lock and blocker, one FIFO or stack per priority

vars == <<prio, ready, running, pending>>

Places  == Locks \cup Blockers
Nobody  == [p \in Prios |-> <<>>]
Held(q) == {q[i] : i \in DOMAIN q}   \* the threads in a list
In(t, Q) == \E p \in Prios : t \in Held(Q[p])
Listed(t) == \/ t \in Held(running) \/ In(t, ready)
             \/ \E x \in Places : In(t, pending[x])

Out(q, t) ==
  IF t \notin Held(q) THEN q
  ELSE LET i == CHOOSE k \in DOMAIN q : q[k] = t
       IN  SubSeq(q, 1, i - 1) \o SubSeq(q, i + 1, Len(q))
First(Q, p) == Q[p] # <<>> /\ \A q \in Prios : q > p => Q[q] = <<>>

-----------------------------------------------------------------------------

\* A new thread is ready.
Enter(t, p) ==
  /\ ~Listed(t)
  /\ prio' = [prio EXCEPT ![t] = p]
  /\ ready' = [ready EXCEPT ![p] = Append(@, t)]
  /\ UNCHANGED <<running, pending>>

\* The head of the ready list joins the round.
Dispatch(p) ==
  /\ First(ready, p)
  /\ running' = Append(running, Head(ready[p]))
  /\ ready' = [ready EXCEPT ![p] = Tail(@)]
  /\ UNCHANGED <<prio, pending>>

Yield(t) ==
  /\ t \in Held(running)
  /\ running' = Out(running, t)
  /\ ready' = [ready EXCEPT ![prio[t]] = Append(@, t)]
  /\ UNCHANGED <<prio, pending>>

\* A running thread waits: in order of arrival for a lock, the last one first
\* for a blocker.
Wait(t, x) ==
  /\ t \in Held(running)
  /\ running' = Out(running, t)
  /\ pending' = [pending EXCEPT ![x][prio[t]] =
                   IF x \in Locks THEN Append(@, t) ELSE <<t>> \o @]
  /\ UNCHANGED <<prio, ready>>

\* Everybody who waits for x is ready.
Wake(x) ==
  /\ ready' = [p \in Prios |-> ready[p] \o pending[x][p]]
  /\ pending' = [pending EXCEPT ![x] = Nobody]
  /\ UNCHANGED <<prio, running>>

\* A ready or running thread dies; the threads that wait for its death are
\* ready.
Leave(t) ==
  /\ t \in Held(running) \/ In(t, ready)
  /\ running' = Out(running, t)
  /\ ready' = [p \in Prios |-> Out(ready[p], t) \o pending[t][p]]
  /\ pending' = [pending EXCEPT ![t] = Nobody]
  /\ UNCHANGED prio

Init ==
  /\ prio \in [Threads -> Prios]
  /\ ready = Nobody /\ running = <<>>
  /\ pending = [x \in Places |-> Nobody]

Next ==
  \/ \E p \in Prios : Dispatch(p) \/ \E t \in Threads : Enter(t, p)
  \/ \E t \in Threads : Yield(t) \/ Leave(t) \/ \E x \in Places : Wait(t, x)
  \/ \E x \in Places : Wake(x)

Spec == Init /\ [][Next]_vars
=============================================================================
