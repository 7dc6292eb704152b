----------------------------- MODULE ThreadLinks -----------------------------
(***************************************************************************)
(* The thread lists of the VM node by node.  Every thread embeds one list  *)
(* node (sched_data) that links it into the ready, running or zombie list  *)
(* of the VM or into the waiting list of a mutex; the macros of            *)
(* include/list.h are written as functions from memory to memory.          *)
(*                                                                         *)
(* Where Threads follows time slices, scheduler modes and retried opcodes, *)
(* this module leaves them open (a slice may end at any cycle) and looks   *)
(* at the pointers instead.  A dead thread is collected once nobody holds  *)
(* it, and its memory may become a new thread.                             *)
(***************************************************************************)
EXTENDS Integers, FiniteSets, SequencesExt

CONSTANTS
  Threads, Mutexes, Blockers, Prios, NULL,
  MaxDepth,   \* bound on the recursion depth of a lock
  KillStates  \* states of a thread in which it may be the victim of killThread

Locks == Mutexes \cup Threads
Lists == {"ready", "running", "zombie"} \cup Locks

ASSUME ConstantsAssumption ==
  /\ IsFiniteSet(Threads) /\ NULL \notin Threads
  /\ Mutexes \cap Threads = {} /\ Blockers \cap Locks = {}
  /\ {"ready", "running", "zombie"} \cap Locks = {}
  /\ Prios \subseteq Int /\ Prios # {}
  /\ MaxDepth \in Nat \ {0}
  /\ KillStates \subseteq {"Ready", "Running", "Blocked"}

VARIABLES
  phase,        \* where vm_schedule_cycle stands
  mem,          \* the nodes and lists, the states and priorities of threads
  current,      \* vm->current_thread
  owner, count, \* of the locks
  stack,        \* the threads of a vm_blocker_t, top first
  pending_lock  \* t->pending_lock

vars == <<phase, mem, current, owner, count, stack, pending_lock>>

-----------------------------------------------------------------------------
(* The macros of list.h.  Writing through NULL is recorded in bad. *)

SetNext(m, n, x) == IF n = NULL THEN [m EXCEPT !.bad = TRUE] ELSE [m EXCEPT !.next[n] = x]
SetPrev(m, n, x) == IF n = NULL THEN [m EXCEPT !.bad = TRUE] ELSE [m EXCEPT !.prev[n] = x]
NextOf(m, n) == IF n = NULL THEN NULL ELSE m.next[n]
PrevOf(m, n) == IF n = NULL THEN NULL ELSE m.prev[n]
SetEnds(m, l, h, t) == [m EXCEPT !.head[l] = h, !.tail[l] = t]

InsertTail(m, l, n) ==
  LET a == SetPrev(SetNext(m, n, NULL), n, m.tail[l])
  IN  IF m.head[l] = NULL THEN SetEnds(a, l, n, n)
      ELSE SetEnds(SetNext(a, a.tail[l], n), l, a.head[l], n)

RemoveHead(m, l) ==
  IF m.tail[l] = m.head[l] THEN SetEnds(m, l, NULL, NULL)
  ELSE LET h == NextOf(m, m.head[l])
       IN  SetPrev(SetEnds(m, l, h, m.tail[l]), h, NULL)

RemoveTail(m, l) ==
  IF m.tail[l] = m.head[l] THEN SetEnds(m, l, NULL, NULL)
  ELSE LET t == PrevOf(m, m.tail[l])
       IN  SetNext(SetEnds(m, l, m.head[l], t), t, NULL)

\* dlist_remove_no_free.
RemoveNode(m, l, n) ==
  IF n = m.head[l] THEN RemoveHead(m, l)
  ELSE IF n = m.tail[l] THEN RemoveTail(m, l)
  ELSE LET a == SetPrev(m, m.next[n], m.prev[n]) IN SetNext(a, a.prev[n], a.next[n])

\* comp_prio: negative when a goes before b.
Compare(m, a, b) == m.prio[b] - m.prio[a]

\* Mutant: a node goes before the ones that are equal to it.
NotAfter(m, a, b) == Compare(m, a, b) <= 0

Precedes(m, a, b) == Compare(m, a, b) < 0

\* The nodes that a loop of r = r->next gets to.
Hops(m, r) ==
  LET hop[k \in 0 .. Cardinality(Threads)] == IF k = 0 THEN r ELSE NextOf(m, hop[k - 1])
  IN  hop

\* The node after which n goes, looking from r on, or the last one.
Before(m, n, r) ==
  LET hop  == Hops(m, r)
      last == {k \in DOMAIN hop : NextOf(m, hop[k]) # NULL => Precedes(m, n, NextOf(m, hop[k]))}
  IN  hop[CHOOSE k \in last : \A j \in last : k <= j]

\* n between r and the node after r.  The loop would follow NULL if there were
\* no such node, and so does the assignment to its prev.
LinkAfter(m, n, r) ==
  LET a == SetNext(m, n, NextOf(m, r))
  IN  SetPrev(SetNext(SetPrev(a, NextOf(a, r), n), r, n), n, r)

\* dlist_insert_sorted with comp_prio.
InsertSorted(m, l, n) ==
  LET r == m.head[l] IN
  IF r = NULL THEN SetEnds(SetPrev(SetNext(m, n, NULL), n, NULL), l, n, n)
  ELSE IF Precedes(m, n, r)
  THEN SetEnds(SetPrev(SetPrev(SetNext(m, n, r), n, NULL), r, n), l, n, m.tail[l])
  ELSE IF ~Precedes(m, n, m.tail[l]) THEN InsertTail(m, l, n)
  ELSE LinkAfter(m, n, Before(m, n, r))

-----------------------------------------------------------------------------
(* Thread states and locks. *)

\* thread_set_state: t leaves the list of its old state and enters the one of
\* the new state.  A blocked thread is in no list of the VM.
SetState(m, t, s) ==
  LET old == m.state[t]
      out == IF old = "Ready" THEN RemoveNode(m, "ready", t)
             ELSE IF old = "Running" THEN RemoveNode(m, "running", t) ELSE m
      new == [out EXCEPT !.state[t] = s]
  IN  CASE s = "Zombie"  -> InsertTail(new, "zombie", t)
        [] s = "Ready"   -> InsertSorted(new, "ready", t)
        [] s = "Running" -> InsertTail(new, "running", t)
        [] OTHER -> new

\* The node that becomes the head of a waiting list whose head is taken away.
\* Mutant: its tail is forgotten when the list becomes empty.
PopHalf(m, l) ==
  LET n == m.next[m.head[l]]
  IN  IF n = NULL THEN [m EXCEPT !.head[l] = NULL]
      ELSE SetPrev([m EXCEPT !.head[l] = n], n, NULL)

\* The head of a waiting list is taken away.
Pop(m, l) ==
  LET n == m.next[m.head[l]]
  IN  IF n = NULL THEN SetEnds(m, l, NULL, NULL)
      ELSE SetPrev([m EXCEPT !.head[l] = n], n, NULL)

\* The loop of mutex_unlock: the waiters of l are made ready one after another.
WakeOne(m, l) ==
  IF m.head[l] = NULL THEN m ELSE SetState(Pop(m, l), m.head[l], "Ready")
WakeAll(m, l) ==
  LET after[k \in 0 .. Cardinality(Threads)] == IF k = 0 THEN m ELSE WakeOne(after[k - 1], l)
  IN  after[Cardinality(Threads)]

\* The loop of blocker_resume: the threads of a stack are made ready.
ReadyAll(m, q) ==
  LET after[i \in 0 .. Len(q)] == IF i = 0 THEN m ELSE SetState(after[i - 1], q[i], "Ready")
  IN  after[Len(q)]

Lock(l, t) ==
  /\ owner' = [owner EXCEPT ![l] = t]
  /\ count' = [count EXCEPT ![l] = @ + 1]

\* mutex_unlock by the owner, on memory m.
Unlock(l, m) ==
  IF count[l] > 1
  THEN /\ count' = [count EXCEPT ![l] = @ - 1]
       /\ mem' = m
       /\ UNCHANGED owner
  ELSE /\ count' = [count EXCEPT ![l] = 0]
       /\ owner' = [owner EXCEPT ![l] = NULL]
       /\ mem' = WakeAll(m, l)

\* mutex_lock of a lock that somebody else owns.
BlockOn(l) ==
  /\ owner[l] \notin {NULL, current}
  /\ mem' = InsertSorted(SetState(mem, current, "Blocked"), l, current)
  /\ current' = NULL
  /\ pending_lock' = [pending_lock EXCEPT ![current] = l]
  /\ UNCHANGED <<owner, count>>

\* thread_init and vm_add_thread.
Create(t, p) ==
  /\ mem.state[t] = "None"
  /\ mem' = SetState([mem EXCEPT !.prio[t] = p, !.next[t] = NULL, !.prev[t] = NULL,
                                 !.state[t] = "Start"], t, "Ready")
  /\ Lock(t, t)
  /\ pending_lock' = [pending_lock EXCEPT ![t] = NULL]
  /\ UNCHANGED <<current, stack>>

\* vm_kill_thread.
Kill(v) ==
  /\ current' = IF current = v THEN NULL ELSE current
  /\ Unlock(v, SetState(mem, v, "Zombie"))
  /\ UNCHANGED <<stack, pending_lock>>

Live == {t \in Threads : mem.state[t] \notin {"None", "Zombie"}}

-----------------------------------------------------------------------------
(* The scheduler. *)

\* The next running thread, looked up through the node of the current one.
Candidate ==
  IF current # NULL /\ mem.state[current] = "Running" /\ mem.next[current] # NULL
  THEN mem.next[current] ELSE mem.head["running"]

\* The slice is not over.
Keep ==
  /\ phase = "sched" /\ phase' = "exec"
  /\ current # NULL /\ mem.state[current] = "Running"
  /\ UNCHANGED <<mem, current, owner, count, stack, pending_lock>>

\* _sched_rr past the quick pass.
Turn ==
  LET tb == mem.head["ready"] IN
  /\ phase = "sched" /\ Live # {}
  /\ IF tb # NULL /\ (Candidate # NULL => mem.prio[Candidate] <= mem.prio[tb])
     THEN current' = tb /\ mem' = SetState(mem, tb, "Running")
     ELSE current' = Candidate /\ UNCHANGED mem
  /\ phase' = IF current' = NULL THEN "sched" ELSE "exec"
  /\ UNCHANGED <<owner, count, stack, pending_lock>>

-----------------------------------------------------------------------------
(* The opcodes of the current thread. *)

\* The current thread executes an opcode that is no retry of a lock.
Fresh == /\ phase = "exec" /\ phase' = "sched"
         /\ pending_lock[current] = NULL

\* The current thread executes an opcode that locks l, for the first time or
\* again.
Locking(l) == /\ phase = "exec" /\ phase' = "sched"
              /\ pending_lock[current] \in {NULL, l}

LockGranted == pending_lock' = [pending_lock EXCEPT ![current] = NULL] /\ UNCHANGED current

NewThread == Fresh /\ \E t \in Threads, p \in Prios : Create(t, p)

LockMtx ==
  /\ \E l \in Mutexes :
       /\ Locking(l)
       /\ \/ /\ owner[l] \in {NULL, current} /\ count[l] < MaxDepth
             /\ Lock(l, current) /\ LockGranted
             /\ UNCHANGED mem
          \/ BlockOn(l)
  /\ UNCHANGED stack

\* By the owner; anybody else is killed (Die).
UnlockMtx ==
  /\ Fresh
  /\ \E l \in Mutexes : owner[l] = current /\ Unlock(l, mem)
  /\ UNCHANGED <<current, stack, pending_lock>>

JoinThread ==
  /\ \E j \in Threads :
       /\ mem.state[j] # "None"
       /\ Locking(j)
       /\ \/ owner[j] = NULL /\ Unlock(j, mem) /\ LockGranted
          \/ owner[j] = current /\ LockGranted /\ UNCHANGED <<mem, owner, count>>
          \/ BlockOn(j)
  /\ UNCHANGED stack

KillThread == Fresh /\ \E v \in Threads : mem.state[v] \in KillStates /\ Kill(v)

\* The end of the code, a failed assertion, an uncaught exception.
Die == Fresh /\ Kill(current)

Yield ==
  /\ Fresh
  /\ mem' = SetState(mem, current, "Ready")
  /\ current' = NULL
  /\ UNCHANGED <<owner, count, stack, pending_lock>>

\* blocker_suspend.
Suspend ==
  /\ Fresh
  /\ \E b \in Blockers : stack' = [stack EXCEPT ![b] = <<current>> \o @]
  /\ mem' = SetState(mem, current, "Blocked")
  /\ UNCHANGED <<current, owner, count, pending_lock>>

\* blocker_resume.
Resume ==
  /\ Fresh
  /\ \E b \in Blockers :
       /\ stack' = [stack EXCEPT ![b] = <<>>]
       /\ mem' = ReadyAll(mem, stack[b])
  /\ UNCHANGED <<current, owner, count, pending_lock>>

Other == Fresh /\ UNCHANGED <<mem, current, owner, count, stack, pending_lock>>

Execute == \/ NewThread \/ LockMtx \/ UnlockMtx \/ JoinThread \/ KillThread \/ Die
           \/ Yield \/ Suspend \/ Resume \/ Other

-----------------------------------------------------------------------------
(* The client and the collector. *)

Run ==
  /\ phase = "sched" /\ Live = {} /\ current = NULL
  /\ \E t \in Threads, p \in Prios : Create(t, p)
  /\ UNCHANGED phase

\* thread_deinit: a zombie leaves the list of zombies.
Unlink(m, t) ==
  LET p == m.prev[t]  n == m.next[t]
      a == IF p # NULL THEN SetNext(m, p, n) ELSE [m EXCEPT !.head["zombie"] = n]
  IN  IF n # NULL THEN SetPrev(a, n, p) ELSE [a EXCEPT !.tail["zombie"] = p]

\* The cycle's finalization of a dead thread: no joiner holds it, and the
\* program has dropped its handle.
Collect ==
  /\ phase = "sched"
  /\ \E t \in Threads :
       /\ mem.state[t] = "Zombie"
       /\ \A u \in Live : pending_lock[u] # t
       /\ mem' = [Unlink(mem, t) EXCEPT !.state[t] = "None", !.next[t] = NULL, !.prev[t] = NULL]
  /\ UNCHANGED <<phase, current, owner, count, stack, pending_lock>>

Init ==
  /\ phase = "sched"
  /\ mem = [next  |-> [t \in Threads |-> NULL],
            prev  |-> [t \in Threads |-> NULL],
            head  |-> [l \in Lists |-> NULL],
            tail  |-> [l \in Lists |-> NULL],
            state |-> [t \in Threads |-> "None"],
            prio  |-> [t \in Threads |-> CHOOSE p \in Prios : TRUE],
            bad   |-> FALSE]
  /\ current = NULL
  /\ owner = [l \in Locks |-> NULL]
  /\ count = [l \in Locks |-> 0]
  /\ stack = [b \in Blockers |-> <<>>]
  /\ pending_lock = [t \in Threads |-> NULL]

Next == Keep \/ Turn \/ Execute \/ Run \/ Collect
Spec == Init /\ [][Next]_vars

-----------------------------------------------------------------------------
(* Properties. *)

\* The nodes of a list, following next; one too many if it does not end.
NodesOf(m, l) ==
  LET hop == Hops(m, m.head[l])
  IN  [i \in 1 .. Cardinality({k \in DOMAIN hop : hop[k] # NULL}) |-> hop[i - 1]]

Nodes(l) == NodesOf(mem, l)

\* A list is a chain that is the same in both directions between its two ends.
Chained(l) ==
  LET q == Nodes(l) IN
  /\ IsInjective(q)
  /\ mem.head[l] = IF q = <<>> THEN NULL ELSE q[1]
  /\ mem.tail[l] = IF q = <<>> THEN NULL ELSE Last(q)
  /\ \A i \in DOMAIN q : mem.prev[q[i]] = IF i = 1 THEN NULL ELSE q[i - 1]

\* Higher priorities come first.
Sorted(l) ==
  LET q == Nodes(l) IN
  \A i, j \in DOMAIN q : i < j => mem.prio[q[i]] >= mem.prio[q[j]]

\* Every list is whole, the ready list and the waiting lists are sorted, and
\* the thread state says which list of the VM a node is in: a macro applied to
\* the wrong list would splice two of them.  No list operation follows a NULL
\* pointer.
WellLinked ==
  /\ \A l \in Lists : Chained(l) /\ (l \notin {"running", "zombie"} => Sorted(l))
  /\ \A t \in Threads, l \in Lists :
       t \in ToSet(Nodes(l)) =>
         mem.state[t] = CASE l = "ready" -> "Ready" [] l = "running" -> "Running"
                          [] l = "zombie" -> "Zombie" [] OTHER -> "Blocked"
  /\ ~mem.bad

\* killThread: "Terminate given thread at once"
\* (flow_control_and_threading.txt): a dead thread is never scheduled again.
DeadStayDead ==
  [][\A t \in Threads : mem.state[t] = "Zombie" => mem'.state[t] \in {"Zombie", "None"}]_vars

\* The threads of priority p in q, in their order.
OfPrio(prio, q, p) ==
  LET of[i \in 0 .. Len(q)] ==
        IF i = 0 THEN <<>> ELSE IF prio[q[i]] = p THEN Append(of[i - 1], q[i]) ELSE of[i - 1]
  IN  of[Len(q)]

\* The lists of nodes are the lists of ThreadQueues.
ByPrio(q) == [p \in Prios |-> OfPrio(mem.prio, q, p)]
TQ == INSTANCE ThreadQueues WITH
  prio    <- mem.prio,
  ready   <- ByPrio(Nodes("ready")),
  running <- Nodes("running"),
  pending <- [x \in Locks \cup Blockers |-> ByPrio(IF x \in Locks THEN Nodes(x) ELSE stack[x])]

\* Walking the nodes, the threads come in the order that ThreadQueues promises:
\* the sorted insertion is a FIFO per priority, and a wake-up keeps the order.
ImplementsQueues == TQ!Spec
=============================================================================
