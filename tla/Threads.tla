------------------------------- MODULE Threads -------------------------------
(***************************************************************************)
(* The virtual threads of the VM under the synchronous engine              *)
(* (stub_engine, src/vm/vm_engine.c): thread states and their lists,       *)
(* recursive mutexes, blockers and the priority/time-slice scheduler.      *)
(*                                                                         *)
(* e_run repeats vm_schedule_cycle until no thread is left.  One cycle     *)
(* is two steps here: the scheduler chooses (phase "sched"), then the      *)
(* chosen thread executes one opcode (phase "exec").  Programs are left    *)
(* open: a thread may execute any opcode of Opcodes, except that an opcode *)
(* that blocked is executed again, because its IP did not move.            *)
(*                                                                         *)
(* A list that the code keeps sorted with dlist_insert_sorted and          *)
(* comp_prio (higher priority first, first come first served among equals) *)
(* is written as one FIFO per priority, which is the same ordering.        *)
(***************************************************************************)
EXTENDS Integers, Sequences, FiniteSets, Functions

CONSTANTS
  Threads,    \* thread objects that may be created
  Mutexes,    \* mutex objects (newMtx)
  Blockers,   \* vm_blocker_t objects of the extensions
  Prios,      \* priorities the programs use
  NULL,
  Timeslices, \* arguments of _set_timeslice
  MaxDepth,   \* bound on the recursion depth of a lock
  Opcodes,    \* opcodes the programs use
  KillStates  \* states of a thread in which it may be the victim of killThread

\* &t->join_mutex is embedded in the thread: a thread names its join mutex.
Locks == Mutexes \cup Threads

\* Where a blocked thread may wait.
WaitPlaces == Locks \cup Blockers

AllOpcodes == {"newThread", "lockMtx", "lockMtx_Int", "unlockMtx", "joinThread",
               "killThread", "yield", "crit_begin", "crit_end", "suspend",
               "resume", "set_timeslice", "fatal", "end", "other"}

ASSUME ConstantsAssumption ==
  /\ Mutexes \cap Threads = {}
  /\ Blockers \cap Locks = {}
  /\ NULL \notin WaitPlaces
  /\ IsFiniteSet(Threads)
  /\ Prios \subseteq Int /\ Prios # {}
  /\ Timeslices \subseteq Int
  /\ MaxDepth \in Nat \ {0}
  /\ Opcodes \subseteq AllOpcodes
  /\ KillStates \subseteq {"Ready", "Running"}

VARIABLES
  phase,         \* where vm_schedule_cycle stands
  tstate,        \* t->state; "None" before vm_thread_new
  prio,          \* t->prio
  ready,         \* vm->ready_threads
  running,       \* vm->running_threads
  current,       \* vm->current_thread
  remaining,     \* t->remaining, negative values counted as 0
  crit,          \* threads with IN_CRITICAL_SECTION in exec_flags
  threads_count, \* vm->threads_count
  scheduler,     \* vm->scheduler
  timeslice,     \* vm->timeslice
  owner,         \* m->owner
  count,         \* m->count
  pending,       \* m->pending, and the stack of a vm_blocker_t, top first
  pending_lock,  \* t->pending_lock
  insn           \* the opcode at t->IP when it must be executed again

threadVars == <<tstate, prio, ready, running>>
schedVars  == <<current, remaining, crit, timeslice>>
countVars  == <<threads_count, scheduler>>
lockVars   == <<owner, count, pending>>
insnVars   == <<pending_lock, insn>>
vars == <<phase, threadVars, schedVars, countVars, lockVars, insnVars>>

States     == {"None", "Ready", "Running", "Blocked", "Zombie"}
Schedulers == {"Idle", "Mono", "RoundRobin"}
Queues     == [Prios -> Seq(Threads)]
NoThreads  == [p \in Prios |-> <<>>]

-----------------------------------------------------------------------------
(* Lists of threads. *)

\* Mutant: the removed node takes the rest of the list with it.
WithoutRest(q, t) ==
  IF t \in Range(q)
  THEN SubSeq(q, 1, (CHOOSE k \in DOMAIN q : q[k] = t) - 1)
  ELSE q

\* dlist_remove_no_free: the list without one node.
Without(q, t) ==
  IF t \in Range(q)
  THEN LET i == CHOOSE k \in DOMAIN q : q[k] = t
       IN  SubSeq(q, 1, i - 1) \o SubSeq(q, i + 1, Len(q))
  ELSE q

Members(Q) == UNION {Range(Q[p]) : p \in Prios}

\* dlist_insert_sorted with comp_prio.
Insert(Q, t, p) == [Q EXCEPT ![p] = Append(@, t)]

\* Mutant: the newcomers go before the threads of their priority.
InsertAllBefore(Q, R) == [p \in Prios |-> R[p] \o Q[p]]

\* A whole list inserted in order into another one.
InsertAll(Q, R) == [p \in Prios |-> Q[p] \o R[p]]

\* The priority of the head of a sorted list.
IsTop(Q, p) == /\ Q[p] # <<>>
               /\ \A q \in Prios : q > p => Q[q] = <<>>

\* Some member of R has at least priority p.
SomeAtLeast(R, p) == \E q \in Prios : q >= p /\ R[q] # <<>>

Live == {t \in Threads : tstate[t] \notin {"None", "Zombie"}}


-----------------------------------------------------------------------------
(* Mutexes. *)

\* Mutant: a mutex that nobody owns is not seen as free.
FreeToOwner(l, t) == owner[l] = t

\* Mutant: the owner is not looked at.
FreeToAll(l, t) == TRUE

Free(l, t) == owner[l] \in {NULL, t}

\* mutex_lock when the mutex is free or already owned by t.
Grant(l, t) ==
  /\ owner' = [owner EXCEPT ![l] = t]
  /\ count' = [count EXCEPT ![l] = @ + 1]
  /\ UNCHANGED pending

\* mutex_lock when another thread owns the mutex: t waits for it.
BlockOn(l, t) ==
  /\ tstate' = [tstate EXCEPT ![t] = "Blocked"]
  /\ running' = Without(running, t)
  /\ current' = NULL
  /\ pending' = [pending EXCEPT ![l] = Insert(@, t, prio[t])]
  /\ UNCHANGED <<owner, count, ready, prio>>

\* The thread states once every thread of the list Q is ready.
Woken(Q, st) == [u \in Threads |-> IF u \in Members(Q) THEN "Ready" ELSE st[u]]

\* Mutant: the thread that wakes others goes on.
CutSliceNever(Q, t) == remaining

\* t gives the rest of its slice away when it wakes a thread of at least its
\* priority.
CutSlice(Q, t) == IF SomeAtLeast(Q, prio[t]) THEN [remaining EXCEPT ![t] = 0] ELSE remaining

\* mutex_unlock by the owner t, whose threads states and ready list are st and
\* rdy by then: the last unlock wakes every waiter, and they will compete.
Unlock(l, t, st, rdy) ==
  IF count[l] > 1
  THEN /\ count' = [count EXCEPT ![l] = @ - 1]
       /\ tstate' = st /\ ready' = rdy
       /\ UNCHANGED <<owner, pending, remaining>>
  ELSE /\ count' = [count EXCEPT ![l] = 0]
       /\ owner' = [owner EXCEPT ![l] = NULL]
       /\ pending' = [pending EXCEPT ![l] = NoThreads]
       /\ tstate' = Woken(pending[l], st)
       /\ ready' = InsertAll(rdy, pending[l])
       /\ remaining' = CutSlice(pending[l], t)

-----------------------------------------------------------------------------
(* Birth and death of threads. *)

\* Mutants: the join mutex is left free, or is locked once too often.
LockJoinNever(t) == UNCHANGED lockVars
LockJoinTwice(t) == /\ owner' = [owner EXCEPT ![t] = t]
                    /\ count' = [count EXCEPT ![t] = @ + 2]
                    /\ UNCHANGED pending

\* The join mutex of a new thread is locked by the thread itself.
LockJoin(t) == Grant(t, t)

\* vm_add_thread: the new thread owns its join mutex and is ready.
Add(t, p) ==
  /\ tstate[t] = "None"
  /\ prio' = [prio EXCEPT ![t] = p]
  /\ LockJoin(t)
  /\ threads_count' = threads_count + 1
  /\ scheduler' = CASE threads_count' = 1 -> "Mono"
                    [] threads_count' = 2 -> "RoundRobin"
                    [] OTHER -> scheduler
  /\ tstate' = [tstate EXCEPT ![t] = "Ready"]
  /\ ready' = Insert(ready, t, p)
  /\ UNCHANGED running

\* Mutant: the scheduler mode does not follow the count down to one.
ModeWithoutMono(n) == IF n = 0 THEN "Idle" ELSE scheduler

\* The scheduler mode once n threads are left.
ModeFor(n) == CASE n = 1 -> "Mono"
                [] n = 0 -> "Idle"
                [] OTHER -> scheduler

\* vm_kill_thread: v leaves the list of its state and releases its join mutex,
\* which it has owned since Add.
Kill(v) ==
  /\ threads_count' = threads_count - 1
  /\ scheduler' = ModeFor(threads_count - 1)
  /\ current' = IF current = v THEN NULL ELSE current
  /\ running' = IF tstate[v] = "Running" THEN Without(running, v) ELSE running
  /\ Unlock(v, v, [tstate EXCEPT ![v] = "Zombie"],
            IF tstate[v] = "Ready"
            THEN [ready EXCEPT ![prio[v]] = Without(@, v)] ELSE ready)
  /\ UNCHANGED prio

-----------------------------------------------------------------------------
(* The scheduler: vm_schedule_cycle up to vm_exec_cycle. *)

\* The thread after t in the running list, round to its head.
Successor(t) ==
  LET i == CHOOSE k \in DOMAIN running : running[k] = t
  IN  IF i < Len(running) THEN running[i + 1] ELSE running[1]

\* e_run calls vm_schedule_cycle, whose scheduler is not _sched_idle.
Cycling == phase = "sched" /\ threads_count > 0 /\ scheduler # "Idle"

\* Mutant: a critical section does not protect from the end of the slice.
KeepsSlice(t) == t # NULL /\ tstate[t] = "Running" /\ remaining[t] > 0

\* The current thread goes on within its slice or its critical section.
Keeps(t) == /\ t # NULL
            /\ tstate[t] = "Running"
            /\ remaining[t] > 0 \/ t \in crit

\* The running thread that _sched_rr would turn to.
Candidate ==
  IF running = <<>> THEN NULL
  ELSE IF current # NULL /\ tstate[current] = "Running" THEN Successor(current)
  ELSE running[1]

\* Mutants: the comparison is reversed, or strict.
ReplacesLess(t) == Candidate # NULL => prio[Candidate] >= prio[t]
ReplacesOver(t) == Candidate # NULL => prio[Candidate] < prio[t]

\* The head t of the ready list goes before the candidate.
Replaces(t) == Candidate # NULL => prio[Candidate] <= prio[t]

\* Cost of the cycle about to run: current->remaining -= 1.
OneLess(n) == IF n > 0 THEN n - 1 ELSE 0

ScheduleKeep ==
  /\ Cycling
  /\ Keeps(current)
  /\ remaining' = [remaining EXCEPT ![current] = OneLess(@)]
  /\ phase' = "exec"
  /\ UNCHANGED <<threadVars, current, crit, timeslice, countVars, lockVars, insnVars>>

\* The head of the ready list enters the running list when it has at least
\* the priority of the candidate.
ScheduleReady ==
  /\ Cycling
  /\ ~Keeps(current)
  /\ \E p \in Prios :
       LET t == Head(ready[p]) IN
       /\ IsTop(ready, p)
       /\ Replaces(t)
       /\ current' = t
       /\ tstate' = [tstate EXCEPT ![t] = "Running"]
       /\ ready' = [ready EXCEPT ![p] = Tail(@)]
       /\ running' = Append(running, t)
       /\ remaining' = [remaining EXCEPT ![t] = OneLess(timeslice)]
  /\ phase' = "exec"
  /\ UNCHANGED <<prio, crit, timeslice, countVars, lockVars, insnVars>>

ScheduleRunning ==
  /\ Cycling
  /\ ~Keeps(current)
  /\ Candidate # NULL
  /\ \A p \in Prios : IsTop(ready, p) => ~Replaces(Head(ready[p]))
  /\ current' = Candidate
  /\ remaining' = [remaining EXCEPT ![Candidate] = OneLess(timeslice)]
  /\ phase' = "exec"
  /\ UNCHANGED <<threadVars, crit, timeslice, countVars, lockVars, insnVars>>

\* Every thread is blocked: the cycle executes nothing and e_run tries again.
ScheduleNone ==
  /\ Cycling
  /\ Candidate = NULL /\ Members(ready) = {}
  /\ current' = NULL
  /\ UNCHANGED <<phase, threadVars, remaining, crit, timeslice, countVars, lockVars, insnVars>>

Schedule == ScheduleKeep \/ ScheduleReady \/ ScheduleRunning \/ ScheduleNone

-----------------------------------------------------------------------------
(* The opcodes: vm_exec_cycle of the current thread. *)

\* The opcode at the IP of the current thread is op.
Executes(op) ==
  /\ phase = "exec" /\ phase' = "sched"
  /\ op \in Opcodes
  /\ insn[current] \in {"any", op}

\* The IP moves on; any opcode may follow.
Advance == insn' = [insn EXCEPT ![current] = "any"]

NewThread ==
  /\ Executes("newThread")
  /\ \E t \in Threads, p \in Prios : Add(t, p)
  /\ UNCHANGED <<schedVars, insnVars>>

\* The operand is popped once: a thread that comes back finds it in
\* pending_lock.
LockMtx ==
  /\ Executes("lockMtx")
  /\ \E m \in Mutexes :
       /\ pending_lock[current] \in {NULL, m}
       /\ \/ /\ Free(m, current) /\ count[m] < MaxDepth
             /\ Grant(m, current)
             /\ pending_lock' = [pending_lock EXCEPT ![current] = NULL]
             /\ Advance
             /\ UNCHANGED <<threadVars, current>>
          \/ /\ ~Free(m, current)
             /\ BlockOn(m, current)
             /\ pending_lock' = [pending_lock EXCEPT ![current] = m]
             /\ insn' = [insn EXCEPT ![current] = "lockMtx"]
  /\ UNCHANGED <<remaining, crit, timeslice, countVars>>

\* The memory cell is read again at every attempt: it may hold another mutex.
LockMtxInt ==
  /\ Executes("lockMtx_Int")
  /\ \E m \in Mutexes :
       \/ /\ Free(m, current) /\ count[m] < MaxDepth
          /\ Grant(m, current)
          /\ Advance
          /\ UNCHANGED <<threadVars, current>>
       \/ /\ ~Free(m, current)
          /\ BlockOn(m, current)
          /\ insn' = [insn EXCEPT ![current] = "lockMtx_Int"]
  /\ UNCHANGED <<remaining, crit, timeslice, countVars, pending_lock>>

\* _vm_assert_fail: the current thread is killed and the cycle abandoned.
Fail == Kill(current) /\ UNCHANGED <<crit, timeslice, insnVars>>

\* unlockMtx and unlockMtx:Int.
UnlockMtx ==
  /\ Executes("unlockMtx")
  /\ \E m \in Mutexes :
       \/ /\ owner[m] = current
          /\ Unlock(m, current, tstate, ready)
          /\ UNCHANGED <<prio, running, current, crit, timeslice, countVars, insnVars>>
       \/ /\ owner[m] # current
          /\ Fail

\* The joiner takes the join mutex of j and releases it at once.
JoinThread ==
  /\ Executes("joinThread")
  /\ \E j \in Threads :
       /\ tstate[j] # "None"
       /\ pending_lock[current] \in {NULL, j}
       /\ \/ /\ owner[j] = NULL
             /\ Unlock(j, current, tstate, ready)
             /\ pending_lock' = [pending_lock EXCEPT ![current] = NULL]
             /\ Advance
             /\ UNCHANGED <<prio, running, current>>
          \/ /\ owner[j] = current
             /\ pending_lock' = [pending_lock EXCEPT ![current] = NULL]
             /\ Advance
             /\ UNCHANGED <<threadVars, lockVars, current, remaining>>
          \/ /\ ~Free(j, current)
             /\ BlockOn(j, current)
             /\ pending_lock' = [pending_lock EXCEPT ![current] = j]
             /\ insn' = [insn EXCEPT ![current] = "joinThread"]
             /\ UNCHANGED remaining
  /\ UNCHANGED <<crit, timeslice, countVars>>

KillThread ==
  /\ Executes("killThread")
  /\ \E v \in Threads : tstate[v] \in KillStates /\ Kill(v)
  /\ UNCHANGED <<crit, timeslice, insnVars>>

\* ret on an empty call stack, or the end of the code: the thread is dying
\* and vm_schedule_cycle kills it.
End ==
  /\ Executes("end")
  /\ Kill(current)
  /\ UNCHANGED <<crit, timeslice, insnVars>>

\* Any other failed assertion, and an exception that no catcher is left for.
Fatal == Executes("fatal") /\ Fail

Yield ==
  /\ Executes("yield")
  /\ tstate' = [tstate EXCEPT ![current] = "Ready"]
  /\ running' = Without(running, current)
  /\ ready' = Insert(ready, current, prio[current])
  /\ current' = NULL
  /\ UNCHANGED <<prio, remaining, crit, timeslice, countVars, lockVars, insnVars>>

CritBegin ==
  /\ Executes("crit_begin")
  /\ \/ /\ current \notin crit
        /\ crit' = crit \cup {current}
        /\ UNCHANGED <<threadVars, current, remaining, timeslice, countVars, lockVars, insnVars>>
     \/ current \in crit /\ Fail

CritEnd ==
  /\ Executes("crit_end")
  /\ \/ /\ current \in crit
        /\ crit' = crit \ {current}
        /\ UNCHANGED <<threadVars, current, remaining, timeslice, countVars, lockVars, insnVars>>
     \/ current \notin crit /\ Fail

\* An extension opcode that must wait calls blocker_suspend on the current
\* thread.  current_thread stays, and the IP moves past the opcode.
Suspend ==
  /\ Executes("suspend")
  /\ \E b \in Blockers :
       pending' = [pending EXCEPT ![b][prio[current]] = <<current>> \o @]
  /\ tstate' = [tstate EXCEPT ![current] = "Blocked"]
  /\ running' = Without(running, current)
  /\ UNCHANGED <<prio, ready, schedVars, countVars, owner, count, insnVars>>

\* blocker_resume by the current thread: every suspended thread becomes ready
\* and will execute its opcode again.
Resume ==
  /\ Executes("resume")
  /\ \E b \in Blockers :
       /\ pending' = [pending EXCEPT ![b] = NoThreads]
       /\ tstate' = Woken(pending[b], tstate)
       /\ ready' = InsertAll(ready, pending[b])
       /\ remaining' = CutSlice(pending[b], current)
  /\ UNCHANGED <<prio, running, current, crit, timeslice, countVars, owner, count, insnVars>>

\* Only a positive timeslice is accepted.
Accept(n) == IF n > 0 THEN n ELSE timeslice

SetTimeslice ==
  /\ Executes("set_timeslice")
  /\ \E n \in Timeslices : timeslice' = Accept(n)
  /\ UNCHANGED <<threadVars, current, remaining, crit, countVars, lockVars, insnVars>>

\* Every opcode that touches none of this state.
Other ==
  /\ Executes("other")
  /\ UNCHANGED <<threadVars, schedVars, countVars, lockVars, insnVars>>

Execute == \/ NewThread \/ LockMtx \/ LockMtxInt \/ UnlockMtx \/ JoinThread
           \/ KillThread \/ End \/ Fatal \/ Yield \/ CritBegin \/ CritEnd
           \/ Suspend \/ Resume \/ SetTimeslice \/ Other

-----------------------------------------------------------------------------
(* The client: vm_run_program_fg once no thread is left, or it goes home. *)

Run ==
  /\ phase = "sched" /\ threads_count = 0 /\ current = NULL
  /\ \E t \in Threads, p \in Prios : Add(t, p)
  /\ UNCHANGED <<phase, schedVars, insnVars>>

Done ==
  /\ phase = "sched" /\ threads_count = 0
  /\ UNCHANGED vars

Init ==
  /\ phase = "sched"
  /\ tstate = [t \in Threads |-> "None"]
  /\ prio = [t \in Threads |-> CHOOSE p \in Prios : TRUE]
  /\ ready = NoThreads /\ running = <<>>
  /\ current = NULL
  /\ remaining = [t \in Threads |-> 0]
  /\ crit = {}
  /\ threads_count = 0
  /\ scheduler \in Schedulers          \* vm_new leaves it uninitialised
  /\ timeslice \in Timeslices /\ timeslice > 0
  /\ owner = [l \in Locks |-> NULL]
  /\ count = [l \in Locks |-> 0]
  /\ pending = [x \in WaitPlaces |-> NoThreads]
  /\ pending_lock = [t \in Threads |-> NULL]
  /\ insn = [t \in Threads |-> "any"]

Next == Schedule \/ Execute \/ Run \/ Done
Spec == Init /\ [][Next]_vars

\* e_run loops for as long as there are threads.
FairSpec == Spec /\ WF_vars(Schedule) /\ WF_vars(Execute)

-----------------------------------------------------------------------------
(* What the lists promise. *)

TQ == INSTANCE ThreadQueues

-----------------------------------------------------------------------------
(* Properties. *)

TypeOK ==
  /\ phase \in {"sched", "exec"}
  /\ tstate \in [Threads -> States]
  /\ prio \in [Threads -> Prios]
  /\ ready \in Queues
  /\ running \in Seq(Threads)
  /\ current \in Threads \cup {NULL}
  /\ remaining \in [Threads -> Nat]
  /\ crit \subseteq Threads
  /\ threads_count \in Int
  /\ scheduler \in Schedulers
  /\ timeslice \in Nat \ {0}
  /\ owner \in [Locks -> Threads \cup {NULL}]
  /\ count \in [Locks -> Nat]
  /\ pending \in [WaitPlaces -> Queues]
  /\ pending_lock \in [Threads -> Locks \cup {NULL}]
  /\ insn \in [Threads -> {"any", "lockMtx", "lockMtx_Int", "joinThread"}]

\* The list q holds the threads of S, each of them once.
Lists(q, S) == IsInjective(q) /\ Range(q) = S

\* A thread is in the list of its state, once, and in no other: the ready and
\* running lists share the node that is embedded in the thread with the
\* waiting list of a mutex, so a thread in two of them would splice them.
RunListsAgree ==
  /\ Lists(running, {t \in Threads : tstate[t] = "Running"})
  /\ \A p \in Prios :
       Lists(ready[p], {t \in Threads : tstate[t] = "Ready" /\ prio[t] = p})

WaitsIn(t, x) == t \in Range(pending[x][prio[t]])

\* A blocked thread waits in exactly one place and nobody else waits: a
\* thread in none would never come back, one in two would come back twice.
WaitListsAgree ==
  /\ \A x \in WaitPlaces, p \in Prios :
       /\ IsInjective(pending[x][p])
       /\ \A t \in Range(pending[x][p]) : tstate[t] = "Blocked" /\ prio[t] = p
  /\ \A t \in Threads : tstate[t] = "Blocked" => \E x \in WaitPlaces : WaitsIn(t, x)
  /\ \A t \in Threads, x, y \in WaitPlaces : WaitsIn(t, x) /\ WaitsIn(t, y) => x = y

\* Every thread is where its state says: once in the list of the runnable
\* ones, or once in one place where it waits, and nowhere when it is dead.
ListsAgree == RunListsAgree /\ WaitListsAgree

\* threads_count counts the threads that are not dead, and the scheduler mode
\* follows it: e_run stops when, and only when, no thread is left.
CountAgrees ==
  /\ threads_count = Cardinality(Live)
  /\ threads_count = 1 => scheduler = "Mono"
  /\ threads_count > 1 => scheduler = "RoundRobin"

\* No lost wake-up: whoever waits for a lock waits for an owner other than
\* itself, and a lock is owned exactly while its count is positive.
NoLostWakeup ==
  \A l \in Locks :
    /\ owner[l] = NULL <=> count[l] = 0
    /\ owner[l] = NULL => Members(pending[l]) = {}
    /\ owner[l] \notin Members(pending[l])

\* A join mutex is owned by its own thread, once, for exactly as long as it
\* lives: joinThread cannot get past a live thread, and the one unlock of
\* vm_kill_thread is enough to let the joiners go.
JoinMutexHeld ==
  \A t \in Threads : /\ owner[t] = IF t \in Live THEN t ELSE NULL
                     /\ count[t] = IF t \in Live THEN 1 ELSE 0

\* A thread that must retry waits for the lock that its retry will ask for.
RetriesItsLock ==
  \A t \in Threads :
    /\ insn[t] \in {"lockMtx", "joinThread"} => pending_lock[t] # NULL
    /\ pending_lock[t] # NULL =>
         /\ insn[t] = IF pending_lock[t] \in Threads THEN "joinThread" ELSE "lockMtx"
         /\ tstate[t] = "Blocked" => WaitsIn(t, pending_lock[t])

\* What executes is a running thread, and current_thread is never a thread
\* that is ready or dead.
CurrentRuns ==
  /\ phase = "exec" => current # NULL /\ tstate[current] = "Running"
  /\ current # NULL => tstate[current] \in {"Running", "Blocked"}

\* An owned mutex changes hands only by becoming free, in a step of its owner:
\* not by a lock, a join, a kill or a wake-up of anybody else.
OnlyOwnerReleases ==
  [][\A m \in Mutexes : owner[m] # NULL /\ owner'[m] # owner[m] =>
        owner'[m] = NULL /\ owner[m] = current]_vars

\* A thread in a critical section keeps the processor until it blocks, yields
\* or dies ("thread can't be interrupted", flow_control_and_threading.txt).
CritNotPreempted ==
  [][\A t \in crit : current = t /\ tstate[t] = "Running" /\ tstate'[t] = "Running" =>
        current' = t]_vars

\* When the scheduler turns away from the current thread, no ready thread has
\* a higher priority than the one it turns to.
ReadyPriority ==
  [][phase = "sched" /\ phase' = "exec" /\ ~Keeps(current) =>
       \A t \in Threads : tstate'[t] = "Ready" => prio[t] <= prio[current']]_vars

\* "Will interrupt thread if a thread with higher priority is waiting for this
\* lock" (unlockMtx): the scheduler will not keep the thread that unlocked.
UnlockInterrupts ==
  [][\A t \in Threads, m \in Mutexes :
       /\ current = t /\ owner[m] = t /\ owner'[m] = NULL /\ t \notin crit
       /\ \E p \in Prios : p > prio[t] /\ pending[m][p] # <<>>
       => ~Keeps(t)']_vars

\* "When the scheduler has to choose between two threads to schedule after a
\* time slice or a yield, it will choose the highest priority first"
\* (7.threading.part1.asm), whatever list the threads are in.
HighestPriorityFirst ==
  [][phase = "sched" /\ phase' = "exec" /\ ~Keeps(current) =>
       \A t \in Threads : tstate'[t] \in {"Ready", "Running"} => prio[t] <= prio[current']]_vars

\* The thread that the next cycle would choose once the slice is over.
NextChoice ==
  IF \E p \in Prios : IsTop(ready, p) /\ Replaces(Head(ready[p]))
  THEN Head(ready[CHOOSE p \in Prios : IsTop(ready, p)])
  ELSE Candidate

\* yield: "Tell the scheduler to interrupt thread execution and resume next
\* thread" (flow_control_and_threading.txt): with another thread of the same
\* priority able to run, the one that yields is not the next one.
YieldResumesNext ==
  [][\A t, u \in Threads :
       /\ t # u /\ prio[t] = prio[u]
       /\ phase = "exec" /\ current = t /\ tstate'[t] = "Ready"
       /\ tstate'[u] \in {"Ready", "Running"}
       => NextChoice' # t]_vars

\* A ready thread eventually runs: the time slices of the others end and
\* whoever unlocks, yields or dies makes room.
ReadyRuns == \A t \in Threads : tstate[t] = "Ready" ~> tstate[t] # "Ready"

\* Once the thread it waits for is dead, a joiner gets past its joinThread.
JoinCompletes ==
  \A t \in Threads, j \in Threads :
    pending_lock[t] = j /\ tstate[j] = "Zombie" ~> pending_lock[t] = NULL \/ tstate[t] = "Zombie"

\* The lists serve the threads as ThreadQueues says: no step of any opcode or
\* of the scheduler reorders, drops or duplicates the threads of a list.
ImplementsQueues == TQ!Spec
=============================================================================
