---------------------------- MODULE ThreadEngine ----------------------------
(***************************************************************************)
(* The threaded engine (vm_engine.c): the main pthread runs programs in the *)
(* foreground or in the background and ends by deleting the VM, while a     *)
(* pthread of the engine executes cycles as long as there are VM threads.   *)
(* vm_add_thread starts a new pthread whenever the count of VM threads goes *)
(* from zero to one; the last thread's death ends it.                       *)
(*                                                                         *)
(* The client lock does not exclude the pthread in e->thread, so the steps  *)
(* of vm_add_thread and vm_kill_thread interleave; each list operation is   *)
(* one step.  Which VM thread a cycle serves is any one that can run (see   *)
(* Threads), and an opcode ends its thread, starts another one or compiles, *)
(* which runs a program in the foreground.  Two engine pthreads in a cycle  *)
(* at once corrupt the VM: behaviours end there.                            *)
(***************************************************************************)
EXTENDS Integers, FiniteSets

CONSTANTS
    Main,    \* the pthread of the client
    Engines, \* the pthreads th_init may start, in the order 1, 2, ...
    MaxRuns, \* bound: how many VM threads are added
    None     \* no pthread, no VM thread

ASSUME EngineAssumption ==
    /\ MaxRuns \in Nat
    /\ Engines = 1..MaxRuns  \* a pthread is started for an added thread only
    /\ Main \notin Engines /\ None \notin Engines \cup {Main}

VARIABLES
    thread,        \* e->thread
    is_running,    \* e->is_running
    mutex,         \* e->mutex: FALSE when it is free
    fg_mutex,      \* e->fg_mutex: FALSE when it is free
    idle,          \* is the scheduler SchedulerIdle?
    threads_count, \* vm->threads_count
    state,         \* of a VM thread: "none", "adding", "ready" or "zombie"
    sync,          \* _sync of a VM thread: was it added in the foreground?
    pc,            \* where a pthread is
    at,            \* the VM thread a pthread adds or kills, or the pthread it joins
    read,          \* what a pthread has read of threads_count
    overtaken      \* history: did th_init find a former pthread in its loop?

engineVars == <<thread, is_running, mutex, fg_mutex>>
vmVars == <<idle, threads_count, state, sync>>
vars == <<engineVars, vmVars, pc, at, read, overtaken>>

Pthreads == {Main} \cup Engines
Runs == 1..MaxRuns

\* The pthreads that may read or write the lists and threads of the VM.
InCycle == {"exec", "add", "load", "count", "mode", "enlist", "kill", "unload", "uncount", "bury"}
Overlap == Cardinality({p \in Engines : pc[p] \in InCycle}) > 1

Started == {p \in Engines : pc[p] # "none"}
Looping == {p \in Started : pc[p] # "done"}
Live == {t \in Runs : state[t] = "ready"}

Goes(p, where) == pc' = [pc EXCEPT ![p] = where]

-----------------------------------------------------------------------------
(* Locks.  The mutexes have no owner: whoever unlocks one frees it.         *)

\* th_cli_lock, as the first half of a step.
Locks(p) == IF p = thread THEN UNCHANGED mutex ELSE ~mutex /\ mutex' = TRUE

\* th_cli_unlock.
Unlocks(p) == mutex' = (IF p = thread THEN mutex ELSE FALSE)

-----------------------------------------------------------------------------
(* vm_add_thread, in the pthread p *)

Add(p, fg, whence) ==
    /\ pc[p] = whence
    /\ \E t \in Runs :
         /\ state[t] = "none" /\ \A u \in 1..(t - 1) : state[u] # "none"
         /\ state' = [state EXCEPT ![t] = "adding"]
         /\ sync' = [sync EXCEPT ![t] = fg]
         /\ at' = [at EXCEPT ![p] = t]
    /\ Goes(p, "add")
    /\ UNCHANGED <<engineVars, idle, threads_count, read, overtaken>>

AddLocks(p) ==
    /\ pc[p] = "add" /\ Locks(p) /\ Goes(p, "load")
    /\ UNCHANGED <<thread, is_running, fg_mutex, vmVars, at, read, overtaken>>

\* threads_count += 1 is a read and a write.
LoadCount(p) ==
    /\ pc[p] = "load" /\ Goes(p, "count")
    /\ read' = [read EXCEPT ![p] = threads_count]
    /\ UNCHANGED <<engineVars, vmVars, at, overtaken>>

CountUp(p) ==
    /\ pc[p] = "count"
    /\ threads_count' = read[p] + 1
    /\ idle' = (idle /\ read[p] # 1)  \* the second thread sets round robin
    /\ Goes(p, IF read[p] = 0 THEN "mode" ELSE "enlist")
    /\ UNCHANGED <<engineVars, state, sync, at, read, overtaken>>

\* A mutant of Start: the scheduler is left idle.
StartIdle(p) ==
    /\ pc[p] = "mode"
    /\ UNCHANGED idle
    /\ mutex' = FALSE
    /\ \E k \in Engines :
         /\ pc[k] = "none" /\ \A e \in 1..(k - 1) : pc[e] # "none"
         /\ thread' = k
         /\ pc' = [pc EXCEPT ![k] = "start", ![p] = "enlist"]
    /\ overtaken' = (overtaken \/ Looping # {})
    /\ UNCHANGED <<is_running, fg_mutex, threads_count, state, sync, at, read>>

\* The scheduler is woken, and th_init makes the mutex new and starts a pthread.
Start(p) ==
    /\ pc[p] = "mode"
    /\ idle' = FALSE
    /\ mutex' = FALSE
    /\ \E k \in Engines :
         /\ pc[k] = "none" /\ \A e \in 1..(k - 1) : pc[e] # "none"
         /\ thread' = k
         /\ pc' = [pc EXCEPT ![k] = "start", ![p] = "enlist"]
    /\ overtaken' = (overtaken \/ Looping # {})
    /\ UNCHANGED <<is_running, fg_mutex, threads_count, state, sync, at, read>>

\* thread_set_state: th_fg_start_cb locks the foreground mutex, the thread is
\* ready.
Enlist(p) ==
    /\ pc[p] = "enlist"
    /\ IF sync[at[p]] THEN ~fg_mutex /\ fg_mutex' = TRUE ELSE UNCHANGED fg_mutex
    /\ state' = [state EXCEPT ![at[p]] = "ready"]
    /\ Goes(p, "added")
    /\ UNCHANGED <<thread, is_running, mutex, idle, threads_count, sync, at, read, overtaken>>

Home(p) == IF p = Main THEN "client" ELSE "end"

AddUnlocks(p) ==
    /\ pc[p] = "added" /\ Unlocks(p)
    /\ Goes(p, IF sync[at[p]] THEN "poll" ELSE Home(p))
    /\ UNCHANGED <<thread, is_running, fg_mutex, vmVars, at, read, overtaken>>

-----------------------------------------------------------------------------
(* th_run_fg, after vm_add_thread *)

\* The loop goes on until the foreground mutex is locked by somebody else.
Poll(p) ==
    /\ pc[p] = "poll" /\ fg_mutex /\ Goes(p, "wait")
    /\ UNCHANGED <<engineVars, vmVars, at, read, overtaken>>

Return(p) ==
    /\ pc[p] = "wait" /\ ~fg_mutex /\ Goes(p, Home(p))
    /\ UNCHANGED <<engineVars, vmVars, at, read, overtaken>>

-----------------------------------------------------------------------------
(* th_th_run, with vm_schedule_cycle *)

Begin(p) ==
    /\ pc[p] = "start" /\ is_running' = TRUE /\ Goes(p, "loop")
    /\ UNCHANGED <<thread, mutex, fg_mutex, vmVars, at, read, overtaken>>

Loop(p) ==
    /\ pc[p] = "loop"
    /\ Goes(p, IF is_running /\ ~idle THEN "cycle" ELSE "done")
    /\ UNCHANGED <<engineVars, vmVars, at, read, overtaken>>

Cycle(p) ==
    /\ pc[p] = "cycle" /\ Locks(p) /\ Goes(p, "exec")
    /\ UNCHANGED <<thread, is_running, fg_mutex, vmVars, at, read, overtaken>>

\* The cycle finds no thread, or one whose opcode is its last ...
Exec(p) ==
    /\ pc[p] = "exec"
    /\ \/ (idle \/ Live = {}) /\ Goes(p, "end") /\ UNCHANGED at
       \/ ~idle /\ \E t \in Live : at' = [at EXCEPT ![p] = t] /\ Goes(p, "kill")
    /\ UNCHANGED <<engineVars, vmVars, read, overtaken>>

\* ... or whose opcode starts a thread, or compiles.
Spawn(p) == ~idle /\ Live # {} /\ \E fg \in BOOLEAN : Add(p, fg, "exec")

CycleEnds(p) ==
    /\ pc[p] = "end" /\ Unlocks(p) /\ Goes(p, "loop")
    /\ UNCHANGED <<thread, is_running, fg_mutex, vmVars, at, read, overtaken>>

-----------------------------------------------------------------------------
(* vm_kill_thread *)

KillLocks(p) ==
    /\ pc[p] = "kill" /\ Locks(p) /\ Goes(p, "unload")
    /\ UNCHANGED <<thread, is_running, fg_mutex, vmVars, at, read, overtaken>>

UnloadCount(p) ==
    /\ pc[p] = "unload" /\ Goes(p, "uncount")
    /\ read' = [read EXCEPT ![p] = threads_count]
    /\ UNCHANGED <<engineVars, vmVars, at, overtaken>>

CountDown(p) ==
    /\ pc[p] = "uncount" /\ threads_count' = read[p] - 1 /\ Goes(p, "bury")
    /\ UNCHANGED <<engineVars, idle, state, sync, at, read, overtaken>>

\* Two mutants of Bury: the foreground mutex is unlocked for every thread, or
\* for none.
BuryUnlocks(p) ==
    /\ pc[p] = "bury"
    /\ state' = [state EXCEPT ![at[p]] = "zombie"]
    /\ fg_mutex' = FALSE
    /\ Goes(p, "test")
    /\ UNCHANGED <<thread, is_running, mutex, idle, threads_count, sync, at, read, overtaken>>

BuryKeepsLock(p) ==
    /\ pc[p] = "bury"
    /\ state' = [state EXCEPT ![at[p]] = "zombie"]
    /\ UNCHANGED fg_mutex
    /\ Goes(p, "test")
    /\ UNCHANGED <<thread, is_running, mutex, idle, threads_count, sync, at, read, overtaken>>

\* thread_set_state: the thread is a zombie, th_fg_done_cb unlocks.
Bury(p) ==
    /\ pc[p] = "bury"
    /\ state' = [state EXCEPT ![at[p]] = "zombie"]
    /\ fg_mutex' = (fg_mutex /\ ~sync[at[p]])
    /\ Goes(p, "test")
    /\ UNCHANGED <<thread, is_running, mutex, idle, threads_count, sync, at, read, overtaken>>

\* With one thread left the lock is given back, with more it is not.
TestCount(p) ==
    /\ pc[p] = "test"
    /\ IF threads_count = 1 THEN idle' = FALSE /\ Unlocks(p) ELSE UNCHANGED <<idle, mutex>>
    /\ Goes(p, IF threads_count = 0 THEN "idle" ELSE "end")
    /\ UNCHANGED <<thread, is_running, fg_mutex, threads_count, state, sync, at, read, overtaken>>

Idle(p) ==
    /\ pc[p] = "idle" /\ idle' = TRUE /\ Unlocks(p) /\ Goes(p, "deinit")
    /\ UNCHANGED <<thread, is_running, fg_mutex, threads_count, state, sync, at, read, overtaken>>

\* th_deinit stops the engine; another pthread than that of the engine joins
\* it first.
Deinit(p) ==
    /\ pc[p] = "deinit"
    /\ is_running' = (is_running /\ thread = None)
    /\ at' = [at EXCEPT ![p] = thread]
    /\ Goes(p, IF thread \in {None, p} THEN "release" ELSE "join")
    /\ UNCHANGED <<thread, mutex, fg_mutex, vmVars, read, overtaken>>

Release(p) ==
    /\ pc[p] = "release" /\ mutex' = FALSE /\ Goes(p, "end")
    /\ UNCHANGED <<thread, is_running, fg_mutex, vmVars, at, read, overtaken>>

\* pthread_join, in th_deinit and in th_kill.
Join(p) ==
    /\ pc[p] = "join" /\ pc[at[p]] = "done"
    /\ thread' = None
    /\ Goes(p, IF p = Main THEN "deleted" ELSE "release")
    /\ UNCHANGED <<is_running, mutex, fg_mutex, vmVars, at, read, overtaken>>

-----------------------------------------------------------------------------
(* The client *)

\* The first program is run in the background: this is what sets the engine.
Run == \E fg \in BOOLEAN : (fg => Started # {}) /\ Add(Main, fg, "client")

\* vm_del: th_kill stops the engine and joins its pthread; there must be one.
Kill ==
    /\ pc[Main] = "client" /\ Started # {}
    /\ is_running' = FALSE
    /\ at' = [at EXCEPT ![Main] = thread]
    /\ Goes(Main, IF thread = None THEN "crashed" ELSE "join")
    /\ UNCHANGED <<thread, mutex, fg_mutex, vmVars, read, overtaken>>

-----------------------------------------------------------------------------
(* The behaviours *)

Init ==
    /\ thread = None /\ is_running = FALSE /\ mutex = FALSE /\ fg_mutex = FALSE
    /\ idle = TRUE /\ threads_count = 0
    /\ state = [t \in Runs |-> "none"] /\ sync = [t \in Runs |-> FALSE]
    /\ pc = [p \in Pthreads |-> IF p = Main THEN "client" ELSE "none"]
    /\ at = [p \in Pthreads |-> None] /\ read = [p \in Pthreads |-> 0]
    /\ overtaken = FALSE

\* A pthread in a call of the VM, or an engine pthread in its loop.
Step(p) ==
    /\ ~Overlap /\ pc[Main] \notin {"deleted", "crashed"}
    /\ \/ AddLocks(p) \/ LoadCount(p) \/ CountUp(p) \/ Start(p) \/ Enlist(p) \/ AddUnlocks(p)
       \/ Poll(p) \/ Return(p)
       \/ Begin(p) \/ Loop(p) \/ Cycle(p) \/ Exec(p) \/ CycleEnds(p)
       \/ KillLocks(p) \/ UnloadCount(p) \/ CountDown(p) \/ Bury(p) \/ TestCount(p)
       \/ Idle(p) \/ Deinit(p) \/ Release(p) \/ Join(p)

Next ==
    \/ \E p \in Pthreads : Step(p)
    \/ /\ ~Overlap /\ pc[Main] \notin {"deleted", "crashed"}
       /\ (\E p \in Engines : Spawn(p)) \/ Run \/ Kill

Spec == Init /\ [][Next]_vars

\* A pthread that can go on does so; it also gets a mutex that is free again
\* and again.
FairSpec == Spec /\ \A p \in Pthreads : WF_vars(Step(p)) /\ SF_vars(Step(p) /\ pc[p] \in {"add", "cycle", "enlist"})

-----------------------------------------------------------------------------
(* Properties *)

\* th_run_fg returns only once the thread it added is dead (vm.h, line 200:
\* "and join the thread"), however many programs run in the background, and
\* whatever the engine does meanwhile.
FgJoins == [][\A p \in Pthreads : pc[p] = "wait" /\ pc'[p] # "wait" => state[at[p]] = "zombie"]_vars

\* What spoils the engine: a pthread overtaken by its successor, two of them in
\* a cycle, a lost update of threads_count, a foreground run in the engine's own
\* pthread.
Miscounted ==
    threads_count # Cardinality(Live) + Cardinality({p \in Pthreads : pc[p] \in {"mode", "enlist"}})
                        - Cardinality({p \in Pthreads : pc[p] = "bury"})
Nested == \E e \in Engines :
    pc[e] \in {"add", "load", "count", "mode", "enlist", "added", "poll", "wait"} /\ sync[at[e]]
Spoiled == overtaken \/ Overlap \/ Miscounted \/ Nested

\* Every call of the client returns in an engine that is not spoiled: a run in
\* the background, a run in the foreground and vm_del; only th_run_fg loops for
\* ever when its program is over before the first poll.
CallsReturn ==
    pc[Main] \notin {"client", "deleted"} ~>
        \/ pc[Main] \in {"client", "deleted"} \/ Spoiled
        \/ pc[Main] = "poll" /\ state[at[Main]] = "zombie"

\* vm.h, line 200: a foreground run joins its thread; it does not return when
\* the program is over before th_run_fg first tries the mutex.
ForegroundReturns == pc[Main] = "poll" ~> pc[Main] = "client" \/ Spoiled

\* Every program that was added runs to its end, unless the engine is spoiled or
\* deleted before: in particular the scheduler does not stay idle, and the
\* engine does not stop, while there is one.
ProgramsEnd ==
    \A t \in Runs : state[t] = "ready" ~> (state[t] = "zombie" \/ Spoiled \/ pc[Main] = "deleted")
=============================================================================
