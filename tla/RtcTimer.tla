------------------------------ MODULE RtcTimer ------------------------------
(***************************************************************************)
(* The RTC extension (libRTC.c, timer.c): two pthreads share a priority     *)
(* queue of tasks and a FIFO.  The engine's pthread executes the opcodes,   *)
(* which put tasks into the queue and take due functions from the FIFO; the *)
(* timer's pthread reads the clock and runs the tasks that are due.  A      *)
(* mutex guards the queue, but the macros LOCK and UNLOCK skip it while the *)
(* global flag __selfcall is set, whoever set it.                           *)
(*                                                                         *)
(* The steps between which the other pthread may run are the actions.  The  *)
(* queue is a set of dated tasks, from which the earliest comes out first,  *)
(* as CalendarQueue implements it.  Two calls in the queue at once corrupt  *)
(* it: behaviours end there.                                                *)
(***************************************************************************)
EXTENDS Integers, Sequences, FiniteSets

CONSTANTS
    Sleepers,  \* VM threads that call RTC_wait
    Driver,    \* the VM thread that runs the driver code's loop
    Engine,    \* the pthread of the engine, as owner of the mutex
    Timer,     \* the pthread of the timer, as owner of the mutex
    None,      \* nobody, and no task
    FifoSize,  \* TASK_FIFO_SZ
    MaxDate,   \* bound: the clock stops there
    MaxTasks   \* bound: how many tasks are scheduled

ASSUME RtcAssumption ==
    /\ Driver \notin Sleepers
    /\ Engine # Timer /\ None \notin {Engine, Timer}
    /\ FifoSize \in Nat \ {0}
    /\ MaxDate \in Nat /\ MaxTasks \in Nat

VARIABLES
    mtx,       \* owner of the mutex
    selfcall,  \* __selfcall
    running,   \* timer_is_running
    pie,       \* does the clock tick?
    date,      \* timer_date
    queue,     \* tasks
    fifo,      \* fifo_f and fifo_d
    rd, wr,    \* ends of the FIFO
    blocker,   \* the threads in rtc_nextTask
    blocked,   \* the threads in state Blocked
    tm,        \* the timer's pthread: place in timer_routine and task at hand
    vm,        \* the engine's pthread: place in an opcode and its operands
    sent,      \* history: tasks that were created
    woken,     \* history: numbers of the tasks that resumed a thread
    written,   \* history: tasks that were written into the FIFO, in order
    taken,     \* history: tasks that the driver took, in order
    skipped,   \* history: did the engine skip a LOCK or an UNLOCK?
    spurious,  \* history: did the wait of RTC_term return without a signal?
    overrun    \* history: did the FIFO take a task it had no room for?

shared == <<mtx, selfcall, running, pie, date>>
threads == <<blocker, blocked>>
ring == <<fifo, rd, wr>>
history == <<sent, woken, written, taken, skipped, spurious, overrun>>
vars == <<shared, queue, ring, threads, tm, vm, history>>

Threads == Sleepers \cup {Driver}

\* A task resumes a thread, or hands a function to the driver.
Tasks == [no : 0..MaxTasks, date : 0..MaxDate, for : Threads]

Earlier(e, f) == e.date < f.date \/ (e.date = f.date /\ e.no <= f.no)
IsFirst(e) == e \in queue /\ \A f \in queue : Earlier(e, f)

NextSlot(i) == (i + 1) % FifoSize

Idle == [pc |-> "idle", op |-> "none", nested |-> FALSE, saved |-> FALSE, task |-> None]

\* Mutant of Due: a task is late before it is due.
Overdue(task) == task.date < date

Due(task) == task.date <= date

Go(pc) == vm' = IF pc = "idle" THEN Idle ELSE [vm EXCEPT !.pc = pc]
Step(pc) == tm' = [tm EXCEPT !.pc = pc]

-----------------------------------------------------------------------------
(* The engine's pthread: RTC_init *)

\* timer_init waits for the timer, but tests the flag without the mutex.
InitTest ==
    /\ vm.pc = "initTest"
    /\ Go(IF running = 0 THEN "initLock" ELSE "idle")
    /\ UNCHANGED <<shared, queue, ring, threads, tm, history>>

InitLock ==
    /\ vm.pc = "initLock"
    /\ mtx = None
    /\ mtx' = Engine
    /\ Go("condWait")
    /\ UNCHANGED <<selfcall, running, pie, date, queue, ring, threads, tm, history>>

\* pthread_cond_wait; timer_terminate calls it without holding the mutex,
\* which a default mutex does not notice.
CondWait ==
    /\ vm.pc = "condWait"
    /\ mtx' = None
    /\ Go("waiting")
    /\ UNCHANGED <<selfcall, running, pie, date, queue, ring, threads, tm, history>>

\* POSIX lets a wait return although nobody signalled: timer_init tests its
\* flag again, timer_terminate does not.
WakeUp ==
    /\ vm.pc = "waiting"
    /\ Go("relock")
    /\ spurious' = (spurious \/ vm.op = "term")
    /\ UNCHANGED <<shared, queue, ring, threads, tm, sent, woken, written, taken, skipped, overrun>>

Relock ==
    /\ vm.pc = "relock"
    /\ mtx = None
    /\ mtx' = Engine
    /\ Go(IF vm.op = "term" THEN "destroy" ELSE "initUnlock")
    /\ UNCHANGED <<selfcall, running, pie, date, queue, ring, threads, tm, history>>

InitUnlock ==
    /\ vm.pc = "initUnlock"
    /\ mtx' = None
    /\ Go("initTest")
    /\ UNCHANGED <<selfcall, running, pie, date, queue, ring, threads, tm, history>>

-----------------------------------------------------------------------------
(* The engine's pthread: opcodes that enter timer.c *)

\* timer_set_resolution saves __selfcall before it locks.
Begin(op, task) ==
    /\ vm.pc = "idle"
    /\ vm' = [pc |-> "test", op |-> op, nested |-> FALSE, saved |-> op = "setRes" /\ selfcall, task |-> task]
    /\ UNCHANGED <<shared, queue, ring, threads, tm, woken, written, taken, skipped, spurious, overrun>>

Create(op, d, t) ==
    /\ sent < MaxTasks
    /\ sent' = sent + 1
    /\ Begin(op, [no |-> sent + 1, date |-> d, for |-> t])

\* RTC_wait by a thread that can run, RTC_sched
Wait(d, t) == t \notin blocked /\ Create("wait", d, t)
Sched(d) == Create("sched", d, Driver)

\* RTC_setBeat, RTC_setTempo, RTC_setRes
SetBeat(d) == UNCHANGED sent /\ Begin("setBeat", [no |-> 0, date |-> d, for |-> Driver])
SetTempo == UNCHANGED sent /\ Begin("setTempo", None)
SetRes == UNCHANGED sent /\ Begin("setRes", None)

\* LOCK
LockTest ==
    /\ vm.pc = "test"
    /\ Go(IF selfcall THEN "inside" ELSE "acquire")
    /\ skipped' = (skipped \/ (selfcall /\ ~vm.nested))
    /\ UNCHANGED <<shared, queue, ring, threads, tm, sent, woken, written, taken, spurious, overrun>>

Acquire ==
    /\ vm.pc = "acquire"
    /\ mtx = None
    /\ mtx' = Engine
    /\ Go("inside")
    /\ UNCHANGED <<selfcall, running, pie, date, queue, ring, threads, tm, history>>

\* Between LOCK and UNLOCK.  timer_set_resolution sets __selfcall and calls
\* timer_set_tempo, which locks again.
Inside ==
    /\ vm.pc = "inside"
    /\ vm' = CASE vm.op \in {"wait", "sched"} -> [vm EXCEPT !.pc = "inQueue"]
               [] vm.op = "setRes" /\ ~vm.nested -> [vm EXCEPT !.pc = "test", !.nested = TRUE]
               [] OTHER -> [vm EXCEPT !.pc = "untest"]
    /\ selfcall' = (selfcall \/ (vm.op = "setRes" /\ ~vm.nested))
    /\ date' = IF vm.op = "setBeat" THEN vm.task.date ELSE date
    /\ UNCHANGED <<mtx, running, pie, queue, ring, threads, tm, history>>

\* The end of pqEnqueue
Enqueued ==
    /\ vm.pc = "inQueue"
    /\ queue' = queue \cup {vm.task}
    /\ Go("untest")
    /\ UNCHANGED <<shared, ring, threads, tm, history>>

AfterUnlock == IF vm.nested THEN "restore" ELSE IF vm.op = "wait" THEN "block" ELSE "idle"

\* UNLOCK
UnlockTest ==
    /\ vm.pc = "untest"
    /\ Go(IF selfcall THEN AfterUnlock ELSE "release")
    /\ skipped' = (skipped \/ (selfcall /\ ~vm.nested))
    /\ UNCHANGED <<shared, queue, ring, threads, tm, sent, woken, written, taken, spurious, overrun>>

\* A default mutex does not notice that another pthread owns it.
Release ==
    /\ vm.pc = "release"
    /\ mtx' = None
    /\ Go(AfterUnlock)
    /\ UNCHANGED <<selfcall, running, pie, date, queue, ring, threads, tm, history>>

\* timer_set_resolution after its call of timer_set_tempo
Restore ==
    /\ vm.pc = "restore"
    /\ selfcall' = vm.saved
    /\ vm' = [vm EXCEPT !.pc = "untest", !.nested = FALSE]
    /\ UNCHANGED <<mtx, running, pie, date, queue, ring, threads, tm, history>>

\* thread_set_state(..., ThreadBlocked), the last act of RTC_wait and of
\* blocker_suspend
Block ==
    /\ vm.pc = "block"
    /\ blocked' = blocked \cup {IF vm.op = "wait" THEN vm.task.for ELSE Driver}
    /\ Go("idle")
    /\ UNCHANGED <<shared, queue, ring, blocker, tm, history>>

-----------------------------------------------------------------------------
(* The engine's pthread: the other opcodes *)

\* _RTC_nextTask when fifo_rd finds a task; the driver calls it.
Take ==
    /\ vm.pc = "idle" /\ Driver \notin blocked
    /\ rd # wr
    /\ taken' = Append(taken, fifo[rd])
    /\ rd' = NextSlot(rd)
    /\ UNCHANGED <<shared, queue, fifo, wr, threads, tm, vm, sent, woken, written, skipped, spurious, overrun>>

\* _RTC_nextTask when fifo_rd finds none
FindNone ==
    /\ vm.pc = "idle" /\ Driver \notin blocked
    /\ rd = wr
    /\ vm' = [vm EXCEPT !.pc = "push", !.op = "nextTask"]
    /\ UNCHANGED <<shared, queue, ring, threads, tm, history>>

\* The first act of blocker_suspend
Push ==
    /\ vm.pc = "push"
    /\ blocker' = blocker \cup {Driver}
    /\ Go("block")
    /\ UNCHANGED <<shared, queue, ring, blocked, tm, history>>

\* RTC_start, RTC_stop
StartStop ==
    /\ vm.pc = "idle"
    /\ pie' \in BOOLEAN
    /\ UNCHANGED <<mtx, selfcall, running, date, queue, ring, threads, tm, vm, history>>

\* Mutant of Term: RTC_term does not wait for the timer.
TermAtOnce ==
    /\ vm.pc = "idle"
    /\ running' = 0
    /\ pie' = TRUE
    /\ vm' = [vm EXCEPT !.pc = "destroy", !.op = "term"]
    /\ UNCHANGED <<mtx, selfcall, date, queue, ring, threads, tm, history>>

\* RTC_term until it waits for the timer
Term ==
    /\ vm.pc = "idle"
    /\ running' = 0
    /\ pie' = TRUE
    /\ vm' = [vm EXCEPT !.pc = "condWait", !.op = "term"]
    /\ UNCHANGED <<mtx, selfcall, date, queue, ring, threads, tm, history>>

\* RTC_term after that
Destroy ==
    /\ vm.pc = "destroy"
    /\ running' = 0
    /\ queue' = {}
    /\ Go("ended")
    /\ UNCHANGED <<mtx, selfcall, pie, date, ring, threads, tm, history>>

-----------------------------------------------------------------------------
(* The timer's pthread: timer_routine *)

OpenFails ==
    /\ tm.pc = "open"
    /\ running' = -1
    /\ Step("done")
    /\ UNCHANGED <<mtx, selfcall, pie, date, queue, ring, threads, vm, history>>

\* The clock is set up before the engine can call anything else.
Open ==
    /\ tm.pc = "open"
    /\ pie' = TRUE
    /\ Step("upLock")
    /\ UNCHANGED <<mtx, selfcall, running, date, queue, ring, threads, vm, history>>

AfterLock == CASE tm.pc = "upLock" -> "up" [] tm.pc = "lock" -> "tick" [] tm.pc = "closeLock" -> "close"

\* Mutant of Lock: the timer does not take the mutex.
LockNot ==
    /\ tm.pc \in {"upLock", "lock", "closeLock"}
    /\ Step(AfterLock)
    /\ UNCHANGED <<mtx, selfcall, running, pie, date, queue, ring, threads, vm, history>>

Lock ==
    /\ tm.pc \in {"upLock", "lock", "closeLock"}
    /\ mtx = None
    /\ mtx' = Timer
    /\ Step(AfterLock)
    /\ UNCHANGED <<selfcall, running, pie, date, queue, ring, threads, vm, history>>

Up ==
    /\ tm.pc = "up"
    /\ running' = 1
    /\ Step("signal")
    /\ UNCHANGED <<mtx, selfcall, pie, date, queue, ring, threads, vm, history>>

\* pthread_cond_signal, the first and the last; it is lost when nobody waits.
Signal ==
    /\ tm.pc \in {"signal", "closeSignal"}
    /\ vm' = IF vm.pc = "waiting" THEN [vm EXCEPT !.pc = "relock"] ELSE vm
    /\ Step(IF tm.pc = "signal" THEN "unlock" ELSE "unlockEnd")
    /\ UNCHANGED <<shared, queue, ring, threads, history>>

Unlock ==
    /\ tm.pc \in {"unlock", "unlockEnd"}
    /\ mtx' = None
    /\ Step(IF tm.pc = "unlock" THEN "while" ELSE "done")
    /\ UNCHANGED <<selfcall, running, pie, date, queue, ring, threads, vm, history>>

While ==
    /\ tm.pc = "while"
    /\ Step(IF running # 0 THEN "read" ELSE "closeLock")
    /\ UNCHANGED <<shared, queue, ring, threads, vm, history>>

\* The read returns when the clock ticks.
Read ==
    /\ tm.pc = "read"
    /\ pie
    /\ Step("lock")
    /\ UNCHANGED <<shared, queue, ring, threads, vm, history>>

Tick ==
    /\ tm.pc = "tick"
    /\ date' = IF date < MaxDate THEN date + 1 ELSE date
    /\ selfcall' = TRUE
    /\ Step("loop")
    /\ UNCHANGED <<mtx, running, pie, queue, ring, threads, vm, history>>

Loop ==
    /\ tm.pc = "loop"
    /\ Step(IF running # 0 THEN "inQueue" ELSE "clear")
    /\ UNCHANGED <<shared, queue, ring, threads, vm, history>>

\* Mutant of Dequeued: the task is read and stays in the queue.
Peeked(task) ==
    /\ tm.pc = "inQueue"
    /\ IsFirst(task) /\ Due(task)
    /\ tm' = [pc |-> "run", task |-> task]
    /\ UNCHANGED <<shared, queue, ring, threads, vm, history>>

\* The end of pqDequeue
Dequeued(task) ==
    /\ tm.pc = "inQueue"
    /\ IsFirst(task) /\ Due(task)
    /\ queue' = queue \ {task}
    /\ tm' = [pc |-> "run", task |-> task]
    /\ UNCHANGED <<shared, ring, threads, vm, history>>

NothingDue ==
    /\ tm.pc = "inQueue"
    /\ \A task \in queue : ~Due(task)
    /\ Step("clear")
    /\ UNCHANGED <<shared, queue, ring, threads, vm, history>>

\* resume_thread
Wake ==
    /\ tm.pc = "run" /\ tm.task.for \in Sleepers
    /\ blocked' = blocked \ {tm.task.for}
    /\ woken' = woken \cup {tm.task.no}
    /\ tm' = [pc |-> "loop", task |-> None]
    /\ UNCHANGED <<shared, queue, ring, blocker, vm, sent, written, taken, skipped, spurious, overrun>>

\* Mutant of Write: the task is written behind the write position.
WriteAhead ==
    /\ tm.pc = "run" /\ tm.task.for = Driver
    /\ fifo' = [fifo EXCEPT ![NextSlot(wr)] = tm.task]
    /\ written' = Append(written, tm.task)
    /\ tm' = [pc |-> "resume", task |-> None]
    /\ UNCHANGED <<shared, queue, rd, wr, threads, vm, sent, woken, taken, skipped, spurious, overrun>>

\* fifo_wr: the task is written ...
Write ==
    /\ tm.pc = "run" /\ tm.task.for = Driver
    /\ fifo' = [fifo EXCEPT ![wr] = tm.task]
    /\ written' = Append(written, tm.task)
    /\ tm' = [pc |-> "resume", task |-> None]
    /\ UNCHANGED <<shared, queue, rd, wr, threads, vm, sent, woken, taken, skipped, spurious, overrun>>

\* ... the driver is resumed ...
Resume ==
    /\ tm.pc = "resume"
    /\ blocked' = blocked \ blocker
    /\ blocker' = {}
    /\ Step("advance")
    /\ UNCHANGED <<shared, queue, ring, vm, history>>

\* ... and only then the task is there to be read.
Advance ==
    /\ tm.pc = "advance"
    /\ wr' = NextSlot(wr)
    /\ overrun' = (overrun \/ NextSlot(wr) = rd)
    /\ Step("loop")
    /\ UNCHANGED <<shared, queue, fifo, rd, threads, vm, sent, woken, written, taken, skipped, spurious>>

Clear ==
    /\ tm.pc = "clear"
    /\ selfcall' = FALSE
    /\ Step("unlock")
    /\ UNCHANGED <<mtx, running, pie, date, queue, ring, threads, vm, history>>

Close ==
    /\ tm.pc = "close"
    /\ running' = -1
    /\ Step("closeSignal")
    /\ UNCHANGED <<mtx, selfcall, pie, date, queue, ring, threads, vm, history>>

-----------------------------------------------------------------------------

\* Two calls are in the queue at once.
Raced == tm.pc = "inQueue" /\ vm.pc \in {"inQueue", "destroy"}

Init ==
    /\ mtx = None /\ selfcall = FALSE /\ running = 0 /\ pie = FALSE /\ date = 0
    /\ queue = {}
    /\ fifo = [i \in 0..(FifoSize - 1) |-> None] /\ rd = 0 /\ wr = 0
    /\ blocker = {} /\ blocked = {}
    /\ tm = [pc |-> "open", task |-> None]
    /\ vm = [Idle EXCEPT !.pc = "initTest", !.op = "init"]
    /\ sent = 0 /\ woken = {} /\ written = <<>> /\ taken = <<>>
    /\ skipped = FALSE /\ spurious = FALSE /\ overrun = FALSE

\* What the engine's pthread does once it has begun
Continue ==
    \/ InitTest \/ InitLock \/ CondWait \/ Relock \/ InitUnlock
    \/ LockTest \/ Acquire \/ Inside \/ Enqueued \/ UnlockTest \/ Release \/ Restore
    \/ Push \/ Block \/ Destroy

Opcode ==
    \/ \E d \in 0..MaxDate : Sched(d) \/ SetBeat(d) \/ \E t \in Sleepers : Wait(d, t)
    \/ SetTempo \/ SetRes \/ StartStop \/ Term
    \/ Take \/ FindNone

Routine ==
    \/ Open \/ Lock \/ Up \/ Signal \/ Unlock \/ While \/ Read \/ Tick \/ Loop
    \/ \E task \in queue : Dequeued(task)
    \/ NothingDue \/ Wake \/ Write \/ Resume \/ Advance \/ Clear \/ Close

Next == ~Raced /\ (Continue \/ Opcode \/ Routine \/ OpenFails \/ WakeUp)

Spec == Init /\ [][Next]_vars

\* The operating system runs both pthreads; the mutex is granted in the end.
Live == WF_vars(~Raced /\ Continue) /\ WF_vars(~Raced /\ Routine) /\ SF_vars(Lock) /\ SF_vars(Acquire)
FairSpec == Spec /\ Live

-----------------------------------------------------------------------------
(* Properties *)

TypeOK ==
    /\ mtx \in {None, Engine, Timer}
    /\ {selfcall, pie, skipped, spurious, overrun} \subseteq BOOLEAN
    /\ running \in {-1, 0, 1}
    /\ date \in 0..MaxDate
    /\ queue \in SUBSET Tasks
    /\ fifo \in [0..(FifoSize - 1) -> Tasks \cup {None}]
    /\ {rd, wr} \subseteq 0..(FifoSize - 1)
    /\ blocker \subseteq {Driver} /\ blocked \subseteq Threads

Numbers(tasks) == {task.no : task \in tasks}
Listed(tasks) == {tasks[i].no : i \in DOMAIN tasks}

\* The task on its way into the queue, and the one on its way out.
Entering ==
    IF vm.pc \in {"test", "acquire", "inside", "inQueue"} /\ vm.op \in {"wait", "sched"}
    THEN {vm.task.no} ELSE {}
Leaving == IF tm.pc = "run" THEN {tm.task.no} ELSE {}

\* Until RTC_term, every task that was scheduled is in one place and in only
\* one: with the opcode that schedules it, in the queue, at the timer's hand,
\* resumed, or written for the driver.
Accounted ==
    vm.pc # "ended" =>
      LET places == <<Entering, Numbers(queue), Leaving, woken, Listed(written)>>
      IN  /\ UNION {places[i] : i \in 1..5} = 1..sent
          /\ \A i, j \in 1..5 : i # j => places[i] \cap places[j] = {}

\* The mutex does its work as long as the engine never meets __selfcall set
\* by the timer, and the wait of RTC_term does not return by itself: no two
\* calls are in the queue at once.
ExclusiveUnlessSkipped == Raced => skipped \/ spurious

\* The driver takes the tasks in the order in which they became due, each
\* once and whole, although nothing guards the FIFO; unless TASK_FIFO_SZ
\* tasks wait at once.
TakenInOrder ==
    ~overrun => Len(taken) <= Len(written) /\ taken = SubSeq(written, 1, Len(taken))

\* A turn of the loop of timer_routine
Turn == {"read", "lock", "tick", "loop", "inQueue", "run", "resume", "advance", "clear"}

\* RTC_term destroys the queue after the timer's last turn, unless its wait
\* returned by itself: also when the signal that releases it is the late one
\* of RTC_init's start, which the flag, read without the mutex, let overtake.
DestroyedLast == ~spurious /\ vm.pc \in {"destroy", "ended"} => tm.pc \notin Turn

\* "to be sure the flag will be read" (timer.c:249): RTC_term waits until the
\* timer has seen the end.  It does not, see README.md.
ClosedFirst ==
    ~spurious /\ vm.pc \in {"destroy", "ended"} => tm.pc \in {"closeSignal", "unlockEnd", "done"}

\* A due task is taken out of the queue while the clock ticks, unless the
\* engine met __selfcall, or RTC_term ends it all.
DueTasksRun ==
    \A n \in 1..MaxTasks :
      (\E task \in queue : task.no = n /\ task.date <= date)
        ~> (n \notin Numbers(queue) \/ skipped \/ ~pie \/ running # 1
            \/ \E task \in queue : task.no = n /\ task.date > date)

\* "suspend thread and wake-up at given timestamp" (RTC.txt:34): a thread
\* that RTC_wait suspended has its wake-up still before it.
SleeperHasTask ==
    vm.pc = "idle" =>
      \A t \in Sleepers \cap blocked :
        \/ \E task \in queue : task.for = t
        \/ tm.pc = "run" /\ tm.task.for = t
=============================================================================
