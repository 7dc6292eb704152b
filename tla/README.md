# Verification of tinyaml

tinyaml (`src/`) is a virtual machine in C: an assembler turns a program into
segments of two-word instructions, and the VM interprets them with its own
threads, mutexes, exceptions, reference-counted objects and loadable
extensions. This directory holds TLA+ modules about the parts whose behaviour
over many steps is hard to see in the code or to reach with its tests, the TLC
configurations that check them on small instances, and proofs, checked by
TLAPS, that the most important facts hold for instances of every size.

C files are named here relative to the repository (`src/vm/thread.c`).

## The system

| Component | State | Operations | Where |
|---|---|---|---|
| Threads, mutexes, blockers | `t->state`, `prio`, `pending_lock`, the embedded node `sched_data`; `m->owner`, `count`, `pending`; the stack of a `vm_blocker_t` | `thread_set_state`, `mutex_lock`, `mutex_unlock`, `blocker_suspend`, `blocker_resume`, `thread_deinit` | `src/vm/thread.c`, `include/list.h` |
| Scheduler | `ready_threads`, `running_threads`, `zombie_threads`, `current_thread`, `remaining`, `threads_count`, `scheduler`, `timeslice` | `vm_add_thread`, `vm_kill_thread`, `_sched_rr`, `vm_schedule_cycle` | `src/vm/vm.c` |
| Thread opcodes | operands on the thread's data stack, IP | `newThread`, `lockMtx`, `unlockMtx`, `joinThread`, `killThread`, `yield`, `crit_begin`, `crit_end`, `_set_timeslice` | `src/ops/bml_vm.c` |
| Interpreter and calls | IP, `jmp_seg`/`jmp_ofs`, call, closure, catch, locals stacks | `vm_exec_cycle`, `call`, `ret`, `jmp`, `instCatcher`, `throw` | `src/vm/vm.c`, `src/ops/bml_vm.c` |
| Engines | pthread mutexes, `is_running`, foreground thread | `e_run` (synchronous), `th_run_fg`, `th_run_bg`, `th_kill`, client and VM locks | `src/vm/vm_engine.c` |
| Managed objects | `ref_count`, `gc_pending` | `vm_obj_ref`, `vm_obj_deref`, `vm_collect`, one finalization per cycle | `src/vm/objects.c`, `include/object.h` |
| Programs | code, data and string segments, labels, environment | read/write of bytecode, symbol resolution | `src/vm/program.c`, `text_seg.c` |
| Assembler | opcode chain with labels | two passes: offsets, then code | `src/compiler/*.c`, `src/ops/compiler.c` |
| Opcode dictionary | numbers ↔ implementations | add, resolve, (un)serialize | `src/compiler/opcode_dict.c` |
| Containers | growable arrays, stacks, lists, hash tables | push, pop, peek, resize | `src/containers/*.c` |
| Message queue extension | ring of 4096 messages, readers, a blocker | open, read, write, close | `extension/MessageQueue/message.c` |
| RTC extension | timer thread, sorted timers, task FIFO | `RTC_wait`, `RTC_nextTask`, timers | `extension/RTC/` |
| IO extension, command line, debugger, grammar, language layers | – | – | `extension/IO`, `src/tinyaml*.c`, `src/ml_core_gram.c`, `ml/` |

How they meet: the engine calls `vm_schedule_cycle` in a loop; the scheduler
chooses a thread and the interpreter executes one opcode of it; opcodes call
the mutex and blocker functions, which call `thread_set_state`, which moves
the thread between the lists that the scheduler reads at the next cycle.
Extensions make threads wait with blockers. A nested `e_run` (a callback from
C into VM code) runs the same loop from inside an opcode. Dead threads stay in
`zombie_threads` until their reference count drops and a later cycle
finalizes them.

What is hard: every interleaving of the VM's threads at opcode granularity;
wake-ups that release many threads which compete again; one list node per
thread shared by all the lists; the priority rules at four places that must
agree; threads that die at any moment; with the pthread engine, a client
thread that adds, waits and kills at the same time; timers that answer from
another pthread; nested loops and `longjmp`. `PROJECT.json` lists the hazards
line by line.

What makes each component correct: threads and mutexes — a thread is in the
list of its state and in no other, no wake-up is lost, only owners release;
scheduler — no thread that can run is starved or overtaken against its
priority, the VM stops exactly when no thread is left; interpreter — call and
catch stacks unwind together; engines — a client never waits for something
that already happened; objects — nothing is freed while referenced or queued
twice; assembler and dictionary — labels and numbers mean the same when
written and when read; message queue — a reader sees the messages in order and
is woken for each; RTC — every scheduled wake-up arrives.

## Modules

| Module | What it is |
|---|---|
| `ThreadQueues` | abstract specification of the thread lists: who is served before whom |
| `Threads`, `MCThreads`, `ThreadsProofs` | threads, mutexes, blockers and scheduler under the synchronous engine, lists as sequences |
| `ThreadLinks`, `MCThreadLinks`, `ThreadLinksProofs` | the same lists node by node (`next`, `prev`, `head`, `tail`), with the list macros and the collection of dead threads |
| `ThreadEngine`, `MCThreadEngine`, `WaitingProofs` | the pthread engine: the client's pthread, the engine's pthreads, their two mutexes |
| `MessageLog` | abstract specification of a message queue: a log and the positions of its readers |
| `MessageQueue`, `MCMessageQueue`, `WaitingProofs` | the ring, the readers, the blocker and the suspended reads |
| `Activations` | abstract specification of calls and exceptions: activations of functions |
| `ControlFlow`, `MCControlFlow`, `ControlFlowProofs` | IP, `jmp_seg` and the call, closure and catch stacks of one thread |
| `RefCounts`, `MCRefCounts`, `RefCountsProofs` | managed objects: counts, the pending list, finalization, and what the opcodes do to the places that hold values |
| `RtcTimer`, `MCRtcTimer`, `RtcTimerProofs` | the engine's and the timer's pthreads of the RTC extension |
| `PriorityQueue` | abstract specification of the RTC extension's queue |
| `CalendarSizes`, `CalendarQueue`, `MCCalendarQueue` | that queue pointer by pointer: years, trees, buckets, events |
| `Compiler`, `MCCompiler`, `CompilerProofs` | from source files to programs, images and back |
| `CompilerMeaning` | what files, programs and images mean, by recursion over files; for TLC only |
| `DynArray`, `HashTable`, `TextSegments` | growing arrays, hash tables, text segments and maps |
| `NameTable` | abstract specification of a map: names get numbers, numbers have values |
| `LifoStack` | abstract specification of a stack |
| `GenericStack` | the stacks of bytes with their two counters |
| `MCContainers` | one instance of stack, map and calendar queue for TLC |
| `ContainersProofs` | the theorems about stacks, text segments and maps |

Refinements: `Threads` and `ThreadLinks` both implement `ThreadQueues`
(`ImplementsQueues`), the first by identity on `prio`, `ready`, `running` and
`pending`, the second by walking the chains of nodes and splitting them by
priority; `MessageQueue` implements `MessageLog`, `ControlFlow` `Activations`,
`CalendarQueue` `PriorityQueue`, `TextSegments` `NameTable`, `GenericStack`
`LifoStack`. `RtcTimer` uses the queue as `PriorityQueue` promises it.
Definitions whose comment begins with "Mutant" are variants of the definition
below them with a plausible mistake; `PROJECT.json` names the property that
each one breaks.

### Threads

A cycle of `vm_schedule_cycle` is two steps. In phase `sched` one of
`ScheduleKeep`, `ScheduleReady`, `ScheduleRunning`, `ScheduleNone` is the
decision of `_sched_rr` (both live entries of `schedulers[]` are `_sched_rr`);
in phase `exec` one action per opcode is what `vm_exec_cycle` does for the
current thread. Programs are left open: a thread may execute any opcode at any
time, except that one whose lock attempt failed executes the same opcode again
(`insn`), because `current_thread` is NULL and the IP does not move; `lockMtx`
and `joinThread` then find their operand in `pending_lock`, `lockMtx:Int` reads
its memory cell again and may find another mutex.

| State | Code |
|---|---|
| `phase` | between the scheduler call and `vm_exec_cycle` |
| `tstate`, `prio`, `remaining`, `pending_lock` | fields of `struct _thread_t` |
| `crit` | threads with `IN_CRITICAL_SECTION` |
| `ready`, `running`, `current`, `threads_count`, `scheduler`, `timeslice` | fields of `struct _vm_t` |
| `owner`, `count`, `pending` | fields of `struct _mutex_t`; a thread names its own `join_mutex` |
| `pending[b]`, b a blocker | the stack of threads, top first |
| `insn` | which opcode stands at the IP, when it must be the failed one |

Lists sorted by `dlist_insert_sorted` with `comp_prio` are one FIFO per
priority; that the macros do produce this order is what `ThreadLinks` shows.

Abstractions: the state `ThreadDying` lasts from an opcode to the end of the
same cycle and is folded into `Kill`; a negative `remaining` (a thread that
stays in a critical section past its slice) is counted as 0, which every
comparison treats alike; reference counts, data, messages and statistics are
left out; operands have the right types (an operand of another type is
`Fatal`); `MaxDepth` bounds recursive locking and the number of thread objects
bounds how often threads are created. `Init` leaves `scheduler` open because
`vm_new` does not initialise it.

`KillStates` is the set of states in which a thread may be killed by another.
The theorems hold for ready and running victims; what the code does to a
blocked victim is what `links_kill.cfg` shows.

### ThreadLinks

One variable `mem` holds every node, list head and tail, thread state and
priority; `InsertTail`, `RemoveHead`, `RemoveTail`, `RemoveNode`, `InsertSorted`,
`SetState`, `Pop`/`WakeAll` (the loop of `mutex_unlock`) and `Unlink`
(`thread_deinit`) are functions on it in the order of the C assignments. A
write through NULL sets `bad`. The loops of C are recursive functions of the
number of rounds (`Hops` follows `next`, `WakeAll` and `ReadyAll` wake a thread
per round), which are at most as many as there are threads: a list that did not
end would show as one node too many in `Nodes`. Slices end at any cycle (`Keep` or `Turn`),
which contains every slice length and critical section of `Threads`. `Collect`
finalizes a dead thread that no joiner holds; its object may be created anew.

### ThreadEngine

The main pthread calls `vm_run_program` in the foreground (`th_run_fg`) or in
the background (`th_run_bg`) and ends with `vm_del`; the pthread of the engine
executes cycles while there are VM threads, and the death of the last one ends
it. One action is one stretch of code between two points where another pthread
may do something that matters: the locks, the read and the write of
`threads_count`, the lists, the joins.

| State | Code |
|---|---|
| `thread`, `is_running`, `mutex`, `fg_mutex` | fields of `struct _vm_engine_t` of the threaded engine; a mutex is TRUE while it is locked |
| `idle`, `threads_count` | `vm->scheduler == SchedulerIdle`, `vm->threads_count` |
| `state`, `sync` | of the VM threads: alive or not, `_sync` |
| `pc`, `at`, `read` | where a pthread is and its local variables |
| `overtaken` | history: `th_init` started a pthread while the former one was in its loop |

`th_cli_lock` and `th_cli_unlock` do nothing in the pthread that `e->thread`
names. `th_run_fg` polls `fg_mutex` until it is locked and then locks it: so it
waits for ever when its program is over before the first poll. `Nested` is a
foreground run in the engine's own pthread (`program.c:115`, `ape_compiler.c:199`),
which waits for itself. `Miscounted` is a lost update of `threads_count`. When
the last VM thread dies while the client adds another one, `th_init` makes a
locked mutex new and starts a second pthread (`overtaken`); the old one joins
the new one, clears `e->thread`, and `th_kill` then joins pthread 0. Two engine
pthreads in a cycle are a data race over the whole VM: a behaviour ends there
(`Overlap`). `vm_kill_thread` keeps the lock with two or more threads left
(`vm.c:937`). The model has all of this; the properties say what holds apart
from it.

Abstractions: which VM thread a cycle serves is open; an opcode is the last one
of its thread, starts a thread, or compiles (which runs a program in the
foreground), and all others leave this state alone; programs are never all
blocked; `e->thread` is stored before the new pthread runs; the modes Mono and
RoundRobin are one.

### MessageQueue

Each opcode is one step, of any thread that is not blocked; who runs when is
what `Threads` models, and every order it allows is among these. Messages are
numbered as they are written.

| State | Code |
|---|---|
| `values`, `wr` | fields of `struct _msg_q_t`; `(x+1)&FIFO_MASK` is `Moved(x)` |
| `rd`, `owner` | fields of `struct _msg_q_rd_t` |
| `stack` | `mq->blocker`, top first |
| `blocked` | threads in state `ThreadBlocked` |
| `skew` | instructions between the IP and where it should be: `vm_exec_cycle` hops over a suspended opcode (unlike a failed `mutex_lock`, `blocker_suspend` leaves `current_thread` set) and `blocker_resume` subtracts 2 |
| `retry` | the reader on top of the stack of a thread suspended in `msgQueueRead` |
| `last` | what the last `msgQueueRead` left on the stack |
| `sent` | history: how many messages were written |

`ImplementsLog` maps it to `MessageLog`: the position of a reader is `sent`
minus the distance of its head to the write head, and a blocked thread waits
for the reader it will retry. With `StrangersRead` a thread may read with a
reader that another thread created, which nothing in the code refuses; that
is what `mq_stranger.cfg` shows. Left out: the references between queue, reader,
messages and owner, `clone`, `deinit`.

### ControlFlow

One step is one `vm_exec_cycle`: what the opcode does to the control state and
then `Iterate`, the end of the cycle, which jumps to `jmp_seg:jmp_ofs` if
`jmp_ofs` is not zero, else lets the thread die at the end of the code, else
hops. Which opcode stands where is left open, except that a segment ends with
the `ret 0` that the compiler adds (`src/compiler/ape_compiler.c:109`), so
every program is covered.

| State | Code |
|---|---|
| `program`, `IP` | `t->program`, half of `t->IP` (an instruction is two words) |
| `jmp_seg` | `t->jmp_seg`; `jmp_ofs` lives within a cycle and is a parameter of `Iterate` |
| `calls` | `t->call_stack`: `cs`, `ip`, `has_closure` |
| `closures` | `t->closures_stack` |
| `catchers` | `t->catch_stack`; `depth` is the number of calls, one more than the `sp` kept in `has_closure` |
| `alive` | the thread is not dying |
| `goal` | history: the label of a `jmp` that was just executed |

`Throw` is `raise_exception`, which `throw` and failing opcodes call alike.
`Fatal` is a failed assertion or an exception nobody catches: `longjmp` out of
the cycle. `Disciplined` restricts the programs: a function uninstalls its own
catch blocs before it returns. Without it a throw reaches a bloc whose function
has returned, which the code cannot notice. `ImplementsActivations` groups the three stacks by the
number of calls: an activation has its return address, its closure and the
catch blocs that were installed in it.

Left out: data, locals and exception values, opcodes that suspend or are
retried (`Threads` and `MessageQueue` say where these stand), nested `e_run`,
computed jumps to something that is not a label.

### RefCounts

A value is the object it is a handle of, or `None` (numbers, constant strings,
nil). A place holds a value: a cell of a data stack, of a locals stack, a
register, the callee of a frame, a cell of the data segment or of an object. An
opcode is one action that leaves in `todo`, in the order of its C code, which
places it empties and fills; `Step` carries these out one by one with
`vm_obj_deref_ptr` and `vm_obj_ref_ptr`. `Finalize` and `Free` are the
finalization of at most one object at the end of a cycle.

| State | Code |
|---|---|
| `heap.rc`, `heap.gc` | `ref_count` of an object, `vm->gc_pending` |
| `heap.cell` | what each place holds |
| `kind`, `size` | `_free_data`/`_clone` of an object, its cells in use |
| `depth`, `locals`, `frames`, `alive` | stacks of the threads; a frame is the closure it installed |
| `todo`, `dying`, `phase` | the opcode or finalization under way |

Left out: the references of thread objects (a thread has three, its death drops
one, so that dead threads are never freed), managed exceptions (the reference of
an exception that nobody fetched is lost, `vm.c:174-196`), `mapSet` over a
managed value (`containers.c:192-217` dereferences the type word), virtual
members of objects with managed values (`data.c:404-431`), clones of arrays and
maps (`vm_da_clone` returns nothing), `mapGet` of a name that is not there
(index -1), operands of the wrong type, sets. The registers, frames and closures
of a killed thread are not dereferenced, and a cycle of garbage is never freed.
`call_vc` (`bml_vm.c:337-354`) takes no reference to what it calls:
`ClosuresLive` is about programs without it (`VirtualClosures = FALSE`).

### RtcTimer and CalendarQueue

In `RtcTimer` the engine's pthread is in an opcode of the extension (`vm.pc`) or
idle, the timer's pthread is in `timer_routine` (`tm.pc`). Each step is the code
between two points where the other one may act.

| State | Code |
|---|---|
| `mtx`, `selfcall`, `running`, `pie`, `date` | the mutex, `__selfcall`, `timer_is_running`, whether the device ticks, `timer_date` |
| `queue` | the priority queue: dated tasks |
| `fifo`, `rd`, `wr` | `fifo_f`, `fifo_d` and their ends |
| `blocker`, `blocked` | threads in `RTC_nextTask`, threads in state Blocked |
| `sent`, `woken`, `written`, `taken`, `skipped`, `spurious`, `overrun` | histories |

`LOCK` and `UNLOCK` skip the mutex while `__selfcall` is set, whoever set it
(`skipped`). Two calls in the queue at once end the behaviour.

The two pthreads meet at the start and at the end by a flag and a condition.
`timer_init` waits in a loop but reads the flag without the mutex
(`timer.c:232`), and the timer sets the flag and signals in two steps (`Up`,
`Signal`; `timer.c:366-367`). So the signal may come when `RTC_init` has
returned long ago, or before `RTC_init` waits, which is then released by a
spurious wake-up only; the signal of the end can be lost in the same way, and
`RTC_term` waits for ever. `timer_terminate` waits once (`timer.c:250`), does
not test anything afterwards and does not own the mutex that it waits with: the
late signal of the start releases it as well as the signal of the end (`Close`,
`closeSignal`), and so does a wake-up that nobody signalled (`WakeUp`, which
sets `spurious` at that wait). What holds is `DestroyedLast`: a signal, also the
late one, is never sent in a turn of the timer's loop, and no turn begins after
it, because `RTC_term` takes the flag back before it waits. What does not hold
is that the timer has seen the end (`ClosedFirst`); and with a spurious wake-up
at that wait `pqDestroy` can meet `pqDequeue`, which is why both properties
about the end name `spurious`.

Left out: the allocator of `rtc_alloc.c`, `RTC_init` after `RTC_term`.

`CalendarQueue` holds the objects of `priority_queue.c` in one record `q`; an
action is one call of the interface. With `Scars = FALSE` behaviours stop
before a call that would follow a link which `remove_year` left behind; with
`TRUE` they go on (`pq_lost`). Years are numbered; those equal modulo `YEAR_HASH`
(241) share an entry of the table, which names the newest of them. `find_year`
(`priority_queue.c:703-707`) begins there and goes on to later years only: an
earlier year of the entry is missed. With `Collisions = FALSE` a message never
opens a year while an earlier one of its entry is in the queue (a later one may
be, and an entry may be used again when it is free); with `TRUE` it does, and neither the
order of equal dates nor the place where `pqiJumpTo` begins is kept (`pq_collide.cfg`).
Iterators are over an unchanged queue.
`pqiJumpTo` goes to the first message at or after the date, but to the first
message of the year when the year has only earlier ones (`OnlyEarlier`).

### Compiler

A file is the sequence of the nodes that the walk meets; an opcode is a pair of
argument type and name, and stands for its C function too. `calls` is the nest
of files and images under way; an action is one node, one end of a file, one
command of `tinyaml.c`. `result` is the chain, `progs` the programs of the
process, `disk` the images, `dict`, `env`, `required`, `loadlibs`, `vectors` the
tables of the VM. `Serialize` is both passes over a chain. A call of `calls` counts
its way through its file (`at`) or through the libraries and the required files of
its image (`lib`, `req`). Code that runs while a file is compiled is a machine that
does one opcode at a time (`Step`), with a stack of the routines entered (`runs`),
since a routine that compiles a child enters the routine of that child; the
bound is `MaxSteps` opcodes, 60, which no code in the runs needs. Numbers in
code refer to tables; `CompilerMeaning` follows them (`Meaning`) and says what the
source asks for (`SourceMeaning`). Images are saved under names of their own
(`FilesAssumption`): one name is one file.

On the command line an unknown node or a missing library ends the process
(`Fatal`). While a line of the interactive mode is compiled
(`Interactively`) the error handler only prints (`tinyaml.c:133`): a missing library is
passed over (`NothingToLoad`), and at an unknown node the walk of the line ends,
what it has put into the chain becomes code of the edited program, and only the
run of the line is left out (`RejectLine`; `ape_compiler.c:103-121`,
`tinyaml.c:103-107`). A part of a program is therefore a file and how many of its nodes were
compiled, and later lines must mean what they say behind such a piece. Left out
is an unknown node in a file that such a line requires or includes: the process
stays where it is until the next session.

Left out: grammar plugging, walkers, overloads, init and term routines,
`compileString`, `compileFileToThread`, debug labels, the search for files, the
bytes of an image (a truncated image only fails an assertion). Running code does
jumps, `ret`, pushes, `envAdd` and the opcodes of the compiler. `Discards =
FALSE` leaves out files that require a source for the first time after other
nodes (see `compile_lost`); `MaxDepth` cuts files that require each other, which
the code compiles until the C stack is full.

### Containers

A cell of memory in `GenericStack` is a byte of the code's; `sz` counts tokens and is compared
with `tok_sp`, which counts bytes, as in the code. `gpush` and `gstack_grow` mix
freely (on an empty stack `gstack_grow` by nothing allocates too: `tok_sp`, minus one
token, is compared as an unsigned word), peeks are on stacks that are not empty (`_gpeek` lets an empty one
pass). `DynArray` has `reserved`, `size` and the words; a word outside the memory
reads `Wild`. `TextSegments` has the array by number and the hash table by text,
and the map over them with two words per value. The empty name is left out as a
key (`text_seg.c:54-57` would number it again). A map is cloned at most once:
`vm_da_copy` (`objects.c:124-131`) copies words but not the size, so that a clone
of a clone is empty. On a clone of 64 names or more the assertion of `mapSet`
(`containers.c:203`) fails, and for the name whose number is exactly 64 it holds
although one word of the value lies outside the memory that is reserved next.

## Runs

| Run | Instance | Checks |
|---|---|---|
| `threads_all` | 3 threads, 1 mutex, 1 blocker, priorities 1 and 2, depth 2, slice 2 (and a refused 0); 716 533 states | `ListsAgree`, `CountAgrees`, `NoLostWakeup`, `JoinMutexHeld`, `OnlyOwnerReleases`, `CritNotPreempted`, `ReadyPriority`, `UnlockInterrupts`, `ImplementsQueues` |
| `threads_live` | 3 threads, 1 mutex, one priority | `ReadyRuns`: a ready thread gets to run; `JoinCompletes`: a joiner gets past a dead joinee |
| `links_all` | 3 threads, 1 mutex, 1 blocker, 2 priorities, depth 2 | `WellLinked`: chains whole both ways, sorted, no NULL followed; `ImplementsQueues` |
| `engine_all` | 3 programs, up to 3 engine pthreads; 248 584 states | `FgJoins`: a foreground run returns when its program is over; `CallsReturn`, `ProgramsEnd`: calls and programs end in an engine that no race has spoiled |
| `mq_all` | 3 threads, 3 readers, ring of 4, 9 messages; 34 897 states | `NoSleepingReader`, `RetriesTheRead`, `ImplementsLog` |
| `flow_all` | 1 thread, 2 segments of 4 instructions, 2 closures, calls and catch blocs 4 deep together; 240 490 states | `StacksAgree`, `ImplementsActivations` |
| `refs_all` | 3 objects (the third for clones of virtual objects), 2 threads, 1 cell each, with `call_vc`; 1 403 742 states | `CountsAgree`: a count is the number of holders, in the middle of an opcode too |
| `refs_cells` | 2 objects of 2 cells, 1 thread, no `call_vc`; 66 529 states | `NoDangling`, `ClosuresLive`, `Reclaimed`: a pending object is finalized or used again |
| `rtc_all` | 1 sleeper, the driver, FIFO of 2, dates 0 and 1, 2 tasks; 991 855 states | `Accounted`: a task is in one place; `ExclusiveUnlessSkipped`, `TakenInOrder`, `DestroyedLast`, `DueTasksRun` |
| `compile_all` | 90 programs, one library, language, required file, included file and image; 1 341 540 states | `CodeMeansSource`, `ImagesKeepMeaning`, `RunOnce` |
| `containers_all` | stack of 6 tokens of 2 cells (2 per push, 3 per growth); 3 names in 2 rows; 5 messages on dates 0–4, 8 and 12 in years of 4, a table of 3 years; 186 812 states | `StackInBounds`, `ImplementsStack`, `ImagesKeepNames`, `ImplementsNames`, `TreesAgree`, `IteratesInOrder`, `ImplementsPriorityQueue` |
| `pq_lost` | 3 messages, `Scars` | **violation** of `NothingLost` |

Bounds. Three threads are enough for an owner and two competing waiters, for a
joiner, its joinee and a killer, and for a running list of two with a ready
newcomer. Two priorities tell before, equal and after apart. Depth 2 separates
the inner unlock from the last one. A slice of 2 separates "goes on" from
"over". Thread identity is symmetric except in liveness runs, where symmetry is
not used. Three programs give the engine a thread that dies, one that goes on
and one that is added meanwhile, and let it restart twice. A ring of 4 and 9
messages wrap twice, so that a reader can be a whole ring behind after it has
read, and twice; three readers put three threads in the blocker at once. Four
levels hold a call inside a catch bloc inside a call inside a catch bloc, so that
a throw unwinds to the middle of the stacks and another follows; two closures
and calls without one tell whose closure is popped. One-cell objects reach every
opcode with shared and recycled addresses; two-cell objects contain each other
and grow. Two tasks overrun a FIFO of two (it holds one), and the clock's two
dates make a task due and not yet due. In `compile_all` names clash, a library
has an opcode that it does not define, jumps cross nodes of every kind, and
every image is read in a second process with other tables; lines of the interactive
mode end half-way, with code before the unknown node and behind it. Buckets of one event
split at once, so that five messages make trees that are rotated and pruned; years 0 and 3 share
an entry of the table, which the later one may take first and give back. Runs that
do not check deadlock are of systems that stop: bounds on messages or
programs, a thread's end, the death of the process, or a race.

Fairness. `FairSpec` of `Threads` is weak fairness of `Schedule` and of
`Execute`: `e_run` is a loop that does nothing else while `threads_count` is
positive. Nothing is assumed about which opcode a thread executes; hence one
priority (a busy thread of higher priority starves the others by design), no
critical section and no blocker in `threads_live`. `FairSpec` of `ThreadEngine`
is weak fairness of each pthread, as the operating system gives it, and strong
fairness of its steps at a mutex that is free again and again: the loop of the
engine unlocks and locks at once, and a client would starve otherwise, which
pthread mutexes do not exclude in theory. `FairSpec` of `RtcTimer` is the same for its two
pthreads. `RefCounts` has weak fairness of `Next`: the machine goes on. `Reclaimed`
needs no more, because each cycle finalizes the oldest object of the list.

### Known disagreements

`pq_lost`, the finding of `PROJECT.json`: `remove_year` (`priority_queue.c:547`)
moves `head` or `tail` before it unlinks the year; the next message is then hung
behind a freed year and lost, while `priority_queue.h:69` says that `pqDequeue`
gives the message if there is one.

These configurations and formulas are kept beside the runs; each fails, and
shows a line of the documentation that the code does not keep. For instance
`tlc -config links_kill.cfg MCThreadLinks.tla`.

| Shown by | What the code does | What is said |
|---|---|---|
| `threads_priority.cfg` (`MCThreads`) | the running list is a plain round; only the head of the ready list is compared with its next member (`vm.c:1354`) | "it will choose the highest priority first" (`Doc/Tutorial/1.Basics/7.threading.part1.asm:56-59`) |
| `threads_yield.cfg` (`MCThreads`) | the thread that yields beats a running thread of its priority (`vm.c:1377`) | "resume next thread" (`flow_control_and_threading.txt:77`) |
| `links_kill.cfg` (`MCThreadLinks`) | a victim that waits for a lock stays in the waiting list and is made ready by the next unlock (`thread.c:139`) | "Terminate given thread at once" (`flow_control_and_threading.txt:33`) |
| `mq_stranger.cfg` (`MCMessageQueue`) | `mq_rd` suspends the creator of the reader (`message.c:169`) | "just block the current thread" (`message.c:168`) |
| `WrittenIsPending` in the instance of `mq_all` | a reader 4096 messages behind finds an empty ring (`message.c:157`) | "hold 4096 messages at most" (`message.c:37`) |
| `flow_zero.cfg` (`MCControlFlow`) | a jump to offset zero is no jump (`vm.c:1280`); `flow_all` has no such label | "Jump to label" (`flow_control_and_threading.txt:26`) |
| `SleeperHasTask` in the instance of `rtc_all`, with `Spec` | a tick between `libRTC.c:153` and the next line wakes a thread that does not sleep yet | "suspend thread and wake-up at given timestamp" (`RTC.txt:34`) |
| `ClosedFirst` in the instance of `rtc_all`, with `Spec` | the signal of the timer's start, which `RTC_init` did not wait for (`timer.c:232`), releases the wait of `RTC_term`: the queue is destroyed before the timer has closed, or entered its loop (`timer.c:250`) | "to be sure the flag will be read" (`timer.c:249`) |
| `pq_collide.cfg` (`MCCalendarQueue`) | with a year after an earlier one of its entry, as 0 and 241, `find_year` misses the earlier one: `pqiJumpTo` begins before the date (`IteratesInOrder`), and messages of one date are in two years, the later one in front (`ImplementsPriorityQueue`) (`priority_queue.c:705`) | "first message at or after *date*" (`priority_queue.c:1241`); "smaller year numbers will be found more quickly" (`priority_queue.c:705`) |
| `compile_lost.cfg` (`MCCompiler`) | the first require of a source deletes nodes of earlier directives and included code (`program.c:99`) | "anyway it is empty at this point" (`program.c:99`) |
| `LabelsInOrder` in the instance of `compile_all` | a directive counts two words in the first pass and none in the second (`opcode_chain.c:306`): `program_lookup_label` misses | labels are looked up by halves (`program.c:492`) |
| `ForegroundReturns` in the instance of `engine_all` | `th_run_fg` polls for ever when its program is over before the first poll (`vm_engine.c:328`) | "and join the thread" (`vm.h:200`) |

## Proofs

Eight modules hold theorems. Each holds for all constants that satisfy the
assumptions of its component's module, which say that names are distinct, sets
finite where memory is, and sizes positive; TLC evaluates them on every run.

`ThreadsProofs`: `Invariance` (`Spec => []Inv`), with `Inv` the conjunction of
`TypeOK`, `CurrentRuns`, `ListsAgree`, `NoLostWakeup`, `JoinMutexHeld` and
`CountAgrees`; from it `ListsCorrect`, `CountCorrect`, `WakeupsCorrect`,
`JoinsCorrect`, the action properties `OwnershipCorrect`,
`CriticalSectionsCorrect`, `UnlockCorrect`, `PriorityCorrect`, and the refinement
`QueuesImplemented`. Victims of `killThread` are ready or running
(`KillStates`); what happens to others is `links_kill`. Why
the invariant has these parts: an opcode may only move the current thread out
of the running list if it is there (`CurrentRuns`, `ListsAgree`); waking a list
makes its members ready exactly once if they were blocked there and nowhere else
(`ListsAgree`); a death wakes the joiners because the thread holds its join mutex
exactly once (`JoinMutexHeld`), and no joiner is left behind a free mutex
(`NoLostWakeup`); the count follows from births and deaths (`CountAgrees`). None
is inductive alone. The refinement maps steps that grant a lock to stutters,
`BlockOn` to `Wait`, a last unlock to `Wake`, `Kill` to `Leave`.

`WaitingProofs`, on `MessageQueue` for `StrangersRead = FALSE`: `QueueInvariance`, with `Inv`
the conjunction of `TypeOK`, `Ring` (which message is in which slot),
`ReadersBehind` (no head is ahead of the writer) and `Sleepers` (the blocker
holds the blocked threads once each, one instruction too far, with readers that
have nothing to read); `SleepersWoken`, `ReadsRetried`, and the refinement
`LogImplemented`. Without the assumption `Sleepers` is false: a stranger's read
puts a thread in the blocker that was not at a read at all.

`ControlFlowProofs`: `FlowInvariance`, with `Inv` the conjunction of `TypeOK`,
`WithinBound` and `ClosuresAgree` (as many closures as calls that have one). Its
core is `PopInv`: popping all calls but the first n leaves the closures of these.
`SegmentsCorrect` (`jmp_seg` is the running program) assumes that no label names a
first instruction; `StacksCorrect` is for disciplined programs, with the catch
blocs' order by depth (`BlocsNested`). `ActivationsImplemented` is the refinement,
under both hypotheses: without the first a throw to such a label does not land on
it (nor does a jump, `flow_zero`), without the second a throw reaches a bloc whose function has
returned. As blocs lie in order of depth, those of one activation lie together
and the mapping finds them by counting the blocs below (`Outer`). A bloc that is
installed changes its own activation only (`CatchAppend`), and a throw or a return
leaves the activations below as they were (`FramesPopped`, `PopInv`).

`ThreadLinksProofs`: `LinksInvariance`, `ListsWhole` (`Spec => []WellLinked`) and
the refinement `QueuesFromLinks` (`Spec => ImplementsQueues`), for any threads,
locks, blockers and priorities. The lists are given as sequences: `Chains(m, Q)`
says that the links, heads and tails in memory `m` are those of the sequences
`Q[l]` and that no node is in two of them. Every macro then takes one node out of
a sequence or puts one in (`SplicedOut`, `SplicedIn`: which five fields change and
how), and a lemma per macro says which (`InsertTailIs`, `RemoveNodeIs`,
`InsertSortedIs`, ...); `SetStateIs` composes them, and the loops follow by `UpTo`
on the number of rounds (`HopsAre`, `BeforeIs`, `WakeAllIs`, `ReadyAllIs`). `Inv` is
`TypeOK` and
- `Linked`: the lists are such chains, ready and waiting lists in order of
  priority, and a thread is in the list that its state names. The macros take a
  node out of whatever list the state says; if it were in another one, two lists
  would be spliced.
- `Sleepers`: a blocker holds blocked threads that are in no list, once. Else
  `blocker_resume` would insert a node that is linked already.
- `JoinsHeld`: a living thread owns its join mutex, once, and a dead one does
  not, so that the unlock at its death is the last one and wakes the joiners
  (`Leave`), and a thread made of a collected object owns it once again.
- `CurrentRuns`: opcodes are executed by a running thread.

For the refinement, `OfPrio` of a sequence is what `ThreadQueues` sees; inserting
in order of priority appends to one of these queues (`OfPrioInserted`), taking a
node out takes it out of its queue (`OfPrioWithout`), and a round of the wake-up
moves the first thread from the end of one to the end of the other (`Woken`). The
theorems assume `KillStates \subseteq {"Ready", "Running"}`: with a blocked victim
`WellLinked` is false, as `links_kill` shows. TLC agrees: `Inv` is an invariant of the
instance of `links_all`.

`ContainersProofs`, stacks: `StackInvariance` (as many tokens are allocated as the
stack has, for any token size and steps of growth: although tokens are compared
with cells, one step is always enough), `StackStaysInBounds`, and the refinement
`StackImplemented`, that a stack in memory is a stack. Its strengthening is
`Whole`: memory is written in whole tokens, those above the top included, which
`gstack_grow` shows again; the lemma `CellOf` keeps cells of different tokens
apart, and each operation is mapped by what it does to `Contents`.

`ContainersProofs`, text segments: `SegmentInvariance` says that the array by number and the
hash table by text have the same texts, each under one number, whatever opcodes
fill a map and however often it is cloned; `NamesReadBack` that an image of it
gives every text its number again (`ImagesKeepNames`). Copies and reloads are a
recursive function, and what it computes is shown for segments of any length by
the lemmas `UpTo` and `AddAllIs`: the least number at which the statement fails,
which exists because `<` is well founded (`Least`), is neither zero nor the
successor of one at which it holds. `NamesKept` is the refinement
`ImplementsNames`: `WordsInv` adds that the two words of every name lie in the
memory of the array and are of one value, that the size of the array is even or
one, and that a map which is no clone has words for all its names; each opcode
that writes is then one `WrittenTo`, which is a `Put` of the table. The theorem
has two hypotheses, and the code needs both. No clone is cloned again
(`~Reclones`): its size is one, so that `vm_da_copy` copies two words. And
`Roomy`: a clone without a value of its own never gets a new name with number
`MapStep / 2`, which is 64, because the assertion of `mapSet` holds for it and
one of its words lies outside the memory. TLC agrees: in the instance of
`containers_all` `Roomy` and `WordsInv` are invariants, and with `MapStep = 6`,
where name 3 is such a name, `Roomy` fails and so does `ImplementsNames`.

`RefCountsProofs`: `RefInvariance`, for any finite memory. `IInv` says, next to
`CountsAgree` and `TypeOK`, what the steps of an opcode still have to do: the
places it will fill are empty or emptied before (`StoresFit`, `Clear`), what it
will store is alive until then (`StoresLive`), cells hold live objects
(`CellsLive`), the pending list holds unreferenced objects once (`GcSound`,
`GcComplete`) and an object that is finalized is in no place (`Finalizing`).
`CountsRight`, `PendingRight` and `NothingDangles` follow, and
`ClosuresOutliveCalls` for programs without `call_vc`: the closures stack holds
arrays without a reference of its own, and is right to because each frame with a
closure holds, or is about to hold, the function that owns it (`FramesHeld`),
a function's cell is an array or nil (`FunsClosed`), and no other opcode
writes to a frame's callee or to a function's cell.

`RtcTimerProofs`: `RtcInvariance`, for any numbers of threads, tasks, dates and
slots. `Exclusion` says who owns the mutex at which step, `Accounted` that a task
is with the engine, in the queue, with the timer, in the FIFO or done, `Ring`
that slots hold what was written. `TasksAccounted`, `QueueExclusive`,
`FifoInOrder`, `QueueDestroyedLast` follow. The last one, and exclusion at the end,
rest on `UpBefore`: the wait of `RTC_term` is left by a signal only, unless
`spurious`; the timer signals before its loop and after it; and as `RTC_term` has
taken the flag back before it waits, no turn begins behind either signal.

`WaitingProofs`, on `ThreadEngine`: `EngineInvariance` and `ForegroundJoins`. The foreground
mutex is locked exactly while a foreground program is alive, at most one is, and
whoever waits for the mutex waits for that program's end: `Added` and
`FgMutexHeld` say so at every step of adding and burying a thread. It needs that
at most one pthread of the engine is in a cycle when a step is taken
(`OneInCycle`), and that a second foreground run can only be asked for by a
running program, whose pthread then waits for itself.

`CompilerProofs`: `CompilerInvariance` and `RunsOnce`, for any files, libraries,
images and bounds, also with `Discards`. The code remembers a required file
only after its program has run (`program.c:116`) and a library only after it is
compiled (`program.c:146`, just before it runs; a program that runs loads no library), so
`required` and `loadlibs` do not stop a file that requires itself, directly or
through an image or an include, from being compiled again while it is under way.
What stops it is that such a compilation never ends. `Inv` says it with
`Linked`: what each call is for is the last node of the call below it;
`Answered`: every other node that any call has walked past is answered, its file
required, its library loaded, its include walked to the end; `Calls`: what a call
is for is not done yet; `Remembered`: exactly what ran is remembered. `NoCycle` is
the argument: when the newest call has asked for everything and a call below is
for the same file, the last node of that call is answered, because the newest call
has walked past it. But it is what the next call up is for, and no required file or
library under way is answered: so the next call is an include, of a file that
was walked before, and its last node is answered too, and so on up to the newest
call, which is no include. So nothing else under way is for the file that ends, and
its program runs for the first time.
`FilesAssumption` keeps an image from being a source or a library by name.

Only model-checked: liveness (`ReadyRuns`, `JoinCompletes`, `DueTasksRun`,
`Reclaimed`, `CallsReturn`, `ProgramsEnd`), which the prover does not do; all
of `CalendarQueue` (`TreesAgree`, `IteratesInOrder`, `ImplementsPriorityQueue`), whose
trees and walks are recursive operators, which the prover cannot expand;
`CodeMeansSource` and `ImagesKeepMeaning` of `Compiler`, whose meaning of a file is
recursive over included files and nested nodes and would need induction over
them; and the violations.

## Not modelled

The IO extension (thin wrappers of files and sockets), the debugger, the
generated grammar, the language layers (programs of the VM), arithmetic (one C
expression per opcode). Each section above says what its module leaves out.
Left out of the thread modules besides: killing a dead thread, an opcode that
suspends as the last one of the code, `blocker_resume` from outside a thread,
`blocker_free`, `vm_del` of the synchronous engine, nested `e_run`.

## What is left

- A nested `e_run` of the synchronous engine inside an opcode, composed with the
  call stack.
- The references of thread objects, composed with births and deaths in `Threads`.
- The bytes of an image (`abstract_io`), walkers and overloads, sets.
- Proofs: `TreesAgree` of the calendar queue. A walk over a list became a recursive
  function of a number, to which `UpTo` of `ThreadLinksProofs` applies; a tree
  splits in two at each node and needs an order on subtrees instead.
