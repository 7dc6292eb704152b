------------------------------- MODULE RefCounts -------------------------------
(***************************************************************************)
(* Managed objects: reference counts, the list of objects waiting for      *)
(* their finalization, and the opcodes that move values between the data   *)
(* stacks, the data segment, the locals, the registers, the call stacks    *)
(* and the objects themselves (object.h, objects.c, data.c, containers.c,  *)
(* bml_vm.c, vm.c).                                                        *)
(*                                                                         *)
(* An opcode is one action: it leaves in todo, in the order of its code,   *)
(* the places it empties and fills, and Step carries them out one by one   *)
(* on the reference counts.  One scheduler cycle is an opcode followed by  *)
(* the finalization of at most one object (vm_schedule_cycle); all of it   *)
(* runs under the client lock, so nothing comes between its steps.         *)
(*                                                                         *)
(* A value is the object it is a handle of, or None: a number, a constant  *)
(* string, nil.  A place that holds nothing holds None.                    *)
(***************************************************************************)
EXTENDS Naturals, Sequences, FiniteSets

CONSTANTS Objects,          \* the addresses malloc hands out
          Threads, Main,    \* the threads, the one that runs throughout
          None,             \* any value that is not a handle
          StackSize,        \* bound: values on the data stack of each thread
          LocalSize,        \* bound: cells of its locals stack
          Registers,        \* its registers
          CallDepth,        \* bound: frames of its call stack
          MemSize,          \* cells of the data segment and of the environment
          Cells,            \* bound: cells of an object
          VirtualClosures   \* whether programs use call_vc

ASSUME HeapAssumption ==
    /\ None \notin Objects
    /\ Main \in Threads
    /\ StackSize \in [Threads -> Nat \ {0}]
    /\ LocalSize \in [Threads -> Nat]
    /\ Registers \in [Threads -> Nat]
    /\ CallDepth \in [Threads -> Nat]
    /\ MemSize \in Nat
    /\ Cells \in Nat \ {0}
    /\ VirtualClosures \in BOOLEAN

(* What objects may be; an address that is not allocated is "free".        *)
Kinds == {"Str", "Array", "Env", "Stack", "Fun", "VObj"}
Values == Objects \cup {None}

--------------------------------------------------------------------------------
(* Places                                                                   *)

Data(t, i)   == <<"data", t, i>>
Local(t, i)  == <<"local", t, i>>
Reg(t, i)    == <<"reg", t, i>>
Callee(t, i) == <<"callee", t, i>>
Mem(i)       == <<"mem", Main, i>>
In(o, i)     == <<"in", o, i>>

DataPlaces   == UNION {{Data(t, i) : i \in 1..StackSize[t]} : t \in Threads}
LocalPlaces  == UNION {{Local(t, i) : i \in 1..LocalSize[t]} : t \in Threads}
RegPlaces    == UNION {{Reg(t, i) : i \in 1..Registers[t]} : t \in Threads}
CalleePlaces == UNION {{Callee(t, i) : i \in 1..CallDepth[t]} : t \in Threads}
MemPlaces    == {Mem(i) : i \in 1..MemSize}
ObjectPlaces == {In(o, i) : o \in Objects, i \in 1..Cells}

Places == DataPlaces \cup LocalPlaces \cup RegPlaces
          \cup CalleePlaces \cup MemPlaces \cup ObjectPlaces

(* Memory is finite.                                                        *)
ASSUME FinitePlaces == IsFiniteSet(Places)

--------------------------------------------------------------------------------
VARIABLES
    heap,     \* rc: reference counts; gc: vm->gc_pending; cell: what each place holds
    kind,     \* what each address holds
    size,     \* number of cells of an object in use
    depth,    \* values on each data stack
    locals,   \* cells of each locals stack
    frames,   \* call stack of each thread: the closure each frame installed, or None
    alive,    \* the threads that run
    todo,     \* what is left to do of the opcode or finalization under way
    dying,    \* the object being finalized, or None
    phase     \* "exec" or "gc": which half of the cycle is under way

vars == <<heap, kind, size, depth, locals, frames, alive, todo, dying, phase>>

(* Who holds object o.                                                      *)
Holders(h, o) == {p \in Places : h.cell[p] = o}
Allocated == {o \in Objects : kind[o] # "free"}
ElementsOf(s) == {s[i] : i \in DOMAIN s}

--------------------------------------------------------------------------------
(* The reference counts                                                     *)

(* Mutant of Uncollect: the object is looked for at the head only.          *)
UncollectHead(gc, o) == IF gc # <<>> /\ gc[1] = o THEN Tail(gc) ELSE gc

(* vm_collect: the object goes to the head of the list, unless it is there. *)
Collect(gc, o) == IF o \in ElementsOf(gc) THEN gc ELSE <<o>> \o gc

(* vm_uncollect: the first node of the object, if any, leaves the list.     *)
Uncollect(gc, o) ==
    IF o \notin ElementsOf(gc) THEN gc
    ELSE LET i == CHOOSE i \in DOMAIN gc : gc[i] = o /\ \A j \in 1..(i - 1) : gc[j] # o
         IN [j \in 1..(Len(gc) - 1) |-> IF j < i THEN gc[j] ELSE gc[j + 1]]

(* vm_obj_ref_ptr                                                           *)
Ref(h, v) ==
    IF v = None THEN h
    ELSE [h EXCEPT !.rc[v] = @ + 1,
                   !.gc = IF h.rc[v] = 0 THEN Uncollect(@, v) ELSE @]

(* vm_obj_deref_ptr                                                         *)
Deref(h, v) ==
    IF v = None THEN h
    ELSE [h EXCEPT !.rc[v] = IF @ > 0 THEN @ - 1 ELSE 0,
                   !.gc = IF h.rc[v] <= 1 THEN Collect(@, v) ELSE @]

(* The steps an opcode is made of.  A place may be emptied, filled by a     *)
(* plain store (it is known to be empty), or overwritten; an overwritten    *)
(* value loses its reference before the new one gets its own, or after.     *)
Drop(p)      == [op |-> "drop", at |-> p, v |-> None]
Store(p, v)  == [op |-> "store", at |-> p, v |-> v]
Put(p, v)    == [op |-> "put", at |-> p, v |-> v]
RefPut(p, v) == [op |-> "refput", at |-> p, v |-> v]
Steps == [op : {"drop", "store", "put", "refput"}, at : Places, v : Values]

(* Mutant: an overwritten value keeps its reference.                       *)
DoneKeepingOld(h, s) ==
    LET new == [h EXCEPT !.cell[s.at] = s.v]
    IN IF s.op = "drop" THEN Deref(new, h.cell[s.at]) ELSE Ref(new, s.v)

Done(h, s) ==
    LET old == h.cell[s.at]
        new == [h EXCEPT !.cell[s.at] = s.v]
    IN CASE s.op = "drop"   -> Deref(new, old)
         [] s.op = "store"  -> Ref(new, s.v)
         [] s.op = "put"    -> Ref(Deref(new, old), s.v)
         [] s.op = "refput" -> Deref(Ref(new, s.v), old)

--------------------------------------------------------------------------------
(* Initially one thread runs.  (The argument counts at the bottom of a data *)
(* stack are plain values and are left out.)                               *)
Init ==
    /\ heap = [rc |-> [o \in Objects |-> 0], gc |-> <<>>, cell |-> [p \in Places |-> None]]
    /\ kind = [o \in Objects |-> "free"]
    /\ size = [o \in Objects |-> 0]
    /\ depth = [t \in Threads |-> 0]
    /\ locals = [t \in Threads |-> 0]
    /\ frames = [t \in Threads |-> <<>>]
    /\ alive = {Main}
    /\ todo = <<>>
    /\ dying = None
    /\ phase = "exec"

Top(t, i) == Data(t, depth[t] - i)         \* i values below the top
At(p) == heap.cell[p]
IsA(v, k) == v # None /\ kind[v] = k

(* An opcode of thread t leaves these steps to be done.                    *)
Does(t, steps) ==
    /\ phase = "exec" /\ todo = <<>> /\ t \in alive
    /\ phase' = "gc"
    /\ todo' = steps
    /\ UNCHANGED <<heap, dying>>

Depth(t, d) == d <= StackSize[t] /\ depth' = [depth EXCEPT ![t] = d]

(* vm_obj_new: malloc returns an address that is not in use.               *)
New(o, k) ==
    /\ kind[o] = "free"
    /\ kind' = [kind EXCEPT ![o] = k]

SameHeap == UNCHANGED <<kind, size>>
SameFrames == UNCHANGED <<locals, frames, alive>>

(* The array installed by the innermost call that has a closure.           *)
Closure(t) ==
    LET with == {i \in DOMAIN frames[t] : frames[t][i] # None}
        last == {i \in with : \A j \in with : j <= i}
    IN IF last = {} THEN None ELSE frames[t][CHOOSE i \in last : TRUE]

CellsOf(o) == {In(o, i) : i \in 1..size[o]}

(* What an opcode of thread t reads: the data stack below the top, the     *)
(* data segment, the locals, the registers, the closure.                   *)
Assignable(t) ==
    MemPlaces \cup {Local(t, i) : i \in 1..locals[t]}
    \cup {Reg(t, i) : i \in 1..Registers[t]}
    \cup (IF Closure(t) = None THEN {} ELSE CellsOf(Closure(t)))
Readable(t) == Assignable(t) \cup {Data(t, i) : i \in 1..depth[t]}

--------------------------------------------------------------------------------
(* Stack, memory, locals                                                    *)

(* push, and dup, getmem, regGet, getClosure, envGet of place p.            *)
Load(t) ==
    /\ \E v \in {None} \cup {At(p) : p \in Readable(t)} :
          Does(t, <<Store(Data(t, depth[t] + 1), v)>>)
    /\ Depth(t, depth[t] + 1)
    /\ SameHeap /\ SameFrames

(* pop, print, and the tests that consume the top of the stack.             *)
Pop(t) ==
    /\ depth[t] > 0
    /\ Does(t, <<Drop(Top(t, 0))>>)
    /\ Depth(t, depth[t] - 1)
    /\ SameHeap /\ SameFrames

(* setmem, regSet, setClosure.                                              *)
Save(t) ==
    /\ depth[t] > 0
    /\ \E p \in Assignable(t) : Does(t, <<Drop(Top(t, 0)), Put(p, At(Top(t, 0)))>>)
    /\ Depth(t, depth[t] - 1)
    /\ SameHeap /\ SameFrames

(* envSet and envAdd take the new reference before they drop the old one.   *)
EnvSave(t) ==
    /\ depth[t] > 0
    /\ \E p \in MemPlaces : Does(t, <<Drop(Top(t, 0)), RefPut(p, At(Top(t, 0)))>>)
    /\ Depth(t, depth[t] - 1)
    /\ SameHeap /\ SameFrames

(* enter and leave: a cell of the locals stack comes or goes.               *)
Enter(t) ==
    /\ locals[t] < LocalSize[t]
    /\ Does(t, <<>>)
    /\ locals' = [locals EXCEPT ![t] = @ + 1]
    /\ SameHeap /\ UNCHANGED <<depth, frames, alive>>

Leave(t) ==
    /\ locals[t] > 0
    /\ Does(t, <<Drop(Local(t, locals[t]))>>)
    /\ locals' = [locals EXCEPT ![t] = @ - 1]
    /\ SameHeap /\ UNCHANGED <<depth, frames, alive>>

--------------------------------------------------------------------------------
(* Objects                                                                  *)

(* arrayNew, mapNew, stackNew, dynFunNew, strdup of a constant; the members *)
(* of a virtual object are an array of its own.                             *)
Create(t) ==
    /\ \E k \in Kinds, o \in Objects :
          /\ New(o, k) /\ k # "VObj"
          /\ Does(t, <<Store(Data(t, depth[t] + 1), o)>>)
    /\ Depth(t, depth[t] + 1)
    /\ UNCHANGED size /\ SameFrames

CreateVObj(t) ==
    /\ \E o, m \in Objects :
          /\ o # m /\ kind[o] = "free" /\ kind[m] = "free"
          /\ kind' = [kind EXCEPT ![o] = "VObj", ![m] = "Array"]
          /\ size' = [size EXCEPT ![o] = 1]
          /\ Does(t, <<Store(In(o, 1), m), Store(Data(t, depth[t] + 1), o)>>)
    /\ Depth(t, depth[t] + 1)
    /\ SameFrames

(* toI, toF, strlen, charAt, strcmp: a string is consumed, and the result   *)
(* is a plain value or (toS, substr, strcat of a constant) a new string.    *)
Convert(t) ==
    /\ depth[t] > 0
    /\ \/ Does(t, <<Drop(Top(t, 0)), Store(Top(t, 0), None)>>) /\ UNCHANGED kind
       \/ \E o \in Objects :
             New(o, "Str") /\ Does(t, <<Drop(Top(t, 0)), Store(Top(t, 0), o)>>)
    /\ UNCHANGED <<size, depth>> /\ SameFrames

(* strcmp and strcat of two values.                                         *)
Combine(t) ==
    /\ depth[t] > 1
    /\ \/ /\ Does(t, <<Drop(Top(t, 0)), Drop(Top(t, 1)), Store(Top(t, 1), None)>>)
          /\ UNCHANGED kind
       \/ \E o \in Objects :
             /\ New(o, "Str")
             /\ Does(t, <<Drop(Top(t, 0)), Drop(Top(t, 1)), Store(Top(t, 1), o)>>)
    /\ Depth(t, depth[t] - 1)
    /\ UNCHANGED size /\ SameFrames

(* clone: a string is copied, a function or a stack is its own clone.       *)
Cloned(v, c) == \/ IsA(v, "Str") /\ c # None /\ New(c, "Str")
                \/ (IsA(v, "Fun") \/ IsA(v, "Stack")) /\ c = v /\ UNCHANGED kind

Clone(t) ==
    /\ depth[t] > 0
    /\ \E c \in Objects :
          /\ Cloned(At(Top(t, 0)), c)
          /\ Does(t, <<Drop(Top(t, 0)), Store(Top(t, 0), c)>>)
    /\ UNCHANGED <<size, depth>> /\ SameFrames

(* The clone of a virtual object shares its members.                        *)
CloneVObj(t) ==
    /\ depth[t] > 0
    /\ LET v == At(Top(t, 0))
       IN /\ IsA(v, "VObj")
          /\ \E c \in Objects :
                /\ New(c, "VObj")
                /\ size' = [size EXCEPT ![c] = 1]
                /\ Does(t, <<Drop(Top(t, 0)), Store(In(c, 1), At(In(v, 1))), Store(Top(t, 0), c)>>)
    /\ UNCHANGED depth /\ SameFrames

(* swap: two values of the data stack change places.                        *)
Swap(t) ==
    /\ phase = "exec" /\ todo = <<>> /\ t \in alive
    /\ \E i \in 1..(depth[t] - 1) :
          heap' = [heap EXCEPT !.cell[Top(t, 0)] = At(Data(t, i)),
                               !.cell[Data(t, i)] = At(Top(t, 0))]
    /\ phase' = "gc"
    /\ UNCHANGED <<todo, dying, depth>> /\ SameHeap /\ SameFrames

--------------------------------------------------------------------------------
(* Containers                                                               *)

(* arrayGet, mapGet of a key that is there, stackPeek, and the members of a *)
(* virtual object: the container is popped, then one of its values pushed.  *)
Contents(v) == IF IsA(v, "VObj") THEN At(In(v, 1)) ELSE v

Get(t) ==
    /\ depth[t] > 0
    /\ LET c == Contents(At(Top(t, 0)))
       IN /\ \E k \in {"Array", "Env", "Stack"} : IsA(c, k)
          /\ \E i \in 1..size[c] : Does(t, <<Drop(Top(t, 0)), Store(Top(t, 0), At(In(c, i)))>>)
    /\ UNCHANGED depth /\ SameHeap /\ SameFrames

(* arraySet: the value is popped, the array stays; it grows when it must.   *)
ArraySet(t) ==
    /\ depth[t] > 1
    /\ LET a == At(Top(t, 1))
       IN /\ IsA(a, "Array")
          /\ \E i \in 1..Cells :
                /\ Does(t, <<Drop(Top(t, 0)), Put(In(a, i), At(Top(t, 0)))>>)
                /\ size' = [size EXCEPT ![a] = IF i > @ THEN i ELSE @]
    /\ Depth(t, depth[t] - 1)
    /\ UNCHANGED kind /\ SameFrames

(* mapSet of a key that is new or holds a plain value.                      *)
MapSet(t) ==
    /\ depth[t] > 1
    /\ LET e == At(Top(t, 0))
       IN /\ IsA(e, "Env")
          /\ \E i \in 1..Cells :
                /\ i <= size[e] + 1 /\ At(In(e, i)) = None
                /\ Does(t, <<Drop(Top(t, 0)), Drop(Top(t, 1)), Store(In(e, i), At(Top(t, 1)))>>)
                /\ size' = [size EXCEPT ![e] = IF i > @ THEN i ELSE @]
    /\ Depth(t, depth[t] - 2)
    /\ UNCHANGED kind /\ SameFrames

StackPush(t) ==
    /\ depth[t] > 1
    /\ LET s == At(Top(t, 1))
       IN /\ IsA(s, "Stack") /\ size[s] < Cells
          /\ Does(t, <<Drop(Top(t, 0)), Drop(Top(t, 1)),
                       Store(In(s, size[s] + 1), At(Top(t, 0)))>>)
          /\ size' = [size EXCEPT ![s] = @ + 1]
    /\ Depth(t, depth[t] - 2)
    /\ UNCHANGED kind /\ SameFrames

StackPop(t) ==
    /\ depth[t] > 0
    /\ LET s == At(Top(t, 0))
       IN /\ IsA(s, "Stack") /\ size[s] > 0
          /\ Does(t, <<Drop(Top(t, 0)), Drop(In(s, size[s]))>>)
          /\ size' = [size EXCEPT ![s] = @ - 1]
    /\ Depth(t, depth[t] - 1)
    /\ UNCHANGED kind /\ SameFrames

--------------------------------------------------------------------------------
(* Functions and threads                                                    *)

(* dynFunAddClosure: a clone of the value on top joins the closure of the   *)
(* function below it, which is created when there is none.                  *)
AddClosure(t) ==
    /\ depth[t] > 1
    /\ LET v == At(Top(t, 0))
           f == At(Top(t, 1))
           a == At(In(f, 1))
       IN /\ IsA(f, "Fun") /\ IsA(a, "Array")
          /\ size[a] < Cells
          /\ \E c \in Values :
                /\ Cloned(v, c) \/ (v = None /\ c = None /\ UNCHANGED kind)
                /\ Does(t, <<Drop(Top(t, 0)), Store(In(a, size[a] + 1), c)>>)
          /\ size' = [size EXCEPT ![a] = @ + 1]
    /\ Depth(t, depth[t] - 1)
    /\ SameFrames

FirstClosure(t) ==
    /\ depth[t] > 1
    /\ LET v == At(Top(t, 0))
           f == At(Top(t, 1))
       IN /\ IsA(f, "Fun") /\ At(In(f, 1)) = None
          /\ \E a \in Objects, c \in Values :
                /\ kind[a] = "free" /\ a # c
                /\ \/ /\ IsA(v, "Str") /\ c # None /\ kind[c] = "free"
                      /\ kind' = [kind EXCEPT ![c] = "Str", ![a] = "Array"]
                   \/ /\ c = v /\ (v = None \/ IsA(v, "Fun") \/ IsA(v, "Stack"))
                      /\ kind' = [kind EXCEPT ![a] = "Array"]
                /\ Does(t, <<Drop(Top(t, 0)), Store(In(f, 1), a), Store(In(a, 1), c)>>)
                /\ size' = [size EXCEPT ![f] = 1, ![a] = 1]
    /\ Depth(t, depth[t] - 1)
    /\ SameFrames

(* vm_push_caller with a closure c, or None.                                *)
Enters(t, c) ==
    /\ Len(frames[t]) < CallDepth[t]
    /\ frames' = [frames EXCEPT ![t] = Append(@, c)]
    /\ UNCHANGED <<locals, alive>>

(* Mutant: the frame does not hold the function.                           *)
CallUnheld(t) ==
    /\ depth[t] > 0
    /\ LET f == At(Top(t, 0))
       IN IsA(f, "Fun") /\ Enters(t, At(In(f, 1))) /\ Does(t, <<Drop(Top(t, 0))>>)
    /\ Depth(t, depth[t] - 1)
    /\ SameHeap

(* The frame holds the function; its closure is borrowed from it.           *)
Call(t) ==
    /\ depth[t] > 0
    /\ LET f == At(Top(t, 0))
       IN /\ IsA(f, "Fun")
          /\ Enters(t, At(In(f, 1)))
          /\ Does(t, <<Drop(Top(t, 0)), Store(Callee(t, Len(frames[t]) + 1), f)>>)
    /\ Depth(t, depth[t] - 1)
    /\ SameHeap

(* call_vc: the closure is an array taken from the data stack.              *)
CallVC(t) ==
    /\ VirtualClosures
    /\ depth[t] > 1
    /\ LET f == At(Top(t, 0))
       IN /\ IsA(f, "Fun") /\ At(In(f, 1)) = None
          /\ IsA(At(Top(t, 1)), "Array")
          /\ Enters(t, At(Top(t, 1)))
          /\ Does(t, <<Drop(Top(t, 0)), Drop(Top(t, 1)),
                       Store(Callee(t, Len(frames[t]) + 1), f)>>)
    /\ Depth(t, depth[t] - 2)
    /\ SameHeap

CallLabel(t) ==
    /\ Enters(t, None)
    /\ Does(t, <<>>)
    /\ UNCHANGED depth /\ SameHeap

(* vm_pop_caller: the innermost frames go, down to k of them.               *)
Leaves(t, k) ==
    /\ frames' = [frames EXCEPT ![t] = SubSeq(@, 1, k)]
    /\ UNCHANGED <<locals, alive>>

(* ret and ret:Int.                                                         *)
Ret(t) ==
    /\ frames[t] # <<>>
    /\ LET n == Len(frames[t])
       IN /\ Leaves(t, n - 1)
          /\ \/ Does(t, <<Drop(Callee(t, n))>>) /\ UNCHANGED depth
             \/ /\ depth[t] > 0
                /\ Does(t, <<Drop(Top(t, 0)), Drop(Callee(t, n))>>)
                /\ Depth(t, depth[t] - 1)
    /\ SameHeap

(* retval:Int: the top value replaces the one below the popped arguments.   *)
RetVal(t) ==
    /\ frames[t] # <<>> /\ depth[t] > 1
    /\ LET n == Len(frames[t])
       IN /\ Leaves(t, n - 1)
          /\ Does(t, <<Drop(Top(t, 0)), Put(Top(t, 1), At(Top(t, 0))), Drop(Callee(t, n))>>)
    /\ Depth(t, depth[t] - 1)
    /\ SameHeap

(* throw of a plain value: the frames above the catcher's are unwound.      *)
Throw(t) ==
    /\ depth[t] > 0 /\ At(Top(t, 0)) = None
    /\ \E k \in 0..Len(frames[t]) :
          LET n == Len(frames[t])
          IN /\ Leaves(t, k)
             /\ Does(t, <<Drop(Top(t, 0))>> \o [i \in 1..(n - k) |-> Drop(Callee(t, n + 1 - i))])
    /\ Depth(t, depth[t] - 1)
    /\ SameHeap

(* newThread: the function goes from one data stack to another; the handle  *)
(* of the thread takes its place and that of the priority.                  *)
NewThread(t) ==
    /\ depth[t] > 1
    /\ IsA(At(Top(t, 0)), "Fun") /\ At(Top(t, 1)) = None
    /\ \E u \in Threads \ {Main} :
          /\ u \notin alive /\ frames[u] = <<>> /\ depth[u] = 0
          /\ alive' = alive \cup {u}
          /\ Does(t, <<Drop(Top(t, 0)), Store(Data(u, 1), At(Top(t, 0)))>>)
          /\ depth' = [depth EXCEPT ![u] = 1, ![t] = @ - 1]
    /\ SameHeap /\ UNCHANGED <<locals, frames>>

(* vm_kill_thread: the locals and the data stack lose their references; the *)
(* registers and the frames keep theirs.                                    *)
Exit(t) ==
    /\ t # Main
    /\ Does(t, [i \in 1..locals[t] |-> Drop(Local(t, i))]
               \o [i \in 1..depth[t] |-> Drop(Data(t, i))])
    /\ alive' = alive \ {t}
    /\ depth' = [depth EXCEPT ![t] = 0]
    /\ locals' = [locals EXCEPT ![t] = 0]
    /\ SameHeap /\ UNCHANGED frames

--------------------------------------------------------------------------------
Opcode(t) ==
    \/ Load(t) \/ Pop(t) \/ Save(t) \/ EnvSave(t) \/ Enter(t) \/ Leave(t)
    \/ Create(t) \/ CreateVObj(t) \/ Convert(t) \/ Combine(t)
    \/ Clone(t) \/ CloneVObj(t) \/ Swap(t)
    \/ Get(t) \/ ArraySet(t) \/ MapSet(t) \/ StackPush(t) \/ StackPop(t)
    \/ AddClosure(t) \/ FirstClosure(t) \/ Call(t) \/ CallVC(t) \/ CallLabel(t)
    \/ Ret(t) \/ RetVal(t) \/ Throw(t) \/ NewThread(t) \/ Exit(t)

(* The next reference to drop or take.                                      *)
Step ==
    /\ todo # <<>>
    /\ heap' = Done(heap, Head(todo))
    /\ todo' = Tail(todo)
    /\ UNCHANGED <<kind, size, depth, locals, frames, alive, dying, phase>>

(* Mutant of Finalize: the last object of the list stays there.            *)
FinalizeKeepsLast ==
    /\ phase = "gc" /\ todo = <<>> /\ dying = None
    /\ IF Len(heap.gc) <= 1
       THEN phase' = "exec" /\ UNCHANGED <<heap, todo, dying>>
       ELSE LET o == heap.gc[Len(heap.gc)]
            IN /\ heap' = [heap EXCEPT !.gc = SubSeq(@, 1, Len(@) - 1)]
               /\ dying' = o
               /\ todo' = [i \in 1..size[o] |-> Drop(In(o, i))]
               /\ UNCHANGED phase
    /\ UNCHANGED <<kind, size, depth, locals, frames, alive>>

(* The end of the cycle takes the oldest pending object off the list and    *)
(* runs its deinit, which drops what the object holds ...                   *)
Finalize ==
    /\ phase = "gc" /\ todo = <<>> /\ dying = None
    /\ IF heap.gc = <<>>
       THEN phase' = "exec" /\ UNCHANGED <<heap, todo, dying>>
       ELSE LET o == heap.gc[Len(heap.gc)]
            IN /\ heap' = [heap EXCEPT !.gc = SubSeq(@, 1, Len(@) - 1)]
               /\ dying' = o
               /\ todo' = [i \in 1..size[o] |-> Drop(In(o, i))]
               /\ UNCHANGED phase
    /\ UNCHANGED <<kind, size, depth, locals, frames, alive>>

(* ... then gives its memory back.                                          *)
Free ==
    /\ phase = "gc" /\ todo = <<>> /\ dying # None
    /\ kind' = [kind EXCEPT ![dying] = "free"]
    /\ size' = [size EXCEPT ![dying] = 0]
    /\ dying' = None
    /\ phase' = "exec"
    /\ UNCHANGED <<heap, depth, locals, frames, alive, todo>>

Next == (\E t \in Threads : Opcode(t)) \/ Step \/ Finalize \/ Free

Spec == Init /\ [][Next]_vars /\ WF_vars(Next)

--------------------------------------------------------------------------------
(* Properties                                                               *)

TypeOK ==
    /\ heap \in [rc : [Objects -> Nat], gc : Seq(Objects), cell : [Places -> Values]]
    /\ kind \in [Objects -> Kinds \cup {"free"}]
    /\ size \in [Objects -> 0..Cells]
    /\ depth \in [Threads -> Nat] /\ \A t \in Threads : depth[t] <= StackSize[t]
    /\ locals \in [Threads -> Nat] /\ \A t \in Threads : locals[t] <= LocalSize[t]
    /\ frames \in [Threads -> Seq(Values)]
    /\ alive \subseteq Threads
    /\ todo \in Seq(Steps)
    /\ dying \in Values
    /\ phase \in {"exec", "gc"}

(* The count of an object is the number of places that hold it.             *)
CountsAgree == \A o \in Objects : heap.rc[o] = Cardinality(Holders(heap, o))

(* Between two cycles the list holds the unreferenced objects, each once.   *)
PendingAgrees ==
    /\ \A i, j \in DOMAIN heap.gc : heap.gc[i] = heap.gc[j] => i = j
    /\ phase = "exec" => ElementsOf(heap.gc) = {o \in Allocated : heap.rc[o] = 0}

(* Nothing holds or is about to hold an object that was given back.         *)
NoDangling ==
    /\ \A p \in Places : heap.cell[p] \in Allocated \cup {None}
    /\ \A i \in DOMAIN todo : todo[i].v \in Allocated \cup {None}

(* The closure of a function under way outlives the call.                   *)
ClosuresLive ==
    \A t \in alive : \A i \in DOMAIN frames[t] :
        frames[t][i] \in Allocated \cup {None} /\ (frames[t][i] # None => frames[t][i] # dying)

(* An object that waits for its finalization is finalized or used again.    *)
Reclaimed ==
    \A o \in Objects : (o \in ElementsOf(heap.gc)) ~> (o \notin ElementsOf(heap.gc))

================================================================================
