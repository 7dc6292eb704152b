----------------------------- MODULE ControlFlow -----------------------------
(***************************************************************************)
(* The control state of one thread: IP, jmp_seg, call_stack,               *)
(* closures_stack and catch_stack, as vm_exec_cycle (src/vm/vm.c) and the  *)
(* control opcodes (src/ops/bml_vm.c) change them.  Only the opcodes of    *)
(* the thread touch them, so other threads are left out.                   *)
(*                                                                         *)
(* One step is one cycle: the opcode at IP and the move to the next one.   *)
(* Instructions are counted, not words: an IP is half the IP of the code.  *)
(* Which opcode stands where is left open, except that the last one of a   *)
(* segment is "ret 0", which the compiler adds.                            *)
(***************************************************************************)
EXTENDS Integers, Sequences, FiniteSets, SequencesExt

CONSTANTS
  Segments,    \* programs
  Length,      \* instructions of a segment
  Targets,     \* instructions that labels name
  Closures,    \* arrays that functions are closed over
  NULL,
  MaxDepth,    \* bound on calls and catch blocs together
  Disciplined  \* whether functions uninstall the catch blocs that they
               \* installed before they return, and no others

ASSUME ConstantsAssumption ==
  /\ Length \in Nat \ {0}
  /\ Targets \subseteq 0 .. Length - 2
  /\ NULL \notin Closures /\ NULL \notin Int
  /\ MaxDepth \in Nat
  /\ Disciplined \in BOOLEAN

VARIABLES
  program, IP,  \* t->program, t->IP
  jmp_seg,      \* t->jmp_seg; jmp_ofs is 0 between two cycles
  calls,        \* t->call_stack: where the call was and has_closure
  closures,     \* t->closures_stack
  catchers,     \* t->catch_stack: where to, and how many calls there were
  alive,
  goal          \* history: the label of the last opcode if it was a jmp

stacks == <<calls, closures, catchers>>
vars == <<program, IP, jmp_seg, stacks, alive, goal>>

Bounded == Len(calls) + Len(catchers) < MaxDepth
LastIP == Length - 1

-----------------------------------------------------------------------------
(* The end of vm_exec_cycle. *)

AtEnd(i) == i = LastIP

Landed(seg) == seg

\* jmp_ofs zero stands for "no jump", and so does a jump to the first
\* instruction.
Iterate(seg, ofs, from) ==
  /\ jmp_seg' = seg
  /\ IF ofs # 0
     THEN program' = Landed(seg) /\ IP' = ofs /\ UNCHANGED alive
     ELSE /\ alive' = ~AtEnd(from)
          /\ IP' = IF AtEnd(from) THEN from ELSE from + 1
          /\ UNCHANGED program

Hop(from) == Iterate(jmp_seg, 0, from)

-----------------------------------------------------------------------------
(* Opcodes.  They execute before the last instruction of the segment; the  *)
(* "ret 0" there is Ret.                                                   *)

Executes == alive /\ IP < LastIP

\* Opcodes that do not touch the control state.  A computed jump is JmpLabel
\* if its program computes the offset of a label.
Other ==
  /\ Executes
  /\ Hop(IP) /\ goal' = NULL
  /\ UNCHANGED stacks

\* SNZ and SZ when they skip the next instruction.
Skip ==
  /\ Executes
  /\ Hop(IP + 1) /\ goal' = NULL
  /\ UNCHANGED stacks

JmpLabel ==
  /\ Executes
  /\ \E l \in Targets :
       Iterate(jmp_seg, l, IP) /\ goal' = l
  /\ UNCHANGED stacks

\* Calling cs:ip, c is the closure if there is one.
Invoke(cs, ip, c) ==
  /\ Executes /\ Bounded
  /\ calls' = Append(calls, [cs |-> program, ip |-> IP, has_closure |-> c # NULL])
  /\ closures' = IF c # NULL THEN Append(closures, c) ELSE closures
  /\ Iterate(cs, ip, IP) /\ goal' = NULL
  /\ UNCHANGED catchers

\* call: a function object, which has a closure or not.  call_vc is given the
\* closure separately.  An overloaded opcode calls a method in the same way.
Call == \E cs \in Segments, ip \in Targets, c \in Closures \cup {NULL} : Invoke(cs, ip, c)
CallVc == \E cs \in Segments, ip \in Targets, c \in Closures : Invoke(cs, ip, c)
CallLabel == \E l \in Targets : Invoke(jmp_seg, l, NULL)

\* Mutants: only the call stack shrinks; the depth is saved one too small.
KeepClosures(n) == closures
OneOutside == Len(calls) - 1

\* Popping all calls but the first n pops a closure for each that has one.
Unwound(n) ==
  SubSeq(closures, 1,
         Len(closures) - Cardinality({i \in n + 1 .. Len(calls) : calls[i].has_closure}))

PopCallers(n) ==
  /\ calls' = SubSeq(calls, 1, n)
  /\ closures' = Unwound(n)

\* ret and retval; without a call to return from the thread dies.
Ret ==
  /\ alive
  /\ Disciplined /\ calls # <<>> =>
       \A i \in DOMAIN catchers : catchers[i].depth < Len(calls)
  /\ IF calls # <<>>
     THEN /\ PopCallers(Len(calls) - 1)
          /\ Iterate(Last(calls).cs, Last(calls).ip + 1, IP)
     ELSE /\ alive' = FALSE
          /\ IP' = IF AtEnd(IP) THEN IP ELSE IP + 1
          /\ UNCHANGED <<program, jmp_seg, calls, closures>>
  /\ goal' = NULL
  /\ UNCHANGED catchers

\* How many calls a catch bloc is inside of.
Depth == Len(calls)

InstCatcher ==
  /\ Executes /\ Bounded
  /\ \E l \in Targets :
       catchers' = Append(catchers, [cs |-> program, ip |-> l, depth |-> Depth])
  /\ Hop(IP) /\ goal' = NULL
  /\ UNCHANGED <<calls, closures>>

UninstCatcher ==
  /\ Executes /\ catchers # <<>>
  /\ Disciplined => Last(catchers).depth = Len(calls)
  /\ catchers' = Front(catchers)
  /\ \E l \in Targets : Iterate(program, l, IP)
  /\ goal' = NULL
  /\ UNCHANGED <<calls, closures>>

\* throw, and raise_exception from any other opcode.
Throw ==
  /\ Executes /\ catchers # <<>>
  /\ PopCallers(IF Len(calls) > Last(catchers).depth THEN Last(catchers).depth
                                                  ELSE Len(calls))
  /\ Iterate(Last(catchers).cs, Last(catchers).ip, IP)
  /\ catchers' = Front(catchers)
  /\ goal' = NULL

\* A throw that nobody catches and failed assertions, of any opcode.
Fatal ==
  /\ Executes
  /\ alive' = FALSE /\ goal' = NULL
  /\ UNCHANGED <<program, IP, jmp_seg, stacks>>

Next ==
  \/ Other \/ Skip \/ JmpLabel
  \/ Call \/ CallVc \/ CallLabel \/ Ret
  \/ InstCatcher \/ UninstCatcher \/ Throw \/ Fatal

Init ==
  /\ program \in Segments /\ jmp_seg = program
  /\ IP = 0
  /\ calls = <<>> /\ closures = <<>> /\ catchers = <<>>
  /\ alive = TRUE
  /\ goal = NULL

Spec == Init /\ [][Next]_vars

-----------------------------------------------------------------------------
(* Properties. *)

TypeOK ==
  /\ program \in Segments /\ jmp_seg \in Segments
  /\ IP \in 0 .. LastIP
  /\ calls \in Seq([cs : Segments, ip : 0 .. LastIP - 1, has_closure : BOOLEAN])
  /\ closures \in Seq(Closures)
  /\ catchers \in Seq([cs : Segments, ip : Targets, depth : 0 .. MaxDepth])
  /\ alive \in BOOLEAN
  /\ goal \in Targets \cup {NULL}

\* jmp and call:Label set jmp_ofs only: jmp_seg must still be the program that
\* the thread executes, after every call, return and throw.
SegmentsAgree == jmp_seg = program

\* The three stacks belong together: there is a closure for each call that has
\* one, and a catch bloc never outlives the call that it was installed in.
StacksAgree ==
  /\ Len(closures) = Cardinality({i \in DOMAIN calls : calls[i].has_closure})
  /\ \A i \in DOMAIN catchers :
       /\ catchers[i].depth <= Len(calls)
       /\ i > 1 => catchers[i - 1].depth <= catchers[i].depth

\* "Jump to label" (flow_control_and_threading.txt).
JumpTaken == alive /\ goal # NULL => IP = goal

\* The catch blocs inside fewer than n calls, which lie below the others.
Outer(n) == {i \in DOMAIN catchers : catchers[i].depth < n}

\* The activation inside n calls.
ActivationAt(n) ==
  [site    |-> IF n = 0 THEN NULL ELSE [seg |-> calls[n].cs, ip |-> calls[n].ip],
   closure |-> IF n = 0 \/ ~calls[n].has_closure THEN NULL
               ELSE closures[Cardinality({i \in 1 .. n : calls[i].has_closure})],
   catch   |-> LET below == Cardinality(Outer(n))
               IN [i \in 1 .. Cardinality(Outer(n + 1)) - below |->
                     [seg |-> catchers[below + i].cs, ip |-> catchers[below + i].ip]]]

\* Calls, returns and throws nest: a return goes on after its own call, a throw
\* ends in the function that installed the bloc, and each function sees its
\* own closure again.
Act == INSTANCE Activations WITH
  Positions <- 0 .. LastIP,
  at  <- [seg |-> program, ip |-> IP],
  act <- [k \in 1 .. Len(calls) + 1 |-> ActivationAt(k - 1)]
ImplementsActivations == Act!Spec
=============================================================================
