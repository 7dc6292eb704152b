-------------------------- MODULE ControlFlowProofs --------------------------
(***************************************************************************)
(* What holds of the stacks of ControlFlow for any program, closures and   *)
(* bounds: the invariant, and the theorems that follow from it.            *)
(***************************************************************************)
EXTENDS ControlFlow, FiniteSetTheorems, TLAPS

\* The calls from..to that have a closure.
Closed(from, to) == {i \in from .. to : calls[i].has_closure}

ClosuresAgree == Len(closures) = Cardinality(Closed(1, Len(calls)))
WithinBound == Len(calls) + Len(catchers) <= MaxDepth

Frames == [cs : Segments, ip : 0 .. LastIP - 1, has_closure : BOOLEAN]
Blocs == [cs : Segments, ip : Targets, depth : 0 .. MaxDepth]

Inv == TypeOK /\ WithinBound /\ ClosuresAgree

-----------------------------------------------------------------------------
(* Sequences and the closed calls.                                           *)

LEMMA Prefix ==
  ASSUME NEW S, NEW s \in Seq(S), NEW n \in 0 .. Len(s)
  PROVE  /\ SubSeq(s, 1, n) \in Seq(S)
         /\ Len(SubSeq(s, 1, n)) = n
         /\ \A i \in 1 .. n : SubSeq(s, 1, n)[i] = s[i]
OBVIOUS

LEMMA FrontPrefix ==
  ASSUME NEW S, NEW s \in Seq(S), s # <<>>
  PROVE  /\ Front(s) \in Seq(S)
         /\ Len(Front(s)) = Len(s) - 1
         /\ \A i \in 1 .. Len(s) - 1 : Front(s)[i] = s[i]
<1>1. Len(s) - 1 \in 0 .. Len(s)
  OBVIOUS
<1>2. Front(s) = SubSeq(s, 1, Len(s) - 1)
  BY DEF Front
<1> QED
  BY <1>1, <1>2, Prefix

LEMMA ClosedCount ==
  ASSUME NEW a \in Nat, NEW b \in Nat
  PROVE  IsFiniteSet(Closed(a, b)) /\ Cardinality(Closed(a, b)) \in Nat
<1>1. IsFiniteSet(a .. b)
  BY FS_Interval
<1>2. Closed(a, b) \subseteq a .. b
  BY DEF Closed
<1> QED
  BY <1>1, <1>2, FS_Subset, FS_CardinalityType

\* The closed calls are those among the first n and those after them.
LEMMA ClosedSplit ==
  ASSUME NEW m \in Nat, NEW n \in 0 .. m
  PROVE  Cardinality(Closed(1, m)) =
           Cardinality(Closed(1, n)) + Cardinality(Closed(n + 1, m))
<1>0. /\ \A i : i \in 1 .. m <=> i \in 1 .. n \/ i \in n + 1 .. m
      /\ \A i : ~(i \in 1 .. n /\ i \in n + 1 .. m)
  OBVIOUS
<1>1. Closed(1, m) = Closed(1, n) \cup Closed(n + 1, m)
  BY <1>0, Zenon DEF Closed
<1>2. Closed(1, n) \cap Closed(n + 1, m) = {}
  BY <1>0, Zenon DEF Closed
<1>3. 1 \in Nat /\ m \in Nat /\ n \in Nat /\ n + 1 \in Nat
  OBVIOUS
<1>4. IsFiniteSet(Closed(1, n)) /\ Cardinality(Closed(1, n)) \in Nat
  BY <1>3, ClosedCount, Zenon
<1>5. IsFiniteSet(Closed(n + 1, m)) /\ Cardinality(Closed(n + 1, m)) \in Nat
  BY <1>3, ClosedCount, Zenon
<1>6. Cardinality(Closed(1, n) \cup Closed(n + 1, m)) =
        Cardinality(Closed(1, n)) + Cardinality(Closed(n + 1, m))
          - Cardinality(Closed(1, n) \cap Closed(n + 1, m))
  BY <1>4, <1>5, FS_Union, Zenon
<1>7. Cardinality(Closed(1, n) \cap Closed(n + 1, m)) = 0
  BY <1>2, FS_EmptySet, Zenon
<1> QED
  BY <1>1, <1>4, <1>5, <1>6, <1>7

-----------------------------------------------------------------------------
(* One lemma per part of a cycle.                                            *)

\* Where a cycle ends.
LEMMA IterateInv ==
  ASSUME TypeOK, NEW seg \in Segments, NEW ofs \in 0 .. LastIP,
         NEW from \in 0 .. LastIP, Iterate(seg, ofs, from)
  PROVE  /\ program' \in Segments /\ jmp_seg' \in Segments
         /\ IP' \in 0 .. LastIP /\ alive' \in BOOLEAN
<1>1. Length \in Nat \ {0} /\ LastIP = Length - 1
  BY ConstantsAssumption DEF LastIP
<1>2. program \in Segments /\ IP \in 0 .. LastIP /\ alive \in BOOLEAN
  BY DEF TypeOK
<1>3. CASE ofs # 0
  BY <1>2, <1>3 DEF Iterate, Landed
<1>4. CASE ofs = 0
  BY <1>1, <1>2, <1>4 DEF Iterate, AtEnd
<1> QED
  BY <1>3, <1>4

\* Popping calls pops their closures.
LEMMA PopInv ==
  ASSUME Inv, NEW n \in 0 .. Len(calls), PopCallers(n)
  PROVE  /\ calls' \in Seq(Frames) /\ Len(calls') = n
         /\ closures' \in Seq(Closures)
         /\ ClosuresAgree'
<1>1. calls \in Seq(Frames) /\ closures \in Seq(Closures)
  BY DEF Inv, TypeOK, Frames
<1>2. calls' \in Seq(Frames) /\ Len(calls') = n /\ \A i \in 1 .. n : calls'[i] = calls[i]
  BY <1>1, Prefix DEF PopCallers
<1> DEFINE k == Len(closures) - Cardinality(Closed(n + 1, Len(calls)))
<1>3. k = Cardinality(Closed(1, n)) /\ k \in 0 .. Len(closures)
  <2>1. Len(calls) \in Nat /\ n \in Nat /\ n + 1 \in Nat /\ 1 \in Nat
    BY <1>1
  <2>2. /\ Cardinality(Closed(1, n)) \in Nat
        /\ Cardinality(Closed(n + 1, Len(calls))) \in Nat
    BY <2>1, ClosedCount
  <2>3. Len(closures) = Cardinality(Closed(1, n)) + Cardinality(Closed(n + 1, Len(calls)))
    BY <2>1, ClosedSplit DEF Inv, ClosuresAgree
  <2> QED
    BY <2>2, <2>3
<1>4. closures' = SubSeq(closures, 1, k)
  BY DEF PopCallers, Unwound, Closed
<1> HIDE DEF k
<1>5. closures' \in Seq(Closures) /\ Len(closures') = k
  BY <1>1, <1>3, <1>4, Prefix
<1>6. Closed(1, n) = Closed(1, Len(calls))'
  BY <1>2 DEF Closed
<1> QED
  BY <1>2, <1>3, <1>5, <1>6 DEF ClosuresAgree

-----------------------------------------------------------------------------
(* Invariance.                                                               *)

Flow ==
  /\ program \in Segments /\ jmp_seg \in Segments
  /\ IP \in 0 .. LastIP
  /\ alive \in BOOLEAN
  /\ goal \in Targets \cup {NULL}
Stacks ==
  /\ calls \in Seq(Frames) /\ closures \in Seq(Closures) /\ catchers \in Seq(Blocs)
  /\ WithinBound /\ ClosuresAgree

LEMMA InvParts == Inv <=> Flow /\ Stacks
BY Zenon DEF Inv, TypeOK, Flow, Stacks, Frames, Blocs

LEMMA InvPartsNext == Inv' <=> Flow' /\ Stacks'
BY Zenon DEF Inv, TypeOK, Flow, Stacks, Frames, Blocs

LEMMA Bounds ==
  /\ Length \in Nat \ {0} /\ LastIP = Length - 1 /\ LastIP \in Nat
  /\ Targets \subseteq 0 .. LastIP - 1
  /\ NULL \notin Closures /\ MaxDepth \in Nat
BY ConstantsAssumption DEF LastIP

LEMMA StacksUnchanged ==
  ASSUME Stacks, UNCHANGED stacks
  PROVE  Stacks'
BY DEF Stacks, stacks, WithinBound, ClosuresAgree, Closed

\* A call pushes a closure exactly if the function has one.
LEMMA InvokeStacks ==
  ASSUME Inv, NEW cs, NEW ip, NEW c \in Closures \cup {NULL}, Invoke(cs, ip, c)
  PROVE  Stacks'
<1> DEFINE f == [cs |-> program, ip |-> IP, has_closure |-> c # NULL]
           n == Len(calls) + 1
<1>1. /\ calls \in Seq(Frames) /\ closures \in Seq(Closures) /\ catchers \in Seq(Blocs)
      /\ program \in Segments /\ IP \in 0 .. LastIP /\ ClosuresAgree
  BY InvParts, Zenon DEF Flow, Stacks
<1>2. f \in Frames
  BY <1>1, Bounds DEF Frames, Invoke, Executes
<1>3. /\ calls' = Append(calls, f) /\ catchers' = catchers
      /\ closures' = IF c # NULL THEN Append(closures, c) ELSE closures
  BY Zenon DEF Invoke
<1>4. f.has_closure = (c # NULL)
  OBVIOUS
<1> HIDE DEF f
<1>5. /\ calls' \in Seq(Frames) /\ Len(calls') = n /\ calls'[n] = f
      /\ \A i \in 1 .. Len(calls) : calls'[i] = calls[i]
  BY <1>1, <1>2, <1>3
<1>6. closures' \in Seq(Closures) /\ Len(closures') = Len(closures) + (IF c # NULL THEN 1 ELSE 0)
  BY <1>1, <1>3
<1>7. WithinBound'
  BY <1>1, <1>3, <1>5, Bounds DEF WithinBound, Invoke, Bounded
<1>8. 1 \in Nat /\ Len(calls) \in Nat /\ n \notin 1 .. Len(calls)
      /\ \A i : i \in 1 .. n <=> i \in 1 .. Len(calls) \/ i = n
  BY <1>1
<1>9. IsFiniteSet(Closed(1, Len(calls))) /\ Cardinality(Closed(1, Len(calls))) \in Nat
  BY <1>8, ClosedCount, Zenon
<1> HIDE DEF n
<1>10. n \notin Closed(1, Len(calls))
  BY <1>8, Zenon DEF Closed
<1>11. Closed(1, Len(calls))' = {i \in 1 .. n : calls'[i].has_closure}
  BY <1>5, Zenon DEF Closed
<1>12. CASE c # NULL
  <2>1. Closed(1, Len(calls))' = Closed(1, Len(calls)) \cup {n}
    BY <1>4, <1>5, <1>8, <1>11, <1>12, Zenon DEF Closed
  <2>2. Cardinality(Closed(1, Len(calls)) \cup {n}) = Cardinality(Closed(1, Len(calls))) + 1
    BY <1>9, <1>10, FS_AddElement, Zenon
  <2>3. ClosuresAgree'
    BY <1>1, <1>6, <1>12, <2>1, <2>2 DEF ClosuresAgree
  <2> QED
    BY <1>1, <1>3, <1>5, <1>6, <1>7, <2>3, Zenon DEF Stacks
<1>13. CASE c = NULL
  <2>1. Closed(1, Len(calls))' = Closed(1, Len(calls))
    BY <1>4, <1>5, <1>8, <1>11, <1>13, Zenon DEF Closed
  <2>2. ClosuresAgree'
    BY <1>1, <1>6, <1>13, <2>1 DEF ClosuresAgree
  <2> QED
    BY <1>1, <1>3, <1>5, <1>6, <1>7, <2>2, Zenon DEF Stacks
<1> QED
  BY <1>12, <1>13

LEMMA InvokeInv ==
  ASSUME Inv, NEW cs \in Segments, NEW ip \in Targets, NEW c \in Closures \cup {NULL},
         Invoke(cs, ip, c)
  PROVE  Inv'
<1>1. TypeOK /\ IP \in 0 .. LastIP /\ ip \in 0 .. LastIP
  BY Bounds DEF Inv, TypeOK
<1>2. Iterate(cs, ip, IP) /\ goal' = NULL
  BY Zenon DEF Invoke
<1>3. Flow'
  BY <1>1, <1>2, IterateInv, Zenon DEF Flow
<1> QED
  BY <1>3, InvokeStacks, InvPartsNext, Zenon

LEMMA CallInv == Inv /\ (Call \/ CallVc \/ CallLabel) => Inv'
<1> SUFFICES ASSUME Inv, Call \/ CallVc \/ CallLabel
             PROVE  Inv'
  OBVIOUS
<1>1. jmp_seg \in Segments
  BY DEF Inv, TypeOK
<1>2. CASE Call
  BY <1>2, InvokeInv, Zenon DEF Call
<1>3. CASE CallVc
  BY <1>3, InvokeInv, Zenon DEF CallVc
<1>4. CASE CallLabel
  BY <1>1, <1>4, InvokeInv, Zenon DEF CallLabel
<1> QED
  BY <1>2, <1>3, <1>4

\* A cycle that leaves the stacks alone.
LEMMA StepInv ==
  ASSUME Inv, NEW seg \in Segments, NEW ofs \in 0 .. LastIP, NEW from \in 0 .. LastIP,
         Iterate(seg, ofs, from), goal' \in Targets \cup {NULL}, Stacks'
  PROVE  Inv'
BY IterateInv, InvPartsNext, Zenon DEF Inv, Flow

LEMMA StayInv == Inv /\ (Other \/ Skip \/ JmpLabel \/ Fatal) => Inv'
<1> SUFFICES ASSUME Inv, Other \/ Skip \/ JmpLabel \/ Fatal
             PROVE  Inv'
  OBVIOUS
<1>1. /\ jmp_seg \in Segments /\ IP \in 0 .. LastIP /\ program \in Segments
      /\ Targets \subseteq 0 .. LastIP /\ 0 \in 0 .. LastIP
  BY Bounds DEF Inv, TypeOK
<1>2. UNCHANGED stacks /\ Stacks'
  <2>1. UNCHANGED stacks
    BY Zenon DEF Other, Skip, JmpLabel, Fatal
  <2> QED
    BY <2>1, StacksUnchanged, InvParts, Zenon
<1>3. CASE Other
  BY <1>1, <1>2, <1>3, StepInv, Zenon DEF Other, Hop
<1>4. CASE Skip
  <2>1. IP + 1 \in 0 .. LastIP
    BY <1>1, <1>4, Bounds DEF Skip, Executes
  <2> QED
    BY <1>1, <1>2, <1>4, <2>1, StepInv, Zenon DEF Skip, Hop
<1>5. CASE JmpLabel
  BY <1>1, <1>2, <1>5, StepInv, Zenon DEF JmpLabel
<1>6. CASE Fatal
  <2>1. Flow'
    BY <1>1, <1>6, Zenon DEF Fatal, Flow
  <2> QED
    BY <1>2, <2>1, InvPartsNext, Zenon
<1> QED
  BY <1>3, <1>4, <1>5, <1>6

LEMMA RetInv == Inv /\ Ret => Inv'
<1> SUFFICES ASSUME Inv, Ret
             PROVE  Inv'
  OBVIOUS
<1>1. /\ jmp_seg \in Segments /\ IP \in 0 .. LastIP /\ program \in Segments
      /\ calls \in Seq(Frames) /\ catchers \in Seq(Blocs) /\ closures \in Seq(Closures)
      /\ catchers' = catchers /\ goal' = NULL /\ WithinBound /\ ClosuresAgree
  BY DEF Inv, TypeOK, Ret, Frames, Blocs
<1>2. CASE calls # <<>>
  <2>1. Len(calls) - 1 \in 0 .. Len(calls) /\ Last(calls) \in Frames
    BY <1>1, <1>2 DEF Last
  <2>2. /\ Last(calls).cs \in Segments
        /\ Last(calls).ip + 1 \in 0 .. LastIP
    BY <2>1, Bounds DEF Frames
  <2>3. PopCallers(Len(calls) - 1) /\ Iterate(Last(calls).cs, Last(calls).ip + 1, IP)
    BY <1>2, Zenon DEF Ret
  <2>4. /\ calls' \in Seq(Frames) /\ Len(calls') = Len(calls) - 1
        /\ closures' \in Seq(Closures) /\ ClosuresAgree'
    BY <2>1, <2>3, PopInv, Zenon
  <2>5. WithinBound'
    BY <1>1, <2>1, <2>4, Bounds DEF WithinBound
  <2>6. Stacks'
    BY <1>1, <2>4, <2>5, Zenon DEF Stacks
  <2> QED
    BY <1>1, <2>2, <2>3, <2>6, StepInv, Zenon
<1>3. CASE calls = <<>>
  <2>1. UNCHANGED <<program, jmp_seg, calls, closures>> /\ alive' = FALSE
    BY <1>3, Zenon DEF Ret
  <2>2. IP' \in 0 .. LastIP
    BY <1>1, <1>3, Bounds DEF Ret, AtEnd
  <2>3. Flow'
    BY <1>1, <2>1, <2>2, Zenon DEF Flow
  <2>4. Stacks'
    BY <1>1, <2>1, InvParts, StacksUnchanged, Zenon DEF stacks
  <2> QED
    BY <2>3, <2>4, InvPartsNext, Zenon
<1> QED
  BY <1>2, <1>3

LEMMA InstCatcherInv == Inv /\ InstCatcher => Inv'
<1> SUFFICES ASSUME Inv, InstCatcher
             PROVE  Inv'
  OBVIOUS
<1>1. /\ jmp_seg \in Segments /\ IP \in 0 .. LastIP /\ program \in Segments
      /\ calls \in Seq(Frames) /\ catchers \in Seq(Blocs) /\ closures \in Seq(Closures)
      /\ calls' = calls /\ closures' = closures /\ goal' = NULL
      /\ 0 \in 0 .. LastIP /\ Hop(IP) /\ ClosuresAgree
  BY Bounds DEF Inv, TypeOK, InstCatcher, Frames, Blocs
<1>2. PICK l \in Targets : catchers' = Append(catchers, [cs |-> program, ip |-> l, depth |-> Depth])
  BY DEF InstCatcher
<1>3. Depth \in 0 .. MaxDepth
  BY <1>1, Bounds DEF Depth, InstCatcher, Bounded
<1>4. [cs |-> program, ip |-> l, depth |-> Depth] \in Blocs
  BY <1>1, <1>3 DEF Blocs
<1>5. catchers' \in Seq(Blocs) /\ Len(catchers') = Len(catchers) + 1
  BY <1>1, <1>2, <1>4
<1>6. WithinBound'
  BY <1>1, <1>5, Bounds DEF WithinBound, InstCatcher, Bounded
<1>7. ClosuresAgree'
  BY <1>1, Zenon DEF ClosuresAgree, Closed
<1>8. Stacks'
  BY <1>1, <1>5, <1>6, <1>7, Zenon DEF Stacks
<1> QED
  BY <1>1, <1>8, StepInv, Zenon DEF Hop

LEMMA UninstCatcherInv == Inv /\ UninstCatcher => Inv'
<1> SUFFICES ASSUME Inv, UninstCatcher
             PROVE  Inv'
  OBVIOUS
<1>1. /\ program \in Segments /\ IP \in 0 .. LastIP /\ Targets \subseteq 0 .. LastIP
      /\ calls \in Seq(Frames) /\ catchers \in Seq(Blocs) /\ closures \in Seq(Closures)
      /\ calls' = calls /\ closures' = closures /\ goal' = NULL /\ catchers # <<>>
      /\ ClosuresAgree /\ WithinBound
  BY Bounds DEF Inv, TypeOK, UninstCatcher, Frames, Blocs
<1>2. catchers' \in Seq(Blocs) /\ Len(catchers') = Len(catchers) - 1
  BY <1>1, FrontPrefix DEF UninstCatcher
<1>3. WithinBound'
  BY <1>1, <1>2, Bounds DEF WithinBound
<1>4. ClosuresAgree'
  BY <1>1, Zenon DEF ClosuresAgree, Closed
<1>5. Stacks'
  BY <1>1, <1>2, <1>3, <1>4, Zenon DEF Stacks
<1>6. PICK l \in Targets : Iterate(program, l, IP)
  BY DEF UninstCatcher
<1> QED
  BY <1>1, <1>5, <1>6, StepInv, Zenon

LEMMA ThrowInv == Inv /\ Throw => Inv'
<1> SUFFICES ASSUME Inv, Throw
             PROVE  Inv'
  OBVIOUS
<1> DEFINE bloc == Last(catchers)
           n == IF Len(calls) > bloc.depth THEN bloc.depth ELSE Len(calls)
<1>1. /\ IP \in 0 .. LastIP /\ Targets \subseteq 0 .. LastIP
      /\ calls \in Seq(Frames) /\ catchers \in Seq(Blocs) /\ catchers # <<>>
      /\ goal' = NULL /\ WithinBound
  BY Bounds DEF Inv, TypeOK, Throw, Frames, Blocs
<1>2. bloc \in Blocs
  BY <1>1 DEF Last
<1>3. PopCallers(n) /\ Iterate(bloc.cs, bloc.ip, IP)
  BY DEF Throw
<1> HIDE DEF bloc
<1>4. bloc.cs \in Segments /\ bloc.ip \in 0 .. LastIP /\ n \in 0 .. Len(calls)
  <2>1. bloc.cs \in Segments /\ bloc.ip \in Targets /\ bloc.depth \in 0 .. MaxDepth
    BY <1>2 DEF Blocs
  <2>2. Len(calls) \in Nat /\ MaxDepth \in Nat
    BY <1>1, Bounds
  <2>3. n \in 0 .. Len(calls)
    BY <2>1, <2>2
  <2>4. bloc.ip \in 0 .. LastIP
    BY <1>1, <2>1, Zenon
  <2> QED
    BY <2>1, <2>3, <2>4
<1> HIDE DEF n
<1>5. /\ calls' \in Seq(Frames) /\ Len(calls') = n
      /\ closures' \in Seq(Closures) /\ ClosuresAgree'
  BY <1>3, <1>4, PopInv, Zenon
<1>6. catchers' \in Seq(Blocs) /\ Len(catchers') = Len(catchers) - 1
  BY <1>1, FrontPrefix DEF Throw
<1>7. WithinBound'
  BY <1>1, <1>4, <1>5, <1>6, Bounds DEF WithinBound
<1>8. Stacks'
  BY <1>5, <1>6, <1>7, Zenon DEF Stacks
<1> QED
  BY <1>1, <1>3, <1>4, <1>8, StepInv, Zenon

LEMMA InitInv == Init => Inv
<1> SUFFICES ASSUME Init
             PROVE  Inv
  OBVIOUS
<1>1. Flow
  BY Bounds DEF Init, Flow
<1>2. Closed(1, 0) = {} /\ Len(calls) = 0 /\ Len(closures) = 0
  BY DEF Init, Closed
<1>3. ClosuresAgree
  BY <1>2, FS_EmptySet, Zenon DEF ClosuresAgree
<1>4. WithinBound /\ calls \in Seq(Frames) /\ closures \in Seq(Closures) /\ catchers \in Seq(Blocs)
  BY Bounds DEF Init, WithinBound
<1> QED
  BY <1>1, <1>3, <1>4, InvParts, Zenon DEF Stacks

LEMMA NextInv == Inv /\ [Next]_vars => Inv'
<1> SUFFICES ASSUME Inv, [Next]_vars
             PROVE  Inv'
  OBVIOUS
<1>1. CASE UNCHANGED vars
  <2>1. Flow' /\ Stacks'
    BY <1>1, InvParts, StacksUnchanged, Zenon DEF vars, Flow
  <2> QED
    BY <2>1, InvPartsNext, Zenon
<1>2. CASE Next
  BY <1>2, StayInv, CallInv, RetInv, InstCatcherInv, UninstCatcherInv, ThrowInv, Zenon DEF Next
<1> QED
  BY <1>1, <1>2, Zenon

\* The invariant holds for any program, whatever labels and closures it uses.
THEOREM FlowInvariance == Spec => []Inv
BY InitInv, NextInv, PTL DEF Spec

\* Every variable keeps its type: IP stays in the segment, also when the last
\* instruction is skipped.
THEOREM FlowTypeCorrect == Spec => []TypeOK
<1>1. Inv => TypeOK
  BY DEF Inv
<1> QED
  BY <1>1, FlowInvariance, PTL

-----------------------------------------------------------------------------
(* Segments.                                                                 *)

LEMMA IterateSegments ==
  ASSUME NEW seg, NEW ofs, NEW from, Iterate(seg, ofs, from),
         ofs # 0 \/ seg = program
  PROVE  SegmentsAgree'
BY Zenon DEF Iterate, Landed, SegmentsAgree

LEMMA NextSegments ==
  ASSUME 0 \notin Targets, Inv, SegmentsAgree, [Next]_vars
  PROVE  SegmentsAgree'
<1>1. \A l \in Targets : l # 0
  OBVIOUS
<1>2. jmp_seg = program
  BY DEF SegmentsAgree
<1>3. CASE Other
  BY <1>2, <1>3, IterateSegments, Zenon DEF Other, Hop
<1>4. CASE Skip
  BY <1>2, <1>4, IterateSegments, Zenon DEF Skip, Hop
<1>5. CASE JmpLabel
  BY <1>1, <1>5, IterateSegments, Zenon DEF JmpLabel
<1>6. ASSUME NEW cs, NEW ip \in Targets, NEW c, Invoke(cs, ip, c)
      PROVE  SegmentsAgree'
  BY <1>1, <1>6, IterateSegments, Zenon DEF Invoke
<1>7. CASE Call
  BY <1>6, <1>7, Zenon DEF Call
<1>8. CASE CallVc
  BY <1>6, <1>8, Zenon DEF CallVc
<1>9. CASE CallLabel
  BY <1>6, <1>9, Zenon DEF CallLabel
<1>10. CASE Ret
  <2>1. CASE calls # <<>>
    <3>1. calls \in Seq(Frames)
      BY DEF Inv, TypeOK, Frames
    <3>2. Last(calls) \in Frames
      BY <2>1, <3>1 DEF Last
    <3>3. Last(calls).ip + 1 # 0
      BY <3>2, Bounds DEF Frames
    <3> QED
      BY <1>10, <2>1, <3>3, IterateSegments, Zenon DEF Ret
  <2>2. CASE calls = <<>>
    BY <1>2, <1>10, <2>2, Zenon DEF Ret, SegmentsAgree
  <2> QED
    BY <2>1, <2>2
<1>11. CASE InstCatcher
  BY <1>2, <1>11, IterateSegments, Zenon DEF InstCatcher, Hop
<1>12. CASE UninstCatcher
  BY <1>12, IterateSegments, Zenon DEF UninstCatcher
<1>13. CASE Throw
  <2>1. catchers \in Seq(Blocs) /\ catchers # <<>>
    BY <1>13 DEF Inv, TypeOK, Blocs, Throw
  <2>2. Last(catchers) \in Blocs
    BY <2>1 DEF Last
  <2>3. Last(catchers).ip # 0
    BY <1>1, <2>2 DEF Blocs
  <2> QED
    BY <1>13, <2>3, IterateSegments, Zenon DEF Throw
<1>14. CASE Fatal \/ UNCHANGED vars
  BY <1>2, <1>14, Zenon DEF Fatal, vars, SegmentsAgree
<1> QED
  BY <1>3, <1>4, <1>5, <1>7, <1>8, <1>9, <1>10, <1>11, <1>12, <1>13, <1>14, Zenon DEF Next

\* jmp_seg is the program that runs whenever no label names the first
\* instruction: jmp and call:Label then stay in their own segment, after any
\* calls, returns and throws.
THEOREM SegmentsCorrect ==
  ASSUME 0 \notin Targets
  PROVE  Spec => []SegmentsAgree
<1>1. Init => SegmentsAgree
  BY DEF Init, SegmentsAgree
<1>2. Inv /\ Inv' /\ SegmentsAgree /\ [Next]_vars => SegmentsAgree'
  BY NextSegments
<1> QED
  BY <1>1, <1>2, FlowInvariance, PTL DEF Spec

-----------------------------------------------------------------------------
(* Catch blocs.                                                              *)

BlocsNested ==
  /\ \A i \in DOMAIN catchers : catchers[i].depth <= Len(calls)
  /\ \A i, j \in DOMAIN catchers : i <= j => catchers[i].depth <= catchers[j].depth

LEMMA BlocTypes ==
  ASSUME Inv
  PROVE  /\ catchers \in Seq(Blocs) /\ calls \in Seq(Frames)
         /\ DOMAIN catchers = 1 .. Len(catchers) /\ Len(catchers) \in Nat
         /\ \A i \in DOMAIN catchers : catchers[i].depth \in Nat
<1>1. catchers \in Seq(Blocs) /\ calls \in Seq(Frames)
  BY DEF Inv, TypeOK, Frames, Blocs
<1>2. DOMAIN catchers = 1 .. Len(catchers) /\ Len(catchers) \in Nat
  BY <1>1
<1>3. \A i \in DOMAIN catchers : catchers[i] \in Blocs
  BY <1>1
<1> QED
  BY <1>1, <1>2, <1>3, Bounds DEF Blocs

\* Steps that keep the catch blocs and pop no call, or only calls inside them.
LEMMA BlocsKept ==
  ASSUME Inv, BlocsNested, catchers' = catchers,
         \A i \in DOMAIN catchers : catchers[i].depth <= Len(calls')
  PROVE  BlocsNested'
BY Zenon DEF BlocsNested

LEMMA NextBlocs ==
  ASSUME Disciplined = TRUE, Inv, Inv', BlocsNested, [Next]_vars
  PROVE  BlocsNested'
<1>1. /\ catchers \in Seq(Blocs) /\ calls \in Seq(Frames)
      /\ DOMAIN catchers = 1 .. Len(catchers) /\ Len(catchers) \in Nat
      /\ \A i \in DOMAIN catchers : catchers[i].depth \in Nat
  BY BlocTypes, Zenon
<1>2. CASE catchers' = catchers /\ calls' = calls
  BY <1>2, BlocsKept, Zenon DEF BlocsNested
<1>3. ASSUME NEW cs, NEW ip, NEW c, Invoke(cs, ip, c)
      PROVE  BlocsNested'
  <2>1. catchers' = catchers
    BY <1>3, Zenon DEF Invoke
  <2>2. Len(calls) \in Nat /\ Len(calls') = Len(calls) + 1
    BY <1>1, <1>3 DEF Invoke
  <2>3. \A i \in DOMAIN catchers : catchers[i].depth <= Len(calls')
    BY <1>1, <2>2 DEF BlocsNested
  <2> QED
    BY <2>1, <2>3, BlocsKept, Zenon
<1>4. CASE Call \/ CallVc \/ CallLabel
  BY <1>3, <1>4, Zenon DEF Call, CallVc, CallLabel
<1>5. CASE Ret /\ calls # <<>>
  <2>1. catchers' = catchers
    BY <1>5, Zenon DEF Ret
  <2>2. \A i \in DOMAIN catchers : catchers[i].depth < Len(calls)
    BY <1>5, Zenon DEF Ret
  <2>3. Len(calls) \in Nat /\ Len(calls) - 1 \in 0 .. Len(calls)
    BY <1>1, <1>5
  <2>4. Len(calls') = Len(calls) - 1
    <3>1. PopCallers(Len(calls) - 1)
      BY <1>5, Zenon DEF Ret
    <3> QED
      BY <2>3, <3>1, PopInv, Zenon
  <2>5. \A i \in DOMAIN catchers : catchers[i].depth <= Len(calls')
    BY <1>1, <2>2, <2>3, <2>4
  <2> QED
    BY <2>1, <2>5, BlocsKept, Zenon
<1>6. CASE InstCatcher
  <2>1. PICK l \in Targets :
          catchers' = Append(catchers, [cs |-> program, ip |-> l, depth |-> Depth])
    BY <1>6 DEF InstCatcher
  <2> DEFINE n == Len(catchers) + 1
             b == [cs |-> program, ip |-> l, depth |-> Depth]
  <2>2. b.depth = Len(calls) /\ Len(calls) \in Nat /\ calls' = calls
    BY <1>1, <1>6 DEF Depth, InstCatcher
  <2>3. catchers' = Append(catchers, b)
    BY <2>1
  <2> HIDE DEF b
  <2>4. /\ DOMAIN catchers' = 1 .. n
        /\ catchers'[n] = b /\ \A i \in DOMAIN catchers : catchers'[i] = catchers[i]
    BY <1>1, <2>3
  <2>5. \A i : i \in 1 .. n <=> i \in DOMAIN catchers \/ i = n
    BY <1>1
  <2>6. \A i \in DOMAIN catchers : i < n /\ ~(n <= i)
    BY <1>1
  <2> HIDE DEF n
  <2>7. \A i \in DOMAIN catchers' : catchers'[i].depth <= Len(calls')
    BY <1>1, <2>2, <2>4, <2>5 DEF BlocsNested
  <2>8. \A i, j \in DOMAIN catchers' : i <= j => catchers'[i].depth <= catchers'[j].depth
    <3> SUFFICES ASSUME NEW i \in 1 .. n, NEW j \in 1 .. n, i <= j
                 PROVE  catchers'[i].depth <= catchers'[j].depth
      BY <2>4, Zenon
    <3>1. CASE j = n
      BY <2>2, <2>4, <2>5, <2>7, <3>1
    <3>2. CASE j # n
      <4>1. i \in DOMAIN catchers /\ j \in DOMAIN catchers
        BY <2>5, <2>6, <3>2, Zenon
      <4> QED
        BY <2>4, <4>1, Zenon DEF BlocsNested
    <3> QED
      BY <3>1, <3>2
  <2> QED
    BY <2>7, <2>8, Zenon DEF BlocsNested
<1>7. ASSUME catchers # <<>>, catchers' = Front(catchers),
             \A i \in 1 .. Len(catchers) - 1 : catchers[i].depth <= Len(calls')
      PROVE  BlocsNested'
  <2>1. /\ catchers' \in Seq(Blocs) /\ Len(catchers') = Len(catchers) - 1
        /\ \A i \in 1 .. Len(catchers) - 1 : catchers'[i] = catchers[i]
    BY <1>1, <1>7, FrontPrefix
  <2>2. DOMAIN catchers' = 1 .. Len(catchers) - 1
    BY <2>1
  <2>3. 1 .. Len(catchers) - 1 \subseteq DOMAIN catchers
    BY <1>1
  <2> QED
    BY <1>7, <2>1, <2>2, <2>3, Zenon DEF BlocsNested
<1>8. CASE UninstCatcher
  <2>1. 1 .. Len(catchers) - 1 \subseteq DOMAIN catchers
    BY <1>1
  <2> QED
    BY <1>7, <1>8, <2>1, Zenon DEF UninstCatcher, BlocsNested
<1>9. CASE Throw
  <2> DEFINE k == Len(catchers)
             n == IF Len(calls) > catchers[k].depth THEN catchers[k].depth ELSE Len(calls)
  <2>1. catchers # <<>> /\ catchers' = Front(catchers) /\ PopCallers(n)
    BY <1>9 DEF Throw, Last
  <2>2. k \in DOMAIN catchers /\ \A i \in 1 .. k - 1 : i \in DOMAIN catchers /\ i <= k
    BY <1>1, <2>1
  <2>3. catchers[k].depth \in Nat /\ Len(calls) \in Nat /\ catchers[k].depth <= Len(calls)
    BY <1>1, <2>2 DEF BlocsNested
  <2>4. n = catchers[k].depth /\ n \in 0 .. Len(calls)
    BY <2>3
  <2>5. Len(calls') = n
    BY <2>1, <2>4, PopInv, Zenon
  <2>6. \A i \in 1 .. k - 1 : catchers[i].depth <= Len(calls')
    BY <2>2, <2>4, <2>5, Zenon DEF BlocsNested
  <2> QED
    BY <1>7, <2>1, <2>6
<1>10. CASE UNCHANGED <<catchers, calls>>
  BY <1>2, <1>10, Zenon
<1> QED
  BY <1>4, <1>5, <1>6, <1>8, <1>9, <1>10, Zenon
     DEF Next, Other, Skip, JmpLabel, Ret, Fatal, vars, stacks

\* Closures and catch blocs belong to calls that are still there, if functions
\* uninstall the blocs that they installed before they return.
THEOREM StacksCorrect ==
  ASSUME Disciplined = TRUE
  PROVE  Spec => []StacksAgree
<1>1. Init => BlocsNested
  BY DEF Init, BlocsNested
<1>2. Inv /\ Inv' /\ BlocsNested /\ [Next]_vars => BlocsNested'
  BY NextBlocs
<1>3. Inv /\ BlocsNested => StacksAgree
  <2> SUFFICES ASSUME Inv, BlocsNested
               PROVE  StacksAgree
    OBVIOUS
  <2>1. /\ DOMAIN catchers = 1 .. Len(catchers) /\ Len(catchers) \in Nat
        /\ calls \in Seq(Frames)
    BY BlocTypes, Zenon
  <2>2. DOMAIN calls = 1 .. Len(calls)
    BY <2>1
  <2>3. Len(closures) = Cardinality({i \in DOMAIN calls : calls[i].has_closure})
    BY <2>2, Zenon DEF Inv, ClosuresAgree, Closed
  <2>4. \A i \in DOMAIN catchers : i > 1 => catchers[i - 1].depth <= catchers[i].depth
    <3> SUFFICES ASSUME NEW i \in DOMAIN catchers, i > 1
                 PROVE  catchers[i - 1].depth <= catchers[i].depth
      OBVIOUS
    <3>1. i - 1 \in DOMAIN catchers /\ i - 1 <= i
      BY <2>1
    <3> QED
      BY <3>1, Zenon DEF BlocsNested
  <2> QED
    BY <2>3, <2>4, Zenon DEF StacksAgree, BlocsNested
<1> QED
  BY <1>1, <1>2, <1>3, FlowInvariance, PTL DEF Spec

-----------------------------------------------------------------------------
(* Sequences that differ at their ends.                                      *)

\* f is a sequence of n members.
List(f, n) == f = [k \in 1 .. n |-> f[k]]

LEMMA ListIsSeq ==
  ASSUME NEW n \in Nat, NEW f, List(f, n)
  PROVE  \E S : f \in Seq(S) /\ Len(f) = n /\ \A k \in 1 .. n : f[k] \in S
<1> DEFINE S == {f[k] : k \in 1 .. n}
<1>1. f = [k \in 1 .. n |-> f[k]]
  BY DEF List
<1>2. \A k \in 1 .. n : f[k] \in S
  OBVIOUS
<1> HIDE DEF S
<1>3. f \in [1 .. n -> S]
  BY <1>1, <1>2
<1>4. f \in Seq(S)
  BY <1>3
<1>5. Len(f) = n
  BY <1>3
<1> QED
  BY <1>2, <1>4, <1>5

LEMMA SeqIsList ==
  ASSUME NEW S, NEW s \in Seq(S)
  PROVE  List(s, Len(s)) /\ Len(s) \in Nat
BY DEF List

LEMMA IsAppend ==
  ASSUME NEW n \in Nat, NEW f, NEW g, List(f, n), List(g, n + 1),
         \A k \in 1 .. n : g[k] = f[k]
  PROVE  g = Append(f, g[n + 1]) /\ Front(g) = f /\ Last(g) = g[n + 1]
<1>1. PICK S : f \in Seq(S) /\ Len(f) = n
  BY ListIsSeq
<1>2. n + 1 \in Nat
  OBVIOUS
<1>3. PICK T : g \in Seq(T) /\ Len(g) = n + 1
  BY <1>2, ListIsSeq
<1>4. f = [k \in 1 .. n |-> f[k]] /\ g = [k \in 1 .. n + 1 |-> g[k]]
  BY DEF List
<1>5. Append(f, g[n + 1]) = [k \in 1 .. n + 1 |-> IF k = n + 1 THEN g[n + 1] ELSE f[k]]
  BY <1>1
<1>6. \A k \in 1 .. n + 1 : g[k] = IF k = n + 1 THEN g[n + 1] ELSE f[k]
  OBVIOUS
<1>7. g = Append(f, g[n + 1])
  BY <1>4, <1>5, <1>6
<1>8. Front(g) = SubSeq(g, 1, n)
  BY <1>3 DEF Front
<1>9. SubSeq(g, 1, n) = [k \in 1 .. n |-> g[k]]
  BY <1>3
<1>10. Front(g) = f
  BY <1>4, <1>8, <1>9
<1> QED
  BY <1>3, <1>7, <1>10 DEF Last

LEMMA IsReplaced ==
  ASSUME NEW n \in Nat, NEW f, NEW g, List(f, n + 1), List(g, n + 1),
         \A k \in 1 .. n : g[k] = f[k]
  PROVE  g = Front(f) \o <<g[n + 1]>> /\ Last(f) = f[n + 1]
<1> DEFINE h == [k \in 1 .. n |-> f[k]]
<1>1. \A k \in 1 .. n : f[k] = h[k] /\ g[k] = h[k]
  OBVIOUS
<1>2. List(h, n)
  BY DEF List
<1> HIDE DEF h
<1>3. Front(f) = h /\ Last(f) = f[n + 1]
  BY <1>1, <1>2, IsAppend
<1>4. g = Append(h, g[n + 1])
  BY <1>1, <1>2, IsAppend
<1>5. PICK S : h \in Seq(S)
  BY <1>2, ListIsSeq
<1>6. Append(h, g[n + 1]) = h \o <<g[n + 1]>>
  <2>1. h \in Seq(S \cup {g[n + 1]}) /\ g[n + 1] \in S \cup {g[n + 1]}
    BY <1>5
  <2> QED
    BY <2>1
<1> QED
  BY <1>3, <1>4, <1>6

-----------------------------------------------------------------------------
(* The catch blocs of an activation.                                         *)

\* How many blocs of b are inside fewer than n calls, and where to those lead
\* that are inside n calls.
Below(b, n) == Cardinality({i \in DOMAIN b : b[i].depth < n})
Place(x) == [seg |-> x.cs, ip |-> x.ip]
CatchOf(b, n) ==
  [i \in 1 .. Below(b, n + 1) - Below(b, n) |-> Place(b[Below(b, n) + i])]

LEMMA BlocSeq ==
  ASSUME NEW b \in Seq(Blocs)
  PROVE  /\ DOMAIN b = 1 .. Len(b) /\ Len(b) \in Nat
         /\ IsFiniteSet(DOMAIN b) /\ Cardinality(DOMAIN b) = Len(b)
         /\ \A i \in DOMAIN b : b[i] \in Blocs /\ b[i].depth \in Nat
<1>1. DOMAIN b = 1 .. Len(b) /\ Len(b) \in Nat /\ 1 \in Int /\ Len(b) \in Int
  OBVIOUS
<1>2. /\ IsFiniteSet(1 .. Len(b))
      /\ Cardinality(1 .. Len(b)) = IF 1 > Len(b) THEN 0 ELSE Len(b) - 1 + 1
  BY <1>1, FS_Interval
<1>3. Cardinality(1 .. Len(b)) = Len(b)
  BY <1>1, <1>2
<1>4. \A i \in DOMAIN b : b[i] \in Blocs
  BY <1>1
<1>5. \A x \in Blocs : x.depth \in Nat
  BY Bounds DEF Blocs
<1> QED
  BY <1>1, <1>2, <1>3, <1>4, <1>5

LEMMA BelowCount ==
  ASSUME NEW b \in Seq(Blocs), NEW n \in Nat
  PROVE  Below(b, n) \in 0 .. Len(b) /\ Below(b, n) <= Below(b, n + 1)
<1> DEFINE U(m) == {i \in DOMAIN b : b[i].depth < m}
<1>1. DOMAIN b = 1 .. Len(b) /\ Len(b) \in Nat
  BY BlocSeq
<1>2. IsFiniteSet(DOMAIN b) /\ Cardinality(DOMAIN b) = Len(b)
  BY BlocSeq
<1>3. \A i \in DOMAIN b : b[i].depth \in Nat
  BY BlocSeq
<1>4. U(n) \subseteq DOMAIN b /\ U(n + 1) \subseteq DOMAIN b /\ U(n) \subseteq U(n + 1)
  BY <1>3
<1> HIDE DEF U
<1>5. /\ IsFiniteSet(U(n)) /\ Cardinality(U(n)) <= Len(b)
      /\ IsFiniteSet(U(n + 1)) /\ Cardinality(U(n)) <= Cardinality(U(n + 1))
  BY <1>2, <1>4, FS_Subset
<1>6. Cardinality(U(n)) \in Nat
  BY <1>5, FS_CardinalityType
<1> QED
  BY <1>1, <1>5, <1>6 DEF Below, U

LEMMA BelowAll ==
  ASSUME NEW b \in Seq(Blocs), NEW n \in Nat, \A i \in DOMAIN b : b[i].depth < n
  PROVE  Below(b, n) = Len(b)
<1>2. {i \in DOMAIN b : b[i].depth < n} = DOMAIN b
  OBVIOUS
<1>3. Cardinality(DOMAIN b) = Len(b)
  BY BlocSeq
<1> QED
  BY <1>2, <1>3 DEF Below

LEMMA BelowAppend ==
  ASSUME NEW b \in Seq(Blocs), NEW x \in Blocs, NEW m \in Nat
  PROVE  Below(Append(b, x), m) = Below(b, m) + IF x.depth < m THEN 1 ELSE 0
<1> DEFINE n == Len(b) + 1
           c == Append(b, x)
           U == {i \in DOMAIN b : b[i].depth < m}
           V == {i \in DOMAIN c : c[i].depth < m}
<1>1. /\ DOMAIN b = 1 .. Len(b) /\ Len(b) \in Nat /\ DOMAIN c = 1 .. n
      /\ c[n] = x /\ \A i \in DOMAIN b : c[i] = b[i]
  OBVIOUS
<1> HIDE DEF c
<1>2. (\A i : i \in 1 .. n <=> i \in DOMAIN b \/ i = n) /\ n \notin DOMAIN b
  BY <1>1
<1> HIDE DEF n
<1>3. IsFiniteSet(DOMAIN b)
  BY BlocSeq
<1>4. U \subseteq DOMAIN b /\ n \notin U
  BY <1>2
<1>5. IsFiniteSet(U)
  BY <1>3, <1>4, FS_Subset
<1>6. Cardinality(U) \in Nat
  BY <1>5, FS_CardinalityType
<1>7. V = IF x.depth < m THEN U \cup {n} ELSE U
  BY <1>1, <1>2
<1>8. Below(c, m) = Cardinality(V) /\ Below(b, m) = Cardinality(U)
  BY DEF Below
<1> HIDE DEF U, V
<1>9. Cardinality(U \cup {n}) = Cardinality(U) + 1
  BY <1>4, <1>5, FS_AddElement
<1>10. Below(c, m) = Below(b, m) + IF x.depth < m THEN 1 ELSE 0
  BY <1>6, <1>7, <1>8, <1>9
<1> QED
  BY <1>10 DEF c

LEMMA CatchTypes ==
  ASSUME NEW b \in Seq(Blocs), NEW n \in Nat
  PROVE  /\ CatchOf(b, n) \in Seq([seg : Segments, ip : Targets])
         /\ Len(CatchOf(b, n)) = Below(b, n + 1) - Below(b, n)
         /\ Len(CatchOf(b, n)) \in Nat
<1> DEFINE lo == Below(b, n)
           hi == Below(b, n + 1)
           k == hi - lo
           P == [seg : Segments, ip : Targets]
<1>1. /\ lo \in 0 .. Len(b) /\ hi \in 0 .. Len(b) /\ lo <= hi
  <2>1. n + 1 \in Nat
    OBVIOUS
  <2> QED
    BY <2>1, BelowCount
<1>2. Len(b) \in Nat /\ \A i \in 1 .. Len(b) : b[i] \in Blocs
  BY BlocSeq
<1>3. CatchOf(b, n) = [i \in 1 .. k |-> Place(b[lo + i])]
  BY DEF CatchOf
<1> HIDE DEF lo, hi
<1>4. k \in Nat /\ \A i \in 1 .. k : lo + i \in 1 .. Len(b)
  BY <1>1, <1>2
<1>5. \A x \in Blocs : Place(x) \in P
  BY DEF Blocs, Place
<1>6. \A i \in 1 .. k : Place(b[lo + i]) \in P
  BY <1>2, <1>4, <1>5
<1> HIDE DEF k, P
<1>7. CatchOf(b, n) \in [1 .. k -> P]
  BY <1>3, <1>6
<1>8. CatchOf(b, n) \in Seq(P) /\ Len(CatchOf(b, n)) = k
  BY <1>4, <1>7
<1> QED
  BY <1>4, <1>8 DEF k, P, lo, hi

\* Inside more calls than any bloc there is none.
LEMMA CatchNone ==
  ASSUME NEW b \in Seq(Blocs), NEW n \in Nat, \A i \in DOMAIN b : b[i].depth < n
  PROVE  CatchOf(b, n) = <<>>
<1>1. n + 1 \in Nat /\ \A i \in DOMAIN b : b[i].depth < n + 1
  BY BlocSeq
<1>2. Below(b, n) = Len(b) /\ Below(b, n + 1) = Len(b) /\ Len(b) \in Nat
  BY <1>1, BelowAll, BlocSeq
<1>3. Len(CatchOf(b, n)) = 0 /\ CatchOf(b, n) \in Seq([seg : Segments, ip : Targets])
  BY <1>2, CatchTypes
<1> QED
  BY <1>3

\* A bloc on top of the others is the last one of its activation and changes no
\* other.
LEMMA CatchAppend ==
  ASSUME NEW b \in Seq(Blocs), NEW x \in Blocs, NEW n \in Nat,
         \A i \in DOMAIN b : b[i].depth <= x.depth
  PROVE  CatchOf(Append(b, x), n) =
           IF n = x.depth THEN Append(CatchOf(b, n), Place(x)) ELSE CatchOf(b, n)
<1> DEFINE c == Append(b, x)
<1>1. /\ c \in Seq(Blocs) /\ Len(c) = Len(b) + 1 /\ Len(b) \in Nat /\ c[Len(b) + 1] = x
      /\ \A i \in 1 .. Len(b) : c[i] = b[i]
  OBVIOUS
<1>2. /\ Below(c, n) = Below(b, n) + IF x.depth < n THEN 1 ELSE 0
      /\ Below(c, n + 1) = Below(b, n + 1) + IF x.depth < n + 1 THEN 1 ELSE 0
  BY BelowAppend
<1> HIDE DEF c
<1>3. x.depth \in Nat /\ n + 1 \in Nat /\ \A i \in DOMAIN b : b[i].depth \in Nat
  <2>1. x.depth \in Nat
    BY Bounds DEF Blocs
  <2> QED
    BY <2>1, BlocSeq
<1>4. /\ Below(b, n) \in 0 .. Len(b) /\ Below(b, n + 1) \in 0 .. Len(b)
      /\ Below(b, n) <= Below(b, n + 1)
  BY <1>3, BelowCount
<1> DEFINE lo == Below(b, n)
           k == Below(b, n + 1) - lo
<1>5. CASE n = x.depth
  <2>1. Below(b, n + 1) = Len(b)
    BY <1>3, <1>5, BelowAll
  <2>2. Below(c, n) = lo /\ Below(c, n + 1) - lo = k + 1 /\ lo + k = Len(b) /\ k \in Nat
    BY <1>2, <1>3, <1>4, <1>5, <2>1
  <2>3. CatchOf(c, n) = [i \in 1 .. k + 1 |-> Place(c[lo + i])]
    BY <2>2 DEF CatchOf
  <2>4. CatchOf(b, n) = [i \in 1 .. k |-> Place(b[lo + i])]
    BY DEF CatchOf
  <2>5. \A i \in 1 .. k : lo + i \in 1 .. Len(b)
    BY <1>4, <2>2
  <2>6. lo + (k + 1) = Len(b) + 1
    BY <1>4, <2>2
  <2> HIDE DEF k, lo
  <2>7. \A i \in 1 .. k : CatchOf(c, n)[i] = CatchOf(b, n)[i]
    <3> TAKE i \in 1 .. k
    <3>1. i \in 1 .. k + 1
      BY <2>2
    <3> QED
      BY <1>1, <2>3, <2>4, <2>5, <3>1
  <2>8. CatchOf(c, n)[k + 1] = Place(x)
    <3>1. k + 1 \in 1 .. k + 1
      BY <2>2
    <3> QED
      BY <1>1, <2>3, <2>6, <3>1
  <2>9. CatchOf(c, n) = Append(CatchOf(b, n), CatchOf(c, n)[k + 1])
    <3>1. List(CatchOf(c, n), k + 1) /\ List(CatchOf(b, n), k)
      BY <2>3, <2>4 DEF List
    <3> QED
      BY <2>2, <2>7, <3>1, IsAppend
  <2> QED
    BY <1>5, <2>8, <2>9 DEF c
<1>6. CASE x.depth < n
  <2>1. \A i \in DOMAIN b : b[i].depth < n
    BY <1>3, <1>6
  <2>2. \A i \in DOMAIN c : c[i].depth < n
    BY <1>1, <1>6, <2>1
  <2>3. CatchOf(b, n) = <<>>
    BY <2>1, CatchNone
  <2>4. CatchOf(c, n) = <<>>
    BY <1>1, <2>2, CatchNone
  <2> QED
    BY <1>3, <1>6, <2>3, <2>4 DEF c
<1>7. CASE n < x.depth
  <2>1. Below(c, n) = lo /\ Below(c, n + 1) - lo = k
    BY <1>2, <1>3, <1>4, <1>7
  <2>2. \A i \in 1 .. k : lo + i \in 1 .. Len(b)
    BY <1>4
  <2>3. CatchOf(c, n) = [i \in 1 .. k |-> Place(c[lo + i])]
    BY <2>1 DEF CatchOf
  <2>4. CatchOf(b, n) = [i \in 1 .. k |-> Place(b[lo + i])]
    BY DEF CatchOf
  <2>5. \A i \in 1 .. k : Place(c[lo + i]) = Place(b[lo + i])
    BY <1>1, <2>2
  <2>6. CatchOf(c, n) = CatchOf(b, n)
    BY <2>3, <2>4, <2>5
  <2> QED
    BY <1>3, <1>7, <2>6 DEF c
<1> QED
  BY <1>3, <1>5, <1>6, <1>7

-----------------------------------------------------------------------------
(* Activations.                                                              *)

\* The parts of ActivationAt.
Site(n) == IF n = 0 THEN NULL ELSE [seg |-> calls[n].cs, ip |-> calls[n].ip]
Sees(n) == IF n = 0 \/ ~calls[n].has_closure THEN NULL ELSE closures[Cardinality(Closed(1, n))]
Act0(n) == [site |-> Site(n), closure |-> Sees(n), catch |-> CatchOf(catchers, n)]
Acts == [k \in 1 .. Len(calls) + 1 |-> ActivationAt(k - 1)]

LEMMA ActivationIs ==
  ASSUME NEW n
  PROVE  /\ ActivationAt(n) = Act0(n)
         /\ ActivationAt(n)' = Act0(n)'
<1>1. ActivationAt(n) = Act0(n)
  BY Zenon DEF ActivationAt, Act0, Site, Sees, CatchOf, Below, Place, Outer, Closed
<1>2. ActivationAt(n)' = Act0(n)'
  BY Zenon DEF ActivationAt, Act0, Site, Sees, CatchOf, Below, Place, Outer, Closed
<1> QED
  BY <1>1, <1>2

LEMMA Act0Parts ==
  ASSUME NEW n
  PROVE  /\ Act0(n)' = [site |-> Site(n)', closure |-> Sees(n)', catch |-> CatchOf(catchers', n)]
         /\ Act0(n).catch = CatchOf(catchers, n)
  BY DEF Act0

\* A call that stays keeps its site and its closure if its closure stays.
LEMMA FrameKept ==
  ASSUME Inv, NEW n \in 0 .. Len(calls),
         \A i \in 1 .. n : calls'[i] = calls[i],
         \A i \in 1 .. Cardinality(Closed(1, n)) : closures'[i] = closures[i]
  PROVE  Site(n)' = Site(n) /\ Sees(n)' = Sees(n)
<1>1. calls \in Seq(Frames) /\ n \in Nat
  BY DEF Inv, TypeOK, Frames
<1>2. CASE n = 0
  BY <1>2 DEF Site, Sees
<1>3. CASE n # 0
  <2>1. n \in 1 .. n /\ calls'[n] = calls[n]
    BY <1>1, <1>3
  <2>2. Closed(1, n)' = Closed(1, n)
    BY Zenon DEF Closed
  <2>3. Site(n)' = Site(n)
    BY <2>1, Zenon DEF Site
  <2>4. CASE calls[n].has_closure
    <3>1. Closed(1, n) # {}
      BY <2>1, <2>4 DEF Closed
    <3>2. IsFiniteSet(Closed(1, n)) /\ Cardinality(Closed(1, n)) \in Nat
      BY <1>1, ClosedCount
    <3>3. Cardinality(Closed(1, n)) # 0
      BY <3>1, <3>2, FS_EmptySet, Zenon
    <3> DEFINE k == Cardinality(Closed(1, n))
    <3>4. k \in 1 .. k
      BY <3>2, <3>3
    <3>5. closures'[k] = closures[k]
      BY <3>4
    <3> HIDE DEF k
    <3>6. Sees(n) = closures[k]
      BY <1>3, <2>4 DEF Sees, k
    <3>7. Sees(n)' = closures'[k]
      BY <1>3, <2>1, <2>2, <2>4, Zenon DEF Sees, k
    <3> QED
      BY <2>3, <3>5, <3>6, <3>7
  <2>5. CASE ~calls[n].has_closure
    BY <2>1, <2>3, <2>5, Zenon DEF Sees
  <2> QED
    BY <2>4, <2>5
<1> QED
  BY <1>2, <1>3

LEMMA FramesPopped ==
  ASSUME Inv, NEW n \in 0 .. Len(calls), PopCallers(n), NEW m \in 0 .. n
  PROVE  Site(m)' = Site(m) /\ Sees(m)' = Sees(m)
<1>1. calls \in Seq(Frames) /\ closures \in Seq(Closures)
  BY DEF Inv, TypeOK, Frames
<1>2. m \in 0 .. Len(calls) /\ m \in Nat /\ n \in Nat /\ Len(calls) \in Nat
      /\ n + 1 \in Nat /\ m + 1 \in Nat /\ 1 \in Nat
  BY <1>1
<1> DEFINE k == Len(closures) - Cardinality(Closed(n + 1, Len(calls)))
<1>3. /\ Cardinality(Closed(1, m)) \in Nat /\ Cardinality(Closed(m + 1, n)) \in Nat
      /\ Cardinality(Closed(1, n)) \in Nat
      /\ Cardinality(Closed(n + 1, Len(calls))) \in Nat
  BY <1>2, ClosedCount
<1>4. /\ Len(closures) = Cardinality(Closed(1, n)) + Cardinality(Closed(n + 1, Len(calls)))
      /\ Cardinality(Closed(1, n)) = Cardinality(Closed(1, m)) + Cardinality(Closed(m + 1, n))
  BY <1>2, ClosedSplit DEF Inv, ClosuresAgree
<1>5. k \in 0 .. Len(closures) /\ Cardinality(Closed(1, m)) <= k
  BY <1>1, <1>3, <1>4
<1>6. closures' = SubSeq(closures, 1, k) /\ calls' = SubSeq(calls, 1, n)
  BY DEF PopCallers, Unwound, Closed
<1> HIDE DEF k
<1>7. \A i \in 1 .. k : closures'[i] = closures[i]
  BY <1>1, <1>5, <1>6, Prefix
<1>8. \A i \in 1 .. n : calls'[i] = calls[i]
  BY <1>1, <1>6, Prefix
<1>9. /\ \A i \in 1 .. m : calls'[i] = calls[i]
      /\ \A i \in 1 .. Cardinality(Closed(1, m)) : closures'[i] = closures[i]
  <2>1. \A i \in 1 .. m : i \in 1 .. n
    BY <1>2
  <2>2. \A i \in 1 .. Cardinality(Closed(1, m)) : i \in 1 .. k
    BY <1>3, <1>5
  <2> QED
    BY <1>7, <1>8, <2>1, <2>2
<1> QED
  BY <1>2, <1>9, FrameKept

LEMMA ActsAre ==
  ASSUME Inv
  PROVE  /\ List(Acts, Len(calls) + 1)
         /\ Len(calls) \in Nat
         /\ \A n \in 0 .. Len(calls) : Acts[n + 1] = Act0(n)
<1>1. Len(calls) \in Nat
  BY DEF Inv, TypeOK
<1>2. \A n \in 0 .. Len(calls) : n + 1 \in 1 .. Len(calls) + 1 /\ (n + 1) - 1 = n
  BY <1>1
<1>3. \A n : ActivationAt(n) = Act0(n)
  BY ActivationIs
<1>4. List(Acts, Len(calls) + 1)
  BY DEF Acts, List
<1>5. \A n \in 0 .. Len(calls) : Acts[n + 1] = Act0(n)
  BY <1>2, <1>3 DEF Acts
<1> QED
  BY <1>1, <1>4, <1>5

LEMMA ActsNext ==
  ASSUME Inv'
  PROVE  /\ List(Acts', Len(calls') + 1)
         /\ Len(calls') \in Nat
         /\ \A n \in 0 .. Len(calls') :
               Acts'[n + 1] = [site |-> Site(n)', closure |-> Sees(n)',
                               catch |-> CatchOf(catchers', n)]
<1>1. Len(calls') \in Nat
  BY DEF Inv, TypeOK
<1>2. \A n \in 0 .. Len(calls') : n + 1 \in 1 .. Len(calls') + 1 /\ (n + 1) - 1 = n
  BY <1>1
<1>3. \A n : ActivationAt(n)' = [site |-> Site(n)', closure |-> Sees(n)',
                                 catch |-> CatchOf(catchers', n)]
  BY ActivationIs, Act0Parts
<1>4. Acts' = [k \in 1 .. Len(calls') + 1 |-> ActivationAt(k - 1)']
  BY DEF Acts
<1>5. List(Acts', Len(calls') + 1)
  BY <1>4 DEF List
<1>6. \A n \in 0 .. Len(calls') :
         Acts'[n + 1] = [site |-> Site(n)', closure |-> Sees(n)', catch |-> CatchOf(catchers', n)]
  BY <1>2, <1>3, <1>4
<1> QED
  BY <1>1, <1>5, <1>6

\* What makes a step of the machine one of Activations.
Maps ==
  /\ Inv /\ Inv' /\ BlocsNested /\ SegmentsAgree
  /\ 0 \notin Targets /\ Disciplined = TRUE

\* A cycle with a jump.
LEMMA Lands ==
  ASSUME NEW seg, NEW ofs, NEW from, Iterate(seg, ofs, from), ofs # 0
  PROVE  program' = seg /\ IP' = ofs /\ alive' = alive
BY Zenon DEF Iterate, Landed

LEMMA StayMaps ==
  ASSUME Maps, alive, Other \/ Skip \/ JmpLabel \/ Fatal
  PROVE  Act!Step \/ Act!Die
<1>1. UNCHANGED stacks
  BY Zenon DEF Other, Skip, JmpLabel, Fatal
<1>2. Acts' = Acts
  BY <1>1, Zenon DEF stacks, Acts, ActivationAt, Outer
<1>3. program' = program
  <2>1. ASSUME NEW ofs, NEW from, Iterate(jmp_seg, ofs, from) PROVE program' = program
    BY <2>1, Zenon DEF Maps, SegmentsAgree, Iterate, Landed
  <2> QED
    BY <2>1, Zenon DEF Other, Skip, JmpLabel, Fatal, Hop
<1>4. alive' = alive \/ alive' = FALSE
  BY DEF Maps, Inv, TypeOK
<1>5. IP' \in 0 .. LastIP
  BY DEF Maps, Inv, TypeOK
<1>6. [seg |-> program, ip |-> IP]' \in [seg : {[seg |-> program, ip |-> IP].seg}, ip : 0 .. LastIP]
  BY <1>3, <1>5
<1> QED
  BY <1>2, <1>4, <1>6, Zenon DEF Act!Step, Act!Die, Acts

LEMMA InvokeMaps ==
  ASSUME Maps, NEW cs \in Segments, NEW ip \in Targets, NEW c \in Closures \cup {NULL},
         Invoke(cs, ip, c)
  PROVE  Act!Call
<1> DEFINE f == [cs |-> program, ip |-> IP, has_closure |-> c # NULL]
           at == [seg |-> program, ip |-> IP]
<1>1. /\ calls \in Seq(Frames) /\ closures \in Seq(Closures) /\ catchers \in Seq(Blocs)
      /\ ip # 0 /\ ip \in 0 .. LastIP /\ NULL \notin Closures
  BY Bounds DEF Maps, Inv, TypeOK, Frames, Blocs
<1>2. /\ calls' = Append(calls, f) /\ catchers' = catchers
      /\ closures' = IF c # NULL THEN Append(closures, c) ELSE closures
      /\ Iterate(cs, ip, IP)
  BY Zenon DEF Invoke
<1>0. PICK n \in Nat : n = Len(calls) + 1
  BY <1>1
<1>3. /\ Len(calls) \in Nat /\ n \in Nat /\ Len(calls') = n /\ calls'[n] = f
      /\ \A i \in 1 .. Len(calls) : calls'[i] = calls[i]
      /\ \A i \in 1 .. Len(closures) : closures'[i] = closures[i]
      /\ c # NULL => Len(closures') = Len(closures) + 1 /\ closures'[Len(closures) + 1] = c
      /\ n # 0
  BY <1>0, <1>1, <1>2
<1>4. Inv /\ Inv' /\ BlocsNested
  BY DEF Maps
\* The calls outside.
<1>5. ASSUME NEW m \in 0 .. Len(calls)
      PROVE  Acts'[m + 1] = Acts[m + 1]
  <2>1. /\ Cardinality(Closed(1, m)) \in Nat
        /\ Cardinality(Closed(m + 1, Len(calls))) \in Nat
    <3>1. m \in Nat /\ m + 1 \in Nat /\ 1 \in Nat
      BY <1>3
    <3> QED
      BY <1>3, <3>1, ClosedCount
  <2>2. Len(closures) = Cardinality(Closed(1, m)) + Cardinality(Closed(m + 1, Len(calls)))
    BY <1>3, <1>4, ClosedSplit DEF Inv, ClosuresAgree
  <2>3. \A i \in 1 .. Cardinality(Closed(1, m)) : i \in 1 .. Len(closures)
    BY <2>1, <2>2
  <2>4. \A i \in 1 .. m : i \in 1 .. Len(calls)
    BY <1>3
  <2>5. Site(m)' = Site(m) /\ Sees(m)' = Sees(m)
    BY <1>3, <1>4, <2>3, <2>4, FrameKept
  <2>6. m \in 0 .. Len(calls')
    BY <1>0, <1>3
  <2> QED
    BY <1>2, <1>4, <2>5, <2>6, ActsAre, ActsNext DEF Act0
\* The new one.
<1>6. Acts'[n + 1] = [site |-> at, closure |-> c, catch |-> <<>>]
  <2>1. Site(n)' = at
    <3>1. calls'[n].cs = program /\ calls'[n].ip = IP
      BY <1>3
    <3> QED
      BY <1>3, <3>1 DEF Site
  <2>2. Sees(n)' = c
    <3>1. CASE c = NULL
      <4>1. f.has_closure = FALSE /\ calls'[n] = f
        BY <1>3, <3>1
      <4> QED
        BY <3>1, <4>1, Zenon DEF Sees
    <3>2. CASE c # NULL
      <4>1. Cardinality(Closed(1, n))' = Len(closures')
        BY <1>3, <1>4, Zenon DEF Inv, ClosuresAgree
      <4>2. Sees(n)' = closures'[Cardinality(Closed(1, n))']
        <5>1. f.has_closure = TRUE /\ calls'[n] = f
          BY <1>3, <3>2
        <5> QED
          BY <1>3, <5>1, Zenon DEF Sees
      <4> QED
        BY <1>3, <3>2, <4>1, <4>2
    <3> QED
      BY <3>1, <3>2
  <2>3. CatchOf(catchers', n) = <<>>
    <3>1. \A i \in DOMAIN catchers : catchers[i].depth < n
      <4>1. \A i \in DOMAIN catchers : catchers[i].depth \in Nat /\ catchers[i].depth <= Len(calls)
        BY <1>4, BlocTypes DEF BlocsNested
      <4> QED
        BY <1>0, <1>3, <4>1
    <3> QED
      BY <1>1, <1>2, <1>3, <3>1, CatchNone
  <2>4. n \in 0 .. Len(calls')
    BY <1>3
  <2> QED
    BY <1>4, <2>1, <2>2, <2>3, <2>4, ActsNext
<1>7. Acts' = Append(Acts, [site |-> at, closure |-> c, catch |-> <<>>])
  <2>1. List(Acts, n) /\ List(Acts', n + 1)
    BY <1>0, <1>3, <1>4, ActsAre, ActsNext
  <2>2. \A k \in 1 .. n : Acts'[k] = Acts[k]
    <3> TAKE k \in 1 .. n
    <3>1. k - 1 \in 0 .. Len(calls) /\ (k - 1) + 1 = k
      BY <1>0, <1>3
    <3> QED
      BY <1>5, <3>1
  <2>3. Acts' = Append(Acts, Acts'[n + 1])
    BY <1>3, <2>1, <2>2, IsAppend
  <2> QED
    BY <1>6, <2>3
<1>8. program' = cs /\ IP' = ip /\ alive' = alive
  BY <1>1, <1>2, Lands, Zenon
<1>9. [seg |-> program, ip |-> IP]' \in [seg : Segments, ip : 0 .. LastIP]
  BY <1>1, <1>8
<1> QED
  BY <1>7, <1>8, <1>9, Zenon DEF Act!Call, Act!Places, Acts

LEMMA RetMaps ==
  ASSUME Maps, alive, Ret
  PROVE  Act!Return \/ Act!Die
<1>1. /\ calls \in Seq(Frames) /\ Len(calls) \in Nat /\ catchers' = catchers
      /\ Inv /\ Inv' /\ IP' \in 0 .. LastIP
  BY DEF Maps, Inv, TypeOK, Frames, Ret
<1>2. CASE calls # <<>>
  <2> DEFINE n == Len(calls) - 1
  <2>1. /\ n \in Nat /\ n \in 0 .. Len(calls) /\ Len(calls) = n + 1
        /\ Last(calls) = calls[Len(calls)]
        /\ calls[Len(calls)] \in Frames /\ Len(calls) # 0
    BY <1>1, <1>2 DEF Last
  <2>2. PopCallers(n) /\ Iterate(Last(calls).cs, Last(calls).ip + 1, IP)
    BY <1>2, Zenon DEF Ret
  <2>3. Len(calls') = n
    BY <1>1, <2>1, <2>2, PopInv
  <2>4. ASSUME NEW m \in 0 .. n
        PROVE  Acts'[m + 1] = Acts[m + 1]
    <3>1. Site(m)' = Site(m) /\ Sees(m)' = Sees(m)
      BY <1>1, <2>1, <2>2, FramesPopped
    <3>2. m \in 0 .. Len(calls)
      BY <2>1
    <3> QED
      BY <1>1, <2>3, <3>1, <3>2, ActsAre, ActsNext DEF Act0
  <2>5. List(Acts, n + 2) /\ List(Acts', n + 1)
    <3>1. Len(calls) + 1 = n + 2
      BY <2>1
    <3> QED
      BY <1>1, <2>3, <3>1, ActsAre, ActsNext
  <2>6. \A k \in 1 .. n + 1 : Acts[k] = Acts'[k]
    <3> TAKE k \in 1 .. n + 1
    <3>1. k - 1 \in 0 .. n /\ (k - 1) + 1 = k
      BY <2>1
    <3> QED
      BY <2>4, <3>1
  <2>7. (n + 1) + 1 = n + 2 /\ n + 1 \in Nat
    BY <2>1
  <2>8. Acts[n + 2] = Act0(Len(calls)) /\ Len(calls) \in 0 .. Len(calls)
    BY <1>1, <2>1, <2>7, ActsAre
  <2> HIDE DEF n
  <2>9. Front(Acts) = Acts' /\ Last(Acts) = Acts[n + 2]
    <3>1. List(Acts, (n + 1) + 1) /\ List(Acts', n + 1)
      BY <2>5, <2>7
    <3> QED
      BY <2>6, <2>7, <3>1, IsAppend
  <2>10. Last(Acts).site = [seg |-> Last(calls).cs, ip |-> Last(calls).ip]
    BY <2>1, <2>8, <2>9 DEF Act0, Site
  <2>11. Last(calls).ip + 1 # 0
    BY <2>1, Bounds DEF Frames
  <2>12. program' = Last(calls).cs /\ IP' = Last(calls).ip + 1 /\ alive' = alive
    BY <2>2, <2>11, Lands, Zenon
  <2>13. [seg |-> program, ip |-> IP]' = [Last(Acts).site EXCEPT !.ip = @ + 1]
    BY <2>10, <2>12
  <2>14. Len(Acts) > 1
    <3>1. Len(Acts) = n + 2
      BY <2>1, <2>5, ListIsSeq
    <3> QED
      BY <2>1, <3>1
  <2> QED
    BY <2>9, <2>12, <2>13, <2>14, Zenon
       DEF Act!Return, Act!Current, Act!Last, Act!Front, Acts, Last, Front
<1>3. CASE calls = <<>>
  <2>1. UNCHANGED <<program, stacks>> /\ alive' = FALSE
    BY <1>1, <1>3, Zenon DEF Ret, stacks
  <2>2. Acts' = Acts
    BY <2>1, Zenon DEF stacks, Acts, ActivationAt, Outer
  <2>3. [seg |-> program, ip |-> IP]'
           \in [seg : {[seg |-> program, ip |-> IP].seg}, ip : 0 .. LastIP]
    BY <1>1, <2>1
  <2> QED
    BY <2>1, <2>2, <2>3, Zenon DEF Act!Die, Acts
<1> QED
  BY <1>2, <1>3

LEMMA AppendEnds ==
  ASSUME NEW S, NEW s \in Seq(S), NEW x \in S
  PROVE  /\ Append(s, x) # <<>> /\ Last(Append(s, x)) = x /\ Front(Append(s, x)) = s
<1> DEFINE g == Append(s, x)
<1>1. /\ g \in Seq(S) /\ Len(g) = Len(s) + 1 /\ Len(s) \in Nat
      /\ g[Len(s) + 1] = x /\ \A k \in 1 .. Len(s) : g[k] = s[k]
  OBVIOUS
<1> HIDE DEF g
<1>2. List(s, Len(s)) /\ List(g, Len(s) + 1)
  <2>1. List(g, Len(g))
    BY <1>1, SeqIsList
  <2> QED
    BY <1>1, <2>1, SeqIsList
<1>3. Front(g) = s /\ Last(g) = x
  BY <1>1, <1>2, IsAppend
<1>4. g # <<>>
  BY <1>1
<1> QED
  BY <1>3, <1>4 DEF g

\* The last catch bloc is the last one of its activation.
LEMMA LastBloc ==
  ASSUME Inv, BlocsNested, catchers # <<>>
  PROVE  LET x == Last(catchers)
         IN  /\ x \in Blocs /\ x.depth \in Nat /\ x.depth <= Len(calls)
             /\ \A i \in DOMAIN catchers : catchers[i].depth <= x.depth
             /\ CatchOf(catchers, x.depth) # <<>>
             /\ Last(CatchOf(catchers, x.depth)) = Place(x)
             /\ Front(CatchOf(catchers, x.depth)) = CatchOf(Front(catchers), x.depth)
             /\ \A n \in Nat : n # x.depth => CatchOf(Front(catchers), n) = CatchOf(catchers, n)
<1> DEFINE x == Last(catchers)
           b == Front(catchers)
           k == Len(catchers)
<1>1. /\ catchers \in Seq(Blocs) /\ DOMAIN catchers = 1 .. k /\ k \in Nat
      /\ \A i \in DOMAIN catchers : catchers[i].depth \in Nat
  BY BlocTypes
<1>2. k \in DOMAIN catchers /\ x = catchers[k] /\ k - 1 \in Nat /\ (k - 1) + 1 = k
  BY <1>1 DEF Last
<1>3. x \in Blocs /\ x.depth \in Nat /\ x.depth <= Len(calls)
  BY <1>1, <1>2 DEF BlocsNested
<1>4. \A i \in DOMAIN catchers : catchers[i].depth <= x.depth
  BY <1>1, <1>2 DEF BlocsNested
<1> HIDE DEF x
<1>5. b \in Seq(Blocs) /\ Len(b) = k - 1 /\ \A i \in 1 .. k - 1 : b[i] = catchers[i]
  BY <1>1, FrontPrefix
<1> HIDE DEF b
<1>6. catchers = Append(b, x)
  <2>1. List(b, k - 1) /\ List(catchers, (k - 1) + 1)
    BY <1>1, <1>2, <1>5, SeqIsList
  <2>2. \A i \in 1 .. k - 1 : catchers[i] = b[i]
    BY <1>5
  <2> HIDE DEF k
  <2> QED
    BY <1>2, <2>1, <2>2, IsAppend
<1>7. \A i \in DOMAIN b : b[i].depth <= x.depth
  <2>1. \A i \in DOMAIN b : i \in DOMAIN catchers /\ b[i] = catchers[i]
    BY <1>1, <1>2, <1>5
  <2> QED
    BY <1>4, <2>1
<1>8. \A n \in Nat : CatchOf(catchers, n) =
         IF n = x.depth THEN Append(CatchOf(b, n), Place(x)) ELSE CatchOf(b, n)
  BY <1>3, <1>5, <1>6, <1>7, CatchAppend
<1>9. CatchOf(b, x.depth) \in Seq([seg : Segments, ip : Targets])
  BY <1>3, <1>5, CatchTypes
<1>10. Place(x) \in [seg : Segments, ip : Targets]
  BY <1>3 DEF Place, Blocs
<1>11. CatchOf(catchers, x.depth) = Append(CatchOf(b, x.depth), Place(x))
  BY <1>3, <1>8
<1>12. /\ CatchOf(catchers, x.depth) # <<>>
       /\ Last(CatchOf(catchers, x.depth)) = Place(x)
       /\ Front(CatchOf(catchers, x.depth)) = CatchOf(b, x.depth)
  <2> DEFINE s == CatchOf(b, x.depth)
  <2>1. Append(s, Place(x)) # <<>> /\ Last(Append(s, Place(x))) = Place(x)
        /\ Front(Append(s, Place(x))) = s
    BY <1>9, <1>10, AppendEnds
  <2> QED
    BY <1>11, <2>1
<1>13. \A n \in Nat : n # x.depth => CatchOf(b, n) = CatchOf(catchers, n)
  BY <1>8
<1> QED
  BY <1>3, <1>4, <1>12, <1>13 DEF x, b

\* Steps that leave the calls alone and change the catch blocs of the current
\* activation.
LEMMA CurrentCatch ==
  ASSUME Maps, UNCHANGED <<calls, closures>>, NEW blocs,
         \A n \in 0 .. Len(calls) :
            CatchOf(catchers', n) = IF n = Len(calls) THEN blocs ELSE CatchOf(catchers, n)
  PROVE  /\ Last(Acts).catch = CatchOf(catchers, Len(calls))
         /\ Acts' = Front(Acts) \o <<[Last(Acts) EXCEPT !.catch = blocs]>>
<1> DEFINE n == Len(calls)
<1>1. Inv /\ Inv' /\ calls' = calls /\ closures' = closures
  BY DEF Maps
<1>2. /\ n \in Nat /\ n \in 0 .. n /\ Len(calls') = n
      /\ List(Acts, n + 1) /\ List(Acts', n + 1)
  BY <1>1, ActsAre, ActsNext
<1>3. ASSUME NEW m \in 0 .. n
      PROVE  /\ Acts[m + 1] = Act0(m)
             /\ Acts'[m + 1] = [site |-> Site(m), closure |-> Sees(m),
                                catch |-> IF m = n THEN blocs ELSE CatchOf(catchers, m)]
  <2>1. Site(m)' = Site(m) /\ Sees(m)' = Sees(m)
    BY <1>1, FrameKept
  <2> QED
    BY <1>1, <1>2, <2>1, ActsAre, ActsNext
<1>4. \A k \in 1 .. n : Acts'[k] = Acts[k]
  <2> TAKE k \in 1 .. n
  <2>1. k - 1 \in 0 .. n /\ (k - 1) + 1 = k /\ k - 1 # n
    BY <1>2
  <2> QED
    BY <1>3, <2>1 DEF Act0
<1> HIDE DEF n
<1>5. Acts' = Front(Acts) \o <<Acts'[n + 1]>> /\ Last(Acts) = Acts[n + 1]
  BY <1>2, <1>4, IsReplaced
<1>6. /\ Acts[n + 1] = Act0(n)
      /\ Acts'[n + 1] = [site |-> Site(n), closure |-> Sees(n), catch |-> blocs]
  BY <1>2, <1>3
<1>7. Acts'[n + 1] = [Acts[n + 1] EXCEPT !.catch = blocs]
  BY <1>6 DEF Act0
<1> QED
  BY <1>5, <1>6, <1>7 DEF Act0, n

LEMMA InstCatcherMaps ==
  ASSUME Maps, InstCatcher
  PROVE  Act!Install
<1>1. PICK l \in Targets : catchers' = Append(catchers, [cs |-> program, ip |-> l, depth |-> Depth])
  BY DEF InstCatcher
<1> DEFINE x == [cs |-> program, ip |-> l, depth |-> Depth]
           n == Len(calls)
           at == [seg |-> program, ip |-> IP]
<1>2. /\ Inv /\ BlocsNested /\ catchers \in Seq(Blocs) /\ n \in Nat
      /\ program \in Segments /\ IP \in 0 .. LastIP /\ n <= MaxDepth
      /\ UNCHANGED <<calls, closures>> /\ alive /\ IP < LastIP
  BY BlocTypes, Bounds DEF Maps, Inv, TypeOK, InstCatcher, WithinBound, Executes
<1>3. x \in Blocs /\ x.depth = n /\ Place(x) = [seg |-> program, ip |-> l]
  BY <1>2, Bounds DEF Blocs, Depth, Place
<1>4. catchers' = Append(catchers, x)
  BY <1>1
<1>5. \A i \in DOMAIN catchers : catchers[i].depth <= x.depth
  BY <1>2, <1>3 DEF BlocsNested
<1> HIDE DEF x
<1> DEFINE blocs == Append(CatchOf(catchers, n), [seg |-> program, ip |-> l])
<1>6. \A m \in 0 .. n : CatchOf(catchers', m) = IF m = n THEN blocs ELSE CatchOf(catchers, m)
  <2>1. \A m \in 0 .. n : m \in Nat
    BY <1>2
  <2> QED
    BY <1>2, <1>3, <1>4, <1>5, <2>1, CatchAppend
<1> HIDE DEF blocs
<1>7. /\ Last(Acts).catch = CatchOf(catchers, n)
      /\ Acts' = Front(Acts) \o <<[Last(Acts) EXCEPT !.catch = blocs]>>
  BY <1>2, <1>6, CurrentCatch
<1>8. program' = program /\ IP' = IP + 1 /\ alive' = alive
  <2>1. Iterate(jmp_seg, 0, IP)
    BY DEF InstCatcher, Hop
  <2>2. IP # LastIP /\ alive = TRUE
    BY <1>2, Bounds DEF Inv, TypeOK
  <2> QED
    BY <2>1, <2>2 DEF Iterate, AtEnd
<1>9. [seg |-> program, ip |-> IP]' = [at EXCEPT !.ip = @ + 1]
  BY <1>8
<1>10. l \in 0 .. LastIP /\ program = at.seg
  BY Bounds
<1>11. blocs = Append(Last(Acts).catch, [seg |-> at.seg, ip |-> l])
  BY <1>7, <1>10 DEF blocs
<1> QED
  BY <1>7, <1>8, <1>9, <1>10, <1>11, Zenon
     DEF Act!Install, Act!WithCatch, Act!Current, Act!Last, Act!Front, Acts, Last, Front

LEMMA UninstCatcherMaps ==
  ASSUME Maps, UninstCatcher
  PROVE  Act!Uninstall
<1> DEFINE n == Len(calls)
           blocs == Front(CatchOf(catchers, n))
<1>1. /\ Inv /\ BlocsNested /\ catchers # <<>> /\ catchers' = Front(catchers)
      /\ Last(catchers).depth = n /\ UNCHANGED <<calls, closures>>
      /\ n \in Nat /\ IP' \in 0 .. LastIP
  BY BlocTypes DEF Maps, Inv, TypeOK, UninstCatcher
<1>2. /\ CatchOf(catchers, n) # <<>>
      /\ \A m \in 0 .. n : CatchOf(catchers', m) = IF m = n THEN blocs ELSE CatchOf(catchers, m)
  <2>1. \A m \in 0 .. n : m \in Nat
    BY <1>1
  <2> QED
    BY <1>1, <2>1, LastBloc
<1> HIDE DEF blocs
<1>3. /\ Last(Acts).catch = CatchOf(catchers, n)
      /\ Acts' = Front(Acts) \o <<[Last(Acts) EXCEPT !.catch = blocs]>>
  BY <1>1, <1>2, CurrentCatch
<1>4. PICK l \in Targets : Iterate(program, l, IP)
  BY DEF UninstCatcher
<1>5. program' = program /\ alive' = alive
  <2>1. l # 0
    BY DEF Maps
  <2> QED
    BY <1>4, <2>1, Lands, Zenon
<1>6. [seg |-> program, ip |-> IP]' \in [seg : {[seg |-> program, ip |-> IP].seg}, ip : 0 .. LastIP]
  BY <1>1, <1>5
<1>7. Last(Acts).catch # <<>> /\ blocs = Front(Last(Acts).catch)
  BY <1>2, <1>3 DEF blocs
<1> QED
  BY <1>3, <1>5, <1>6, <1>7, Zenon
     DEF Act!Uninstall, Act!WithCatch, Act!Current, Act!Last, Act!Front, Acts, Last, Front

\* A sequence that is cut and changed at its end.
LEMMA IsCut ==
  ASSUME NEW n \in Nat, NEW i \in 1 .. n, NEW f, NEW g, NEW x,
         List(f, n), List(g, i),
         \A k \in 1 .. i - 1 : g[k] = f[k],
         g[i] = [f[i] EXCEPT !.catch = x]
  PROVE  g = [SubSeq(f, 1, i) EXCEPT ![i].catch = x]
<1> DEFINE s == SubSeq(f, 1, i)
<1>1. f = [k \in 1 .. n |-> f[k]] /\ g = [k \in 1 .. i |-> g[k]]
  BY DEF List
<1>2. PICK S : f \in Seq(S) /\ Len(f) = n
  BY ListIsSeq
<1>3. s = [k \in 1 .. i |-> f[k]]
  BY <1>2
<1>4. i \in 1 .. i /\ \A k \in 1 .. i : k = i \/ k \in 1 .. i - 1
  OBVIOUS
<1> HIDE DEF s
<1>5. s[i] = f[i] /\ DOMAIN s = 1 .. i
  BY <1>3, <1>4
<1>6. [s EXCEPT ![i].catch = x]
         = [k \in 1 .. i |-> IF k = i THEN [s[i] EXCEPT !.catch = x] ELSE s[k]]
  BY <1>5
<1>7. \A k \in 1 .. i : g[k] = IF k = i THEN [s[i] EXCEPT !.catch = x] ELSE s[k]
  BY <1>3, <1>4, <1>5
<1>8. g = [s EXCEPT ![i].catch = x]
  BY <1>1, <1>6, <1>7
<1> QED
  BY <1>8 DEF s

LEMMA ThrowMaps ==
  ASSUME Maps, Throw
  PROVE  Act!Throw
<1> DEFINE x == Last(catchers)
           d == x.depth
           n == Len(calls) + 1
           blocs == Front(CatchOf(catchers, d))
<1>1. /\ Inv /\ Inv' /\ BlocsNested /\ catchers # <<>> /\ catchers' = Front(catchers)
      /\ Len(calls) \in Nat /\ catchers \in Seq(Blocs)
      /\ \A i \in DOMAIN catchers : catchers[i].depth \in Nat
  BY BlocTypes DEF Maps, Throw, Inv, TypeOK
<1>2. /\ x \in Blocs /\ d \in Nat /\ d <= Len(calls)
      /\ \A i \in DOMAIN catchers : catchers[i].depth <= d
      /\ CatchOf(catchers, d) # <<>> /\ Last(CatchOf(catchers, d)) = Place(x)
      /\ blocs = CatchOf(catchers', d)
      /\ \A m \in Nat : m # d => CatchOf(catchers', m) = CatchOf(catchers, m)
  BY <1>1, LastBloc
<1>3. PopCallers(d) /\ Iterate(x.cs, x.ip, IP)
  <2>1. d = IF Len(calls) > d THEN d ELSE Len(calls)
    BY <1>1, <1>2
  <2> QED
    BY <2>1 DEF Throw
<1> HIDE DEF x, d, blocs
<1>4. d \in 0 .. Len(calls) /\ d + 1 \in 1 .. n /\ n \in Nat /\ d \in 0 .. d
  BY <1>1, <1>2
<1>5. Len(calls') = d
  BY <1>1, <1>3, <1>4, PopInv
<1>6. ASSUME NEW m \in 0 .. d
      PROVE  /\ Acts[m + 1] = Act0(m)
             /\ Acts'[m + 1] = [Act0(m) EXCEPT !.catch = CatchOf(catchers', m)]
  <2>1. Site(m)' = Site(m) /\ Sees(m)' = Sees(m)
    BY <1>1, <1>3, <1>4, FramesPopped
  <2>2. m \in 0 .. Len(calls)
    BY <1>1, <1>2
  <2>3. Acts[m + 1] = Act0(m)
    BY <1>1, <2>2, ActsAre
  <2>4. Acts'[m + 1] = [site |-> Site(m), closure |-> Sees(m), catch |-> CatchOf(catchers', m)]
    BY <1>1, <1>5, <2>1, ActsNext
  <2> QED
    BY <2>3, <2>4 DEF Act0
<1>7. List(Acts, n) /\ List(Acts', d + 1)
  BY <1>1, <1>5, ActsAre, ActsNext
<1>8. \A k \in 1 .. (d + 1) - 1 : Acts'[k] = Acts[k]
  <2> TAKE k \in 1 .. (d + 1) - 1
  <2>1. k - 1 \in 0 .. d /\ (k - 1) + 1 = k /\ k - 1 # d /\ k - 1 \in Nat
    BY <1>2
  <2>2. CatchOf(catchers', k - 1) = CatchOf(catchers, k - 1)
    BY <1>2, <2>1
  <2>3. /\ Acts[k] = Act0(k - 1)
        /\ Acts'[k] = [Act0(k - 1) EXCEPT !.catch = CatchOf(catchers', k - 1)]
    <3>1. /\ Acts[(k - 1) + 1] = Act0(k - 1)
          /\ Acts'[(k - 1) + 1] = [Act0(k - 1) EXCEPT !.catch = CatchOf(catchers', k - 1)]
      BY <1>6, <2>1, Zenon
    <3> QED
      BY <2>1, <3>1, Zenon
  <2>4. [Act0(k - 1) EXCEPT !.catch = CatchOf(catchers', k - 1)] = Act0(k - 1)
    BY <2>2 DEF Act0
  <2> QED
    BY <2>3, <2>4, Zenon
<1>9. /\ Acts[d + 1].catch = CatchOf(catchers, d)
      /\ Acts'[d + 1] = [Acts[d + 1] EXCEPT !.catch = blocs]
  <2>1. Acts[d + 1] = Act0(d) /\ Acts'[d + 1] = [Act0(d) EXCEPT !.catch = CatchOf(catchers', d)]
    BY <1>4, <1>6
  <2> QED
    BY <1>2, <2>1 DEF Act0
<1>10. Acts' = [SubSeq(Acts, 1, d + 1) EXCEPT ![d + 1].catch = blocs]
  <2> HIDE DEF n
  <2> QED
    BY <1>4, <1>7, <1>8, <1>9, IsCut
<1>11. d + 1 \in DOMAIN Acts /\ Len(Acts) = n
  BY <1>4, <1>7, ListIsSeq DEF List
<1>12. ASSUME NEW j \in d + 2 .. n
       PROVE  Acts[j].catch = <<>>
  <2>1. j - 1 \in 0 .. Len(calls) /\ (j - 1) + 1 = j /\ j - 1 \in Nat /\ d < j - 1
    BY <1>1, <1>2
  <2>2. Acts[j] = Act0(j - 1)
    BY <1>1, <2>1, ActsAre
  <2>3. \A i \in DOMAIN catchers : catchers[i].depth < j - 1
    BY <1>1, <1>2, <2>1
  <2>4. CatchOf(catchers, j - 1) = <<>>
    BY <1>1, <2>1, <2>3, CatchNone
  <2> QED
    BY <2>2, <2>4 DEF Act0
<1>13. program' = x.cs /\ IP' = x.ip /\ alive' = alive
  <2>1. x.ip # 0
    BY <1>2 DEF Maps, Blocs
  <2> QED
    BY <1>3, <2>1, Lands, Zenon
<1>14. [seg |-> program, ip |-> IP]' = Last(Acts[d + 1].catch)
  BY <1>2, <1>9, <1>13 DEF Place
<1>15. /\ Acts[d + 1].catch # <<>> /\ (d + 1) + 1 = d + 2
       /\ \A j \in (d + 1) + 1 .. Len(Acts) : Acts[j].catch = <<>>
  BY <1>2, <1>9, <1>11, <1>12
<1>16. Acts' = [SubSeq(Acts, 1, d + 1) EXCEPT ![d + 1].catch = Front(@)]
  <2>1. SubSeq(Acts, 1, d + 1)[d + 1] = Acts[d + 1]
    <3>1. PICK S : Acts \in Seq(S) /\ Len(Acts) = n
      BY <1>4, <1>7, ListIsSeq
    <3> QED
      BY <1>2, <1>4, <3>1
  <2>2. blocs = Front(SubSeq(Acts, 1, d + 1)[d + 1].catch)
    BY <1>9, <2>1 DEF blocs
  <2> QED
    BY <1>10, <2>2
<1>17. alive' = alive
  BY <1>13
<1> HIDE DEF n
<1> QED
  BY <1>11, <1>14, <1>15, <1>16, <1>17, Zenon
     DEF Act!Throw, Act!Catching, Act!Last, Act!Front, Acts, Last, Front

\* Every step of a thread is a step of its activations.
LEMMA NextMaps ==
  ASSUME Maps, [Next]_vars
  PROVE  [Act!Next]_<<[seg |-> program, ip |-> IP],
                      [k \in 1 .. Len(calls) + 1 |-> ActivationAt(k - 1)], alive>>
<1>1. CASE UNCHANGED vars
  <2>1. Acts' = Acts
    BY <1>1, Zenon DEF vars, stacks, Acts, ActivationAt, Outer
  <2>2. program' = program /\ IP' = IP /\ alive' = alive
    BY <1>1 DEF vars
  <2>3. [seg |-> program, ip |-> IP]' = [seg |-> program, ip |-> IP]
    BY <2>2
  <2> QED
    BY <2>1, <2>2, <2>3, Zenon DEF Acts
<1>2. CASE Next
  <2>1. alive
    BY <1>2, Zenon
       DEF Next, Other, Skip, JmpLabel, Call, CallVc, CallLabel, Invoke, Ret, InstCatcher,
           UninstCatcher, Throw, Fatal, Executes
  <2>2. CASE Other \/ Skip \/ JmpLabel \/ Fatal
    BY <2>1, <2>2, StayMaps, Zenon DEF Act!Next
  <2>3. CASE Call \/ CallVc \/ CallLabel
    <3>1. jmp_seg \in Segments
      BY DEF Maps, Inv, TypeOK
    <3>2. Act!Call
      BY <2>3, <3>1, InvokeMaps, Zenon DEF Call, CallVc, CallLabel
    <3> QED
      BY <2>1, <3>2, Zenon DEF Act!Next
  <2>4. CASE Ret
    BY <2>1, <2>4, RetMaps, Zenon DEF Act!Next
  <2>5. CASE InstCatcher
    BY <2>1, <2>5, InstCatcherMaps, Zenon DEF Act!Next
  <2>6. CASE UninstCatcher
    BY <2>1, <2>6, UninstCatcherMaps, Zenon DEF Act!Next
  <2>7. CASE Throw
    BY <2>1, <2>7, ThrowMaps, Zenon DEF Act!Next
  <2> QED
    BY <1>2, <2>2, <2>3, <2>4, <2>5, <2>6, <2>7, Zenon DEF Next
<1> QED
  BY <1>1, <1>2, Zenon

LEMMA InitMaps == Init => Act!Init
<1> SUFFICES ASSUME Init PROVE Act!Init
  OBVIOUS
<1>1. Inv /\ Len(calls) = 0 /\ 0 \in 0 .. Len(calls)
  BY InitInv DEF Init
<1>2. CatchOf(catchers, 0) = <<>>
  <2>1. catchers = <<>> /\ catchers \in Seq(Blocs) /\ 0 \in Nat
    BY DEF Init
  <2>2. DOMAIN catchers = {}
    BY <2>1
  <2>3. \A i \in DOMAIN catchers : catchers[i].depth < 0
    BY <2>2
  <2> QED
    BY <2>1, <2>3, CatchNone, Zenon
<1>3. Acts[1] = [site |-> NULL, closure |-> NULL, catch |-> <<>>]
  BY <1>1, <1>2, ActsAre DEF Act0, Site, Sees
<1>4. Acts = <<[site |-> NULL, closure |-> NULL, catch |-> <<>>]>>
  <2>1. Acts = [k \in 1 .. 1 |-> Acts[k]]
    BY <1>1, ActsAre DEF List
  <2> QED
    BY <1>3, <2>1
<1>5. [seg |-> program, ip |-> IP] \in [seg : Segments, ip : 0 .. LastIP] /\ alive = TRUE
  BY Bounds DEF Init
<1> QED
  BY <1>4, <1>5, Zenon DEF Act!Init, Act!Places, Acts

\* Calls, returns and throws nest for any program whose functions uninstall the
\* catch blocs that they installed, and no others, and whose labels do not name a
\* first instruction: the stacks implement activations.  A return goes on after
\* its own call, a throw ends in the function that installed the bloc, and each
\* function sees its own closure again.
THEOREM ActivationsImplemented ==
  ASSUME Disciplined = TRUE, 0 \notin Targets
  PROVE  Spec => ImplementsActivations
<1>1. Init => Act!Init /\ BlocsNested /\ SegmentsAgree
  BY InitMaps DEF Init, BlocsNested, SegmentsAgree
<1>2. ASSUME Inv, Inv', BlocsNested, SegmentsAgree, [Next]_vars
      PROVE  /\ BlocsNested' /\ SegmentsAgree'
             /\ [Act!Next]_<<[seg |-> program, ip |-> IP],
                            [k \in 1 .. Len(calls) + 1 |-> ActivationAt(k - 1)], alive>>
  <2>1. Maps
    BY <1>2, Zenon DEF Maps
  <2> QED
    BY <1>2, <2>1, NextBlocs, NextSegments, NextMaps
<1> QED
  BY <1>1, <1>2, FlowInvariance, PTL DEF Spec, ImplementsActivations, Act!Spec, Act!vars
=============================================================================
