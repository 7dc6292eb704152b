----------------------------- MODULE RefCountsProofs -----------------------------
(***************************************************************************)
(* The reference counts of RefCounts are right for any number of objects,   *)
(* threads and cells, and programs without call_vc keep the closures of the *)
(* calls under way.                                                         *)
(***************************************************************************)
EXTENDS RefCounts, FiniteSetTheorems, TLAPS

--------------------------------------------------------------------------------
(* The inductive invariant *)

\* A plain store fills a place that is empty by then.
StoresFit ==
    \A i \in DOMAIN todo : todo[i].op = "store" =>
        /\ heap.cell[todo[i].at] = None \/ \E j \in 1..(i - 1) : todo[j].at = todo[i].at
        /\ \A j \in 1..(i - 1) : todo[j].at = todo[i].at => todo[j].op = "drop"

\* What is to be stored is a live object.
StoresLive == \A i \in DOMAIN todo :
    /\ todo[i].v \in Allocated \cup {None}
    /\ todo[i].op = "drop" => todo[i].v = None

\* Place p is empty, or is about to be and to stay so.
Emptied(p) ==
    /\ heap.cell[p] = None \/ \E j \in DOMAIN todo : todo[j].at = p
    /\ \A j \in DOMAIN todo : todo[j].at = p => todo[j].op = "drop"

\* Nothing is held beyond the bounds of a stack or an object.
Clear ==
    /\ \A t \in Threads : \A i \in 1..StackSize[t] : i > depth[t] => Emptied(Data(t, i))
    /\ \A t \in Threads : \A i \in 1..LocalSize[t] : i > locals[t] => Emptied(Local(t, i))
    /\ \A t \in Threads : \A i \in 1..CallDepth[t] : i > Len(frames[t]) => Emptied(Callee(t, i))
    /\ \A o \in Objects : \A i \in 1..Cells : i > size[o] => Emptied(In(o, i))

CellsLive == \A p \in Places : heap.cell[p] \in Allocated \cup {None}

\* The list holds dead objects, each once, and all of them but the one being
\* finalized and those about to be stored.
GcSound ==
    /\ \A i, j \in DOMAIN heap.gc : heap.gc[i] = heap.gc[j] => i = j
    /\ \A i \in DOMAIN heap.gc :
          heap.gc[i] \in Allocated /\ heap.rc[heap.gc[i]] = 0 /\ heap.gc[i] # dying
GcComplete ==
    \A o \in Allocated : heap.rc[o] = 0 =>
        o \in ElementsOf(heap.gc) \/ o = dying \/ \E i \in DOMAIN todo : todo[i].v = o

\* The object being finalized is dead and loses what it holds.
Finalizing ==
    /\ phase = "exec" => todo = <<>> /\ dying = None
    /\ dying # None =>
          /\ dying \in Allocated /\ heap.rc[dying] = 0
          /\ \A i \in DOMAIN todo : todo[i].op = "drop"
          /\ \A i \in 1..Cells : Emptied(In(dying, i))

\* An address that is not in use has no cells, a function has one at most; a call
\* stack keeps to its bound.
Bounds ==
    /\ \A o \in Objects : kind[o] = "free" => size[o] = 0
    /\ \A o \in Objects : kind[o] = "Fun" => size[o] <= 1
    /\ \A t \in Threads : Len(frames[t]) <= CallDepth[t]

IInv ==
    /\ TypeOK
    /\ CountsAgree
    /\ StoresFit
    /\ StoresLive
    /\ Clear
    /\ CellsLive
    /\ GcSound
    /\ GcComplete
    /\ Finalizing
    /\ Bounds

--------------------------------------------------------------------------------
(* The operators                                                            *)

Heaps == [rc : [Objects -> Nat], gc : Seq(Objects), cell : [Places -> Values]]
Distinct(s) == \A i, j \in DOMAIN s : s[i] = s[j] => i = j

\* vm_collect adds the object to the list, once.
LEMMA CollectAdds ==
    ASSUME NEW gc \in Seq(Objects), NEW o \in Objects, Distinct(gc)
    PROVE  /\ Collect(gc, o) \in Seq(Objects)
           /\ Distinct(Collect(gc, o))
           /\ ElementsOf(Collect(gc, o)) = ElementsOf(gc) \cup {o}
<1>1. CASE o \in ElementsOf(gc)
  BY <1>1 DEF Collect, ElementsOf
<1>2. CASE o \notin ElementsOf(gc)
  <2> DEFINE new == <<o>> \o gc
  <2>1. /\ new \in Seq(Objects) /\ Len(new) = Len(gc) + 1 /\ new[1] = o
        /\ \A i \in 1..Len(gc) : new[i + 1] = gc[i]
    OBVIOUS
  <2>2. \A i \in 2..Len(new) : new[i] = gc[i - 1] /\ i - 1 \in DOMAIN gc
    BY <2>1
  <2>3. Collect(gc, o) = new
    BY <1>2 DEF Collect
  <2>4. \A i \in DOMAIN new : i = 1 \/ i \in 2..Len(new)
    BY <2>1
  <2> HIDE DEF new
  <2>5. ElementsOf(new) = ElementsOf(gc) \cup {o}
    <3>1. ElementsOf(new) \subseteq ElementsOf(gc) \cup {o}
      BY <2>1, <2>2, <2>4 DEF ElementsOf
    <3>2. \A i \in DOMAIN gc : i + 1 \in DOMAIN new /\ new[i + 1] = gc[i]
      BY <2>1
    <3>3. 1 \in DOMAIN new
      BY <2>1
    <3>4. \A x \in ElementsOf(gc) : x \in ElementsOf(new)
      BY <3>2 DEF ElementsOf
    <3>5. o \in ElementsOf(new)
      BY <2>1, <3>3 DEF ElementsOf
    <3>6. QED
      BY <3>1, <3>4, <3>5
  <2>6. Distinct(new)
    BY <2>1, <2>2, <2>4, <1>2 DEF Distinct, ElementsOf
  <2>7. QED
    BY <2>1, <2>3, <2>5, <2>6
<1>3. QED
  BY <1>1, <1>2

\* vm_uncollect takes the object off the list.
LEMMA UncollectRemoves ==
    ASSUME NEW gc \in Seq(Objects), NEW o \in Objects, Distinct(gc)
    PROVE  /\ Uncollect(gc, o) \in Seq(Objects)
           /\ Distinct(Uncollect(gc, o))
           /\ ElementsOf(Uncollect(gc, o)) = ElementsOf(gc) \ {o}
<1>1. CASE o \notin ElementsOf(gc)
  BY <1>1 DEF Uncollect, ElementsOf
<1>2. CASE o \in ElementsOf(gc)
  <2> DEFINE First(i) == i \in DOMAIN gc /\ gc[i] = o /\ \A j \in 1..(i - 1) : gc[j] # o
             i0 == CHOOSE i \in DOMAIN gc : gc[i] = o /\ \A j \in 1..(i - 1) : gc[j] # o
             new == [j \in 1..(Len(gc) - 1) |-> IF j < i0 THEN gc[j] ELSE gc[j + 1]]
  <2>1. \E i \in DOMAIN gc : gc[i] = o /\ \A j \in 1..(i - 1) : gc[j] # o
    <3>1. PICK i \in DOMAIN gc : gc[i] = o
      BY <1>2 DEF ElementsOf
    <3>2. \A j \in 1..(i - 1) : gc[j] # o
      BY <3>1 DEF Distinct
    <3>3. QED
      BY <3>1, <3>2
  <2>2. i0 \in DOMAIN gc /\ gc[i0] = o
    BY <2>1
  <2>3. Uncollect(gc, o) = new
    BY <1>2 DEF Uncollect
  <2> HIDE DEF i0
  <2>4. Len(gc) \in Nat /\ DOMAIN gc = 1..Len(gc) /\ i0 \in 1..Len(gc)
    BY <2>2
  <2>5. /\ new \in Seq(Objects) /\ DOMAIN new = 1..(Len(gc) - 1)
        /\ \A j \in 1..(Len(gc) - 1) : new[j] = IF j < i0 THEN gc[j] ELSE gc[j + 1]
    BY <2>4
  <2> HIDE DEF new
  <2>6. \A i, j \in DOMAIN gc : gc[i] = gc[j] => i = j
    BY DEF Distinct
  <2>7. ElementsOf(new) = ElementsOf(gc) \ {o}
    <3>1. ASSUME NEW j \in DOMAIN new PROVE new[j] \in ElementsOf(gc) \ {o}
      <4>1. CASE j < i0
        <5>1. j \in DOMAIN gc /\ new[j] = gc[j] /\ j # i0
          BY <2>4, <2>5, <4>1
        <5>2. QED
          BY <5>1, <2>2, <2>6 DEF ElementsOf
      <4>2. CASE ~(j < i0)
        <5>1. j + 1 \in DOMAIN gc /\ new[j] = gc[j + 1] /\ j + 1 # i0
          BY <2>4, <2>5, <4>2
        <5>2. QED
          BY <5>1, <2>2, <2>6 DEF ElementsOf
      <4>3. QED
        BY <4>1, <4>2
    <3>2. ASSUME NEW i \in DOMAIN gc, gc[i] # o PROVE gc[i] \in ElementsOf(new)
      <4>1. CASE i < i0
        <5>1. i \in DOMAIN new /\ new[i] = gc[i]
          BY <2>4, <2>5, <4>1
        <5>2. QED
          BY <5>1 DEF ElementsOf
      <4>2. CASE i > i0
        <5>1. i - 1 \in DOMAIN new /\ new[i - 1] = gc[i]
          BY <2>4, <2>5, <4>2
        <5>2. QED
          BY <5>1 DEF ElementsOf
      <4>3. QED
        BY <4>1, <4>2, <3>2, <2>2, <2>4
    <3>3. QED
      BY <3>1, <3>2 DEF ElementsOf
  <2>8. Distinct(new)
    <3> SUFFICES ASSUME NEW i \in DOMAIN new, NEW j \in DOMAIN new, new[i] = new[j]
                 PROVE  i = j
      BY DEF Distinct
    <3>1. /\ i \in DOMAIN gc /\ i + 1 \in DOMAIN gc /\ j \in DOMAIN gc /\ j + 1 \in DOMAIN gc
          /\ i \in Nat /\ j \in Nat
      BY <2>4, <2>5
    <3>2. /\ new[i] = IF i < i0 THEN gc[i] ELSE gc[i + 1]
          /\ new[j] = IF j < i0 THEN gc[j] ELSE gc[j + 1]
      BY <2>5
    <3> DEFINE a(k) == IF k < i0 THEN k ELSE k + 1
    <3>3. a(i) \in DOMAIN gc /\ a(j) \in DOMAIN gc /\ gc[a(i)] = gc[a(j)]
      BY <3>1, <3>2
    <3>4. a(i) = a(j)
      BY <3>3, <2>6
    <3>5. i0 \in Nat
      BY <2>4
    <3>6. QED
      BY <3>1, <3>4, <3>5
  <2>9. QED
    BY <2>3, <2>5, <2>7, <2>8
<1>3. QED
  BY <1>1, <1>2

\* Writing v over the value of place p changes the number of holders of an
\* object by what the place gains and loses.
LEMMA Recount ==
    ASSUME NEW h \in Heaps, NEW g \in Heaps, NEW p \in Places, NEW v \in Values,
           NEW o \in Objects, g.cell = [h.cell EXCEPT ![p] = v]
    PROVE  /\ Cardinality(Holders(h, o)) \in Nat
           /\ h.cell[p] = o => Cardinality(Holders(h, o)) > 0
           /\ Cardinality(Holders(g, o)) =
                Cardinality(Holders(h, o)) - (IF h.cell[p] = o THEN 1 ELSE 0)
                                           + (IF v = o THEN 1 ELSE 0)
<1> DEFINE H == Holders(h, o)
           G == Holders(g, o)
<1>1. IsFiniteSet(H) /\ Cardinality(H) \in Nat
  <2>1. H \in SUBSET Places
    BY DEF Holders
  <2>2. QED
    BY <2>1, FinitePlaces, FS_Subset, FS_CardinalityType
<1>2. p \in H <=> h.cell[p] = o
  BY DEF Holders
<1>3. IsFiniteSet(H \ {p}) /\ Cardinality(H \ {p}) = IF p \in H THEN Cardinality(H) - 1 ELSE Cardinality(H)
  BY <1>1, FS_RemoveElement
<1>4. \A q \in Places : g.cell[q] = IF q = p THEN v ELSE h.cell[q]
  BY DEF Heaps
<1>5. G = IF v = o THEN (H \ {p}) \cup {p} ELSE H \ {p}
  BY <1>4 DEF Holders
<1>6. IsFiniteSet((H \ {p}) \cup {p}) /\ Cardinality((H \ {p}) \cup {p}) = Cardinality(H \ {p}) + 1
  BY <1>3, FS_AddElement
<1>7. h.cell[p] = o => Cardinality(H) > 0
  <2>1. Cardinality(H) = 0 <=> H = {}
    BY <1>1, FS_EmptySet
  <2>2. QED
    BY <1>1, <1>2, <2>1
<1> HIDE DEF H, G
<1>8. Cardinality(G) = Cardinality(H) - (IF h.cell[p] = o THEN 1 ELSE 0) + (IF v = o THEN 1 ELSE 0)
  BY <1>1, <1>2, <1>3, <1>5, <1>6, <1>7
<1>9. QED
  BY <1>1, <1>7, <1>8 DEF H, G

\* Taking a reference to v: its count goes up and the list loses it.
LEMMA RefEffect ==
    ASSUME NEW h \in Heaps, NEW v \in Values, Distinct(h.gc),
           \A x \in ElementsOf(h.gc) : h.rc[x] = 0
    PROVE  /\ Ref(h, v) \in Heaps
           /\ Ref(h, v).cell = h.cell
           /\ Distinct(Ref(h, v).gc)
           /\ ElementsOf(Ref(h, v).gc) = ElementsOf(h.gc) \ {v}
           /\ \A o \in Objects : Ref(h, v).rc[o] = h.rc[o] + (IF v = o THEN 1 ELSE 0)
<1>1. CASE v = None
  <2>1. Ref(h, v) = h
    BY <1>1 DEF Ref
  <2>2. v \notin Objects
    BY <1>1, HeapAssumption
  <2>3. ElementsOf(h.gc) \subseteq Objects
    BY DEF Heaps, ElementsOf
  <2>4. QED
    BY <2>1, <2>2, <2>3 DEF Heaps
<1>2. CASE v # None
  <2>1. v \in Objects
    BY <1>2 DEF Values
  <2>2. /\ h.rc \in [Objects -> Nat] /\ h.gc \in Seq(Objects) /\ h.cell \in [Places -> Values]
    BY DEF Heaps
  <2> DEFINE gc == IF h.rc[v] = 0 THEN Uncollect(h.gc, v) ELSE h.gc
             rc == [h.rc EXCEPT ![v] = @ + 1]
  <2>3. Ref(h, v) = [rc |-> rc, gc |-> gc, cell |-> h.cell]
    BY <1>2 DEF Ref, Heaps
  <2>4. gc \in Seq(Objects) /\ Distinct(gc) /\ ElementsOf(gc) = ElementsOf(h.gc) \ {v}
    <3>1. CASE h.rc[v] = 0
      BY <3>1, <2>1, <2>2, UncollectRemoves
    <3>2. CASE h.rc[v] # 0
      BY <3>2, <2>2
    <3>3. QED
      BY <3>1, <3>2
  <2>5. rc \in [Objects -> Nat] /\ \A o \in Objects : rc[o] = h.rc[o] + (IF v = o THEN 1 ELSE 0)
    BY <2>1, <2>2
  <2> HIDE DEF gc, rc
  <2>6. QED
    BY <2>2, <2>3, <2>4, <2>5 DEF Heaps
<1>3. QED
  BY <1>1, <1>2

\* Dropping a reference to v: its count goes down and the list gains it when
\* it was the last one.
LEMMA DerefEffect ==
    ASSUME NEW h \in Heaps, NEW v \in Values, Distinct(h.gc),
           v # None => h.rc[v] > 0
    PROVE  /\ Deref(h, v) \in Heaps
           /\ Deref(h, v).cell = h.cell
           /\ Distinct(Deref(h, v).gc)
           /\ ElementsOf(Deref(h, v).gc) = ElementsOf(h.gc) \cup {o \in Objects : o = v /\ h.rc[o] = 1}
           /\ \A o \in Objects : Deref(h, v).rc[o] = h.rc[o] - (IF v = o THEN 1 ELSE 0)
<1>1. CASE v = None
  <2>1. Deref(h, v) = h
    BY <1>1 DEF Deref
  <2>2. v \notin Objects
    BY <1>1, HeapAssumption
  <2>3. QED
    BY <2>1, <2>2 DEF Heaps
<1>2. CASE v # None
  <2>1. v \in Objects /\ h.rc[v] > 0
    BY <1>2 DEF Values
  <2>2. /\ h.rc \in [Objects -> Nat] /\ h.gc \in Seq(Objects) /\ h.cell \in [Places -> Values]
    BY DEF Heaps
  <2> DEFINE gc == IF h.rc[v] <= 1 THEN Collect(h.gc, v) ELSE h.gc
             rc == [h.rc EXCEPT ![v] = IF @ > 0 THEN @ - 1 ELSE 0]
  <2>3. Deref(h, v) = [rc |-> rc, gc |-> gc, cell |-> h.cell]
    BY <1>2 DEF Deref, Heaps
  <2>4. gc \in Seq(Objects) /\ Distinct(gc)
        /\ ElementsOf(gc) = ElementsOf(h.gc) \cup {o \in Objects : o = v /\ h.rc[o] = 1}
    <3>1. CASE h.rc[v] <= 1
      <4>1. h.rc[v] = 1
        BY <3>1, <2>1, <2>2
      <4>2. {o \in Objects : o = v /\ h.rc[o] = 1} = {v}
        BY <4>1, <2>1
      <4>3. QED
        BY <3>1, <4>2, <2>1, <2>2, CollectAdds
    <3>2. CASE ~(h.rc[v] <= 1)
      <4>1. {o \in Objects : o = v /\ h.rc[o] = 1} = {}
        BY <3>2, <2>1, <2>2
      <4>2. QED
        BY <3>2, <4>1, <2>2
    <3>3. QED
      BY <3>1, <3>2
  <2>5. rc \in [Objects -> Nat] /\ \A o \in Objects : rc[o] = h.rc[o] - (IF v = o THEN 1 ELSE 0)
    BY <2>1, <2>2
  <2> HIDE DEF gc, rc
  <2>6. QED
    BY <2>2, <2>3, <2>4, <2>5 DEF Heaps
<1>3. QED
  BY <1>1, <1>2

\* One step of an opcode, on a heap whose counts are right: the place gets
\* its new value, the counts stay right, and the list gains the old value if
\* nothing holds it any more and loses the new one.
LEMMA DoneEffect ==
    ASSUME NEW h \in Heaps, NEW s \in Steps, Distinct(h.gc),
           \A x \in ElementsOf(h.gc) : h.rc[x] = 0,
           \A o \in Objects : h.rc[o] = Cardinality(Holders(h, o)),
           s.op = "store" => h.cell[s.at] = None,
           s.op = "drop" => s.v = None
    PROVE  LET g == Done(h, s)
               old == h.cell[s.at]
           IN /\ g \in Heaps
              /\ g.cell = [h.cell EXCEPT ![s.at] = s.v]
              /\ Distinct(g.gc)
              /\ \A o \in Objects : g.rc[o] = Cardinality(Holders(g, o))
              /\ ElementsOf(g.gc) = (ElementsOf(h.gc) \cup {o \in Objects : o = old /\ h.rc[o] = 1}) \ {s.v}
                  \/ ElementsOf(g.gc) = (ElementsOf(h.gc) \ {s.v}) \cup {o \in Objects : o = old /\ g.rc[o] = 0}
              /\ \A o \in Objects : g.rc[o] = h.rc[o] - (IF old = o THEN 1 ELSE 0)
                                                      + (IF s.v = o THEN 1 ELSE 0)
<1> DEFINE old == h.cell[s.at]
           n == [h EXCEPT !.cell[s.at] = s.v]
           g == Done(h, s)
<1>1. /\ s.at \in Places /\ s.v \in Values /\ s.op \in {"drop", "store", "put", "refput"}
  BY DEF Steps
<1>2. /\ n \in Heaps /\ n.rc = h.rc /\ n.gc = h.gc /\ n.cell = [h.cell EXCEPT ![s.at] = s.v]
      /\ old \in Values
  BY <1>1 DEF Heaps
<1>3. \A o \in Objects : h.rc[o] \in Nat /\ (old = o => h.rc[o] > 0)
  <2> TAKE o \in Objects
  <2>1. h.cell[s.at] = o => Cardinality(Holders(h, o)) > 0
    <3> HIDE DEF n
    <3>1. QED
      BY <1>1, <1>2, Recount
  <2>2. QED
    BY <2>1 DEF Heaps
<1>4. old # None => n.rc[old] > 0
  BY <1>2, <1>3 DEF Values
<1>9. Distinct(n.gc) /\ \A x \in ElementsOf(n.gc) : n.rc[x] = 0
  <2> HIDE DEF n
  <2>1. QED
    BY <1>2
<1>5. None \notin Objects /\ ElementsOf(h.gc) \subseteq Objects
  BY HeapAssumption DEF Heaps, ElementsOf
<1> DEFINE A(r) == \A o \in Objects : r[o] = h.rc[o] - (IF old = o THEN 1 ELSE 0)
                                                      + (IF s.v = o THEN 1 ELSE 0)
           R1 == (ElementsOf(h.gc) \cup {o \in Objects : o = old /\ h.rc[o] = 1}) \ {s.v}
           R2(r) == (ElementsOf(h.gc) \ {s.v}) \cup {o \in Objects : o = old /\ r[o] = 0}
<1> HIDE DEF n
<1>6. g \in Heaps /\ g.cell = n.cell /\ Distinct(g.gc) /\ A(g.rc) /\ (ElementsOf(g.gc) = R1 \/ ElementsOf(g.gc) = R2(g.rc))
  <2>1. CASE s.op = "drop"
    <3>1. g = Deref(n, old)
      BY <2>1 DEF Done, n
    <3> DEFINE d == Deref(n, old)
    <3>7. /\ d \in Heaps /\ d.cell = n.cell /\ Distinct(d.gc)
          /\ ElementsOf(d.gc) = ElementsOf(n.gc) \cup {o \in Objects : o = old /\ n.rc[o] = 1}
          /\ \A o \in Objects : d.rc[o] = n.rc[o] - (IF old = o THEN 1 ELSE 0)
      BY <1>2, <1>4, <1>9, DerefEffect
    <3>2. /\ g \in Heaps /\ g.cell = n.cell /\ Distinct(g.gc)
          /\ ElementsOf(g.gc) = ElementsOf(n.gc) \cup {o \in Objects : o = old /\ n.rc[o] = 1}
          /\ \A o \in Objects : g.rc[o] = n.rc[o] - (IF old = o THEN 1 ELSE 0)
      BY <3>1, <3>7
    <3>3. s.v \notin Objects
      BY <2>1, <1>5
    <3>4. A(g.rc)
      BY <3>2, <3>3, <1>2, <1>3
    <3>5. ElementsOf(g.gc) = R1
      BY <3>2, <3>3, <1>2, <1>5
    <3>6. QED
      BY <3>2, <3>4, <3>5
  <2>2. CASE s.op = "store"
    <3>1. g = Ref(n, s.v) /\ old = None
      BY <2>2 DEF Done, n
    <3>2. /\ g \in Heaps /\ g.cell = n.cell /\ Distinct(g.gc)
          /\ ElementsOf(g.gc) = ElementsOf(n.gc) \ {s.v}
          /\ \A o \in Objects : g.rc[o] = n.rc[o] + (IF s.v = o THEN 1 ELSE 0)
      BY <3>1, <1>1, <1>2, <1>9, RefEffect
    <3>3. {o \in Objects : o = old /\ h.rc[o] = 1} = {}
      BY <3>1, <1>5
    <3>4. A(g.rc)
      BY <3>1, <3>2, <1>2, <1>3, <1>5
    <3>5. ElementsOf(g.gc) = R1
      BY <3>2, <3>3, <1>2
    <3>6. QED
      BY <3>2, <3>4, <3>5
  <2>3. CASE s.op = "put"
    <3> DEFINE d == Deref(n, old)
    <3>1. g = Ref(d, s.v)
      BY <2>3 DEF Done, n
    <3>2. /\ d \in Heaps /\ d.cell = n.cell /\ Distinct(d.gc)
          /\ ElementsOf(d.gc) = ElementsOf(n.gc) \cup {o \in Objects : o = old /\ n.rc[o] = 1}
          /\ \A o \in Objects : d.rc[o] = n.rc[o] - (IF old = o THEN 1 ELSE 0)
      BY <1>2, <1>4, <1>9, DerefEffect
    <3> HIDE DEF d
    <3>3. \A x \in ElementsOf(d.gc) : d.rc[x] = 0
      BY <3>2, <1>2, <1>3, <1>5
    <3>4. /\ g \in Heaps /\ g.cell = d.cell /\ Distinct(g.gc)
          /\ ElementsOf(g.gc) = ElementsOf(d.gc) \ {s.v}
          /\ \A o \in Objects : g.rc[o] = d.rc[o] + (IF s.v = o THEN 1 ELSE 0)
      BY <3>1, <3>2, <3>3, <1>1, RefEffect
    <3>5. A(g.rc)
      BY <3>2, <3>4, <1>2, <1>3
    <3>6. ElementsOf(g.gc) = R1
      BY <3>2, <3>4, <1>2
    <3>7. QED
      BY <3>2, <3>4, <3>5, <3>6
  <2>4. CASE s.op = "refput"
    <3> DEFINE d == Ref(n, s.v)
    <3>1. g = Deref(d, old)
      BY <2>4 DEF Done, n
    <3>2. /\ d \in Heaps /\ d.cell = n.cell /\ Distinct(d.gc)
          /\ ElementsOf(d.gc) = ElementsOf(n.gc) \ {s.v}
          /\ \A o \in Objects : d.rc[o] = n.rc[o] + (IF s.v = o THEN 1 ELSE 0)
      BY ZenonT(60), <1>1, <1>2, <1>9, RefEffect
    <3> HIDE DEF d
    <3>3. old # None => d.rc[old] > 0
      BY <3>2, <1>2, <1>3 DEF Values
    <3>9. old \in Values /\ Distinct(d.gc)
      BY <3>2, <1>2
    <3>4. /\ g \in Heaps /\ g.cell = d.cell /\ Distinct(g.gc)
          /\ ElementsOf(g.gc) = ElementsOf(d.gc) \cup {o \in Objects : o = old /\ d.rc[o] = 1}
          /\ \A o \in Objects : g.rc[o] = d.rc[o] - (IF old = o THEN 1 ELSE 0)
      BY <3>1, <3>2, <3>3, <3>9, DerefEffect
    <3>5. A(g.rc)
      BY <3>2, <3>4, <1>2, <1>3
    <3>6. \A o \in Objects : o = old => (d.rc[o] = 1 <=> g.rc[o] = 0)
      BY <3>2, <3>4, <1>2, <1>3
    <3>7. ElementsOf(g.gc) = R2(g.rc)
      BY <3>2, <3>4, <3>6, <1>2
    <3>8. QED
      BY <3>2, <3>4, <3>5, <3>7
  <2>5. QED
    BY <2>1, <2>2, <2>3, <2>4, <1>1
<1> HIDE DEF g
<1>7. \A o \in Objects : g.rc[o] = Cardinality(Holders(g, o))
  <2> TAKE o \in Objects
  <2>1. Cardinality(Holders(g, o)) = Cardinality(Holders(h, o))
            - (IF h.cell[s.at] = o THEN 1 ELSE 0) + (IF s.v = o THEN 1 ELSE 0)
    BY <1>1, <1>2, <1>6, Recount
  <2>2. QED
    BY <2>1, <1>6
<1>8. QED
  BY <1>2, <1>6, <1>7 DEF g

--------------------------------------------------------------------------------
(* The steps *)

\* The places of the program.
LEMMA PlaceTypes ==
    /\ \A t \in Threads : \A i \in 1..StackSize[t] : Data(t, i) \in Places
    /\ \A t \in Threads : \A i \in 1..LocalSize[t] : Local(t, i) \in Places
    /\ \A t \in Threads : \A i \in 1..Registers[t] : Reg(t, i) \in Places
    /\ \A t \in Threads : \A i \in 1..CallDepth[t] : Callee(t, i) \in Places
    /\ \A o \in Objects : \A i \in 1..Cells : In(o, i) \in Places
    /\ MemPlaces \subseteq Places
BY DEF Places, DataPlaces, LocalPlaces, RegPlaces, CalleePlaces, MemPlaces, ObjectPlaces

\* Places with different names are different.
LEMMA PlaceNames ==
    /\ \A t, u, i, j : Data(t, i) = Data(u, j) <=> t = u /\ i = j
    /\ \A t, u, i, j : Local(t, i) = Local(u, j) <=> t = u /\ i = j
    /\ \A t, u, i, j : Reg(t, i) = Reg(u, j) <=> t = u /\ i = j
    /\ \A t, u, i, j : Callee(t, i) = Callee(u, j) <=> t = u /\ i = j
    /\ \A t, u, i, j : In(t, i) = In(u, j) <=> t = u /\ i = j
    /\ \A t, u, i, j : /\ Data(t, i) # Local(u, j) /\ Data(t, i) # Reg(u, j)
                       /\ Data(t, i) # Callee(u, j) /\ Data(t, i) # In(u, j)
                       /\ Local(t, i) # Reg(u, j) /\ Local(t, i) # Callee(u, j)
                       /\ Local(t, i) # In(u, j) /\ Reg(t, i) # Callee(u, j)
                       /\ Reg(t, i) # In(u, j) /\ Callee(t, i) # In(u, j)
    /\ \A p \in MemPlaces : \A t, i : /\ p # Data(t, i) /\ p # Local(t, i)
                                      /\ p # Callee(t, i) /\ p # In(t, i)
BY DEF Data, Local, Reg, Callee, In, Mem, MemPlaces

\* An opcode starts the cycle and leaves the heap to its steps.
LEMMA OpcodeShape ==
    ASSUME IInv, NEW t \in Threads, Opcode(t), ~Swap(t)
    PROVE  /\ phase = "exec" /\ todo = <<>> /\ t \in alive
           /\ heap' = heap /\ dying' = dying /\ phase' = "gc"
<1> USE DEF Does
<1>1. CASE Load(t)
  BY <1>1 DEF Load
<1>2. CASE Pop(t)
  BY <1>2 DEF Pop
<1>3. CASE Save(t)
  BY <1>3 DEF Save
<1>4. CASE EnvSave(t)
  BY <1>4 DEF EnvSave
<1>5. CASE Enter(t)
  BY <1>5 DEF Enter
<1>6. CASE Leave(t)
  BY <1>6 DEF Leave
<1>7. CASE Create(t)
  BY <1>7 DEF Create
<1>8. CASE CreateVObj(t)
  BY <1>8 DEF CreateVObj
<1>9. CASE Convert(t)
  BY <1>9 DEF Convert
<1>10. CASE Combine(t)
  BY <1>10 DEF Combine
<1>11. CASE Clone(t)
  BY <1>11 DEF Clone, Cloned
<1>12. CASE CloneVObj(t)
  BY <1>12 DEF CloneVObj
<1>13. CASE Get(t)
  BY <1>13 DEF Get, Contents
<1>14. CASE ArraySet(t)
  BY <1>14 DEF ArraySet
<1>15. CASE MapSet(t)
  BY <1>15 DEF MapSet
<1>16. CASE StackPush(t)
  BY <1>16 DEF StackPush
<1>17. CASE StackPop(t)
  BY <1>17 DEF StackPop
<1>18. CASE AddClosure(t)
  BY <1>18 DEF AddClosure, Cloned
<1>19. CASE FirstClosure(t)
  BY <1>19 DEF FirstClosure
<1>20. CASE Call(t)
  BY <1>20 DEF Call, Enters
<1>21. CASE CallVC(t)
  BY <1>21 DEF CallVC, Enters
<1>22. CASE CallLabel(t)
  BY <1>22 DEF CallLabel, Enters
<1>23. CASE Ret(t)
  BY <1>23 DEF Ret, Leaves
<1>24. CASE RetVal(t)
  BY <1>24 DEF RetVal, Leaves
<1>25. CASE Throw(t)
  BY <1>25 DEF Throw, Leaves
<1>26. CASE NewThread(t)
  BY <1>26 DEF NewThread
<1>27. CASE Exit(t)
  BY <1>27 DEF Exit
<1>28. QED
  BY <1>1, <1>2, <1>3, <1>4, <1>5, <1>6, <1>7, <1>8, <1>9, <1>10, <1>11, <1>12, <1>13, <1>14, <1>15, <1>16, <1>17, <1>18, <1>19, <1>20, <1>21, <1>22, <1>23, <1>24, <1>25, <1>26, <1>27 DEF Opcode

\* An opcode frees nothing, and what it allocates is about to be stored.
LEMMA OpcodeGrows ==
    ASSUME IInv, NEW t \in Threads, Opcode(t), ~Swap(t)
    PROVE  \A o \in Objects : /\ kind[o] # "free" => kind'[o] = kind[o]
                              /\ kind[o] = "free" /\ kind'[o] # "free" => \E i \in DOMAIN todo' : todo'[i].v = o
<1> USE DEF IInv, TypeOK, Does, New, SameHeap, SameFrames, Store, Drop, Put
<1>1. CASE Load(t)
  BY <1>1 DEF Load
<1>2. CASE Pop(t)
  BY <1>2 DEF Pop
<1>3. CASE Save(t)
  BY <1>3 DEF Save
<1>4. CASE EnvSave(t)
  BY <1>4 DEF EnvSave
<1>5. CASE Enter(t)
  BY <1>5 DEF Enter
<1>6. CASE Leave(t)
  BY <1>6 DEF Leave
<1>7. CASE Create(t)
  BY <1>7 DEF Create
<1>8. CASE CreateVObj(t)
  <2>1. PICK o \in Objects, m \in Objects :
          kind[o] = "free" /\ kind[m] = "free" /\ kind' = [kind EXCEPT ![o] = "VObj", ![m] = "Array"] /\ todo' = <<Store(In(o, 1), m), Store(Data(t, depth[t] + 1), o)>>
    BY <1>8 DEF CreateVObj
  <2>2. 1 \in DOMAIN todo' /\ 2 \in DOMAIN todo' /\ todo'[1].v = m /\ todo'[2].v = o
    BY <2>1
  <2>3. QED
    BY <2>1, <2>2
<1>9. CASE Convert(t)
  <2>1. CASE UNCHANGED kind
    BY <2>1
  <2>2. CASE ~ UNCHANGED kind
    <3>1. PICK o \in Objects :
          kind[o] = "free" /\ kind' = [kind EXCEPT ![o] = "Str"] /\ todo' = <<Drop(Top(t, 0)), Store(Top(t, 0), o)>>
      BY <1>9, <2>2 DEF Convert
    <3>2. 2 \in DOMAIN todo' /\ todo'[2].v = o
      BY <3>1
    <3>3. QED
      BY <3>1, <3>2
  <2>3. QED
    BY <2>1, <2>2
<1>10. CASE Combine(t)
  <2>1. CASE UNCHANGED kind
    BY <2>1
  <2>2. CASE ~ UNCHANGED kind
    <3>1. PICK o \in Objects :
          kind[o] = "free" /\ kind' = [kind EXCEPT ![o] = "Str"] /\ todo' = <<Drop(Top(t, 0)), Drop(Top(t, 1)), Store(Top(t, 1), o)>>
      BY <1>10, <2>2 DEF Combine
    <3>2. 3 \in DOMAIN todo' /\ todo'[3].v = o
      BY <3>1
    <3>3. QED
      BY <3>1, <3>2
  <2>3. QED
    BY <2>1, <2>2
<1>11. CASE Clone(t)
  <2>1. CASE UNCHANGED kind
    BY <2>1
  <2>2. CASE ~ UNCHANGED kind
    <3>1. PICK o \in Objects :
          kind[o] = "free" /\ kind' = [kind EXCEPT ![o] = "Str"] /\ todo' = <<Drop(Top(t, 0)), Store(Top(t, 0), o)>>
      BY <1>11, <2>2 DEF Clone, Cloned
    <3>2. 2 \in DOMAIN todo' /\ todo'[2].v = o
      BY <3>1
    <3>3. QED
      BY <3>1, <3>2
  <2>3. QED
    BY <2>1, <2>2
<1>12. CASE CloneVObj(t)
  <2>1. PICK c \in Objects :
          kind[c] = "free" /\ kind' = [kind EXCEPT ![c] = "VObj"] /\ todo' = <<Drop(Top(t, 0)), Store(In(c, 1), At(In(At(Top(t, 0)), 1))), Store(Top(t, 0), c)>>
    BY <1>12 DEF CloneVObj
  <2>2. 3 \in DOMAIN todo' /\ todo'[3].v = c
    BY <2>1
  <2>3. QED
    BY <2>1, <2>2
<1>13. CASE Get(t)
  BY <1>13 DEF Get, Contents
<1>14. CASE ArraySet(t)
  BY <1>14 DEF ArraySet
<1>15. CASE MapSet(t)
  BY <1>15 DEF MapSet
<1>16. CASE StackPush(t)
  BY <1>16 DEF StackPush
<1>17. CASE StackPop(t)
  BY <1>17 DEF StackPop
<1>18. CASE AddClosure(t)
  <2>1. CASE UNCHANGED kind
    BY <2>1
  <2>2. CASE ~ UNCHANGED kind
    <3>1. PICK c \in Objects :
          kind[c] = "free" /\ kind' = [kind EXCEPT ![c] = "Str"] /\ todo' = <<Drop(Top(t, 0)), Store(In(At(In(At(Top(t, 1)), 1)), size[At(In(At(Top(t, 1)), 1))] + 1), c)>>
      BY <1>18, <2>2 DEF AddClosure, Cloned, Values
    <3>2. 2 \in DOMAIN todo' /\ todo'[2].v = c
      BY <3>1
    <3>3. QED
      BY <3>1, <3>2
  <2>3. QED
    BY <2>1, <2>2
<1>19. CASE FirstClosure(t)
  <2>1. PICK a \in Objects, c \in Values :
          /\ a # c
          /\ kind[a] = "free"
          /\ \/ kind' = [kind EXCEPT ![a] = "Array"]
             \/ c # None /\ kind[c] = "free" /\ kind' = [kind EXCEPT ![c] = "Str", ![a] = "Array"]
          /\ todo' = <<Drop(Top(t, 0)), Store(In(At(Top(t, 1)), 1), a), Store(In(a, 1), c)>>
    BY <1>19 DEF FirstClosure, IsA
  <2>2. 2 \in DOMAIN todo' /\ 3 \in DOMAIN todo' /\ todo'[2].v = a /\ todo'[3].v = c
    BY <2>1
  <2>3. CASE kind' = [kind EXCEPT ![a] = "Array"]
    BY <2>1, <2>2, <2>3
  <2>4. CASE c # None /\ kind[c] = "free" /\ kind' = [kind EXCEPT ![c] = "Str", ![a] = "Array"]
    BY <2>1, <2>2, <2>4 DEF Values
  <2>5. QED
    BY <2>1, <2>3, <2>4
<1>20. CASE Call(t)
  BY <1>20 DEF Call, Enters
<1>21. CASE CallVC(t)
  BY <1>21 DEF CallVC, Enters
<1>22. CASE CallLabel(t)
  BY <1>22 DEF CallLabel, Enters
<1>23. CASE Ret(t)
  BY <1>23 DEF Ret, Leaves
<1>24. CASE RetVal(t)
  BY <1>24 DEF RetVal, Leaves
<1>25. CASE Throw(t)
  BY <1>25 DEF Throw, Leaves
<1>26. CASE NewThread(t)
  BY <1>26 DEF NewThread
<1>27. CASE Exit(t)
  BY <1>27 DEF Exit
<1>28. QED
  BY <1>1, <1>2, <1>3, <1>4, <1>5, <1>6, <1>7, <1>8, <1>9, <1>10, <1>11, <1>12, <1>13, <1>14, <1>15, <1>16, <1>17, <1>18, <1>19, <1>20, <1>21, <1>22, <1>23, <1>24, <1>25, <1>26, <1>27 DEF Opcode

\* The steps on them.
LEMMA StepTypes ==
    \A p \in Places, v \in Values :
        Drop(p) \in Steps /\ Store(p, v) \in Steps /\ Put(p, v) \in Steps /\ RefPut(p, v) \in Steps
BY DEF Drop, Store, Put, RefPut, Steps, Values

\* What is known of the state in which an opcode starts.
LEMMA AtExec ==
    ASSUME IInv, todo = <<>>
    PROVE  /\ \A t \in Threads : \A i \in 1..StackSize[t] : i > depth[t] => heap.cell[Data(t, i)] = None
           /\ \A t \in Threads : \A i \in 1..LocalSize[t] : i > locals[t] => heap.cell[Local(t, i)] = None
           /\ \A t \in Threads : \A i \in 1..CallDepth[t] : i > Len(frames[t]) => heap.cell[Callee(t, i)] = None
           /\ \A o \in Objects : \A i \in 1..Cells : i > size[o] => heap.cell[In(o, i)] = None
<1>1. \A p : Emptied(p) => heap.cell[p] = None
  BY DEF Emptied
<1>2. QED
  BY <1>1 DEF IInv, Clear

\* The types of the parts of the state.
LEMMA Typing ==
    ASSUME IInv
    PROVE  /\ heap.rc \in [Objects -> Nat] /\ heap.gc \in Seq(Objects)
           /\ heap.cell \in [Places -> Values]
           /\ \A p \in Places : At(p) \in Values
           /\ \A o \in Objects : size[o] \in 0..Cells /\ size[o] \in Nat
           /\ \A t \in Threads : depth[t] \in Nat /\ depth[t] <= StackSize[t] /\ StackSize[t] \in Nat
           /\ \A t \in Threads : locals[t] \in Nat /\ locals[t] <= LocalSize[t] /\ LocalSize[t] \in Nat
           /\ \A t \in Threads : Len(frames[t]) \in Nat /\ Len(frames[t]) <= CallDepth[t] /\ CallDepth[t] \in Nat
           /\ \A t \in Threads : \A i \in DOMAIN frames[t] : frames[t][i] \in Values
           /\ Cells \in Nat /\ 1 \in 1..Cells
           /\ None \notin Objects
<1> USE DEF IInv, TypeOK, Bounds
<1>1. /\ heap.rc \in [Objects -> Nat] /\ heap.gc \in Seq(Objects) /\ heap.cell \in [Places -> Values]
  OBVIOUS
<1>2. /\ \A o \in Objects : size[o] \in 0..Cells /\ size[o] \in Nat
      /\ Cells \in Nat /\ 1 \in 1..Cells /\ None \notin Objects
  BY HeapAssumption
<1>3. \A t \in Threads : depth[t] \in Nat /\ depth[t] <= StackSize[t] /\ StackSize[t] \in Nat
  BY HeapAssumption
<1>4. \A t \in Threads : locals[t] \in Nat /\ locals[t] <= LocalSize[t] /\ LocalSize[t] \in Nat
  BY HeapAssumption
<1>5. \A t \in Threads : Len(frames[t]) \in Nat /\ Len(frames[t]) <= CallDepth[t] /\ CallDepth[t] \in Nat
  BY HeapAssumption
<1>6. \A t \in Threads : \A i \in DOMAIN frames[t] : frames[t][i] \in Values
  OBVIOUS
<1>7. QED
  BY <1>1, <1>2, <1>3, <1>4, <1>5, <1>6 DEF At

\* The places an opcode names.
LEMMA TopTypes ==
    ASSUME IInv, NEW t \in Threads
    PROVE  /\ depth[t] > 0 => Top(t, 0) \in Places /\ Top(t, 0) = Data(t, depth[t]) /\ At(Top(t, 0)) \in Values
           /\ depth[t] > 1 => Top(t, 1) \in Places /\ Top(t, 1) = Data(t, depth[t] - 1) /\ At(Top(t, 1)) \in Values
           /\ depth[t] + 1 <= StackSize[t] => Data(t, depth[t] + 1) \in Places
           /\ Len(frames[t]) < CallDepth[t] => Callee(t, Len(frames[t]) + 1) \in Places
           /\ frames[t] # <<>> => Len(frames[t]) > 0 /\ Callee(t, Len(frames[t])) \in Places
           /\ locals[t] > 0 => Local(t, locals[t]) \in Places
           /\ \A i \in 1..depth[t] : Data(t, i) \in Places
           /\ \A i \in 1..locals[t] : Local(t, i) \in Places
           /\ \A i \in 1..Len(frames[t]) : Callee(t, i) \in Places
<1>1. /\ depth[t] \in Nat /\ depth[t] <= StackSize[t] /\ StackSize[t] \in Nat
      /\ locals[t] \in Nat /\ locals[t] <= LocalSize[t] /\ LocalSize[t] \in Nat
      /\ Len(frames[t]) \in Nat /\ Len(frames[t]) <= CallDepth[t] /\ CallDepth[t] \in Nat
  BY Typing
<1>2. frames[t] # <<>> => Len(frames[t]) > 0
  BY DEF IInv, TypeOK
<1>3. \A p \in Places : At(p) \in Values
  BY Typing
<1>4. QED
  BY <1>1, <1>2, <1>3, PlaceTypes DEF Top

\* The cells of an object are places.
LEMMA CellTypes ==
    ASSUME IInv, NEW o \in Objects
    PROVE  /\ In(o, 1) \in Places /\ At(In(o, 1)) \in Values
           /\ \A i \in 1..size[o] : In(o, i) \in Places /\ At(In(o, i)) \in Values
           /\ size[o] < Cells => In(o, size[o] + 1) \in Places
           /\ size[o] > 0 => In(o, size[o]) \in Places
           /\ \A i \in 1..Cells : In(o, i) \in Places
<1>1. size[o] \in 0..Cells /\ size[o] \in Nat /\ Cells \in Nat /\ 1 \in 1..Cells
  BY Typing
<1>2. \A p \in Places : At(p) \in Values
  BY Typing
<1>3. QED
  BY <1>1, <1>2, PlaceTypes

\* What an opcode reads and assigns are places.
LEMMA ReadTypes ==
    ASSUME IInv, NEW t \in Threads
    PROVE  /\ Closure(t) \in Values
           /\ Assignable(t) \subseteq Places
           /\ \A p \in Readable(t) : p \in Places /\ At(p) \in Values
<1> DEFINE with == {i \in DOMAIN frames[t] : frames[t][i] # None}
           last == {i \in with : \A j \in with : j <= i}
<1>1. Closure(t) \in Values
  <2>1. \A i \in last : frames[t][i] \in Values
    BY Typing
  <2>2. CASE last = {}
    BY <2>2 DEF Closure, Values
  <2>3. CASE last # {}
    <3>1. (CHOOSE i \in last : TRUE) \in last
      BY <2>3
    <3>2. QED
      BY <2>3, <3>1, <2>1 DEF Closure
  <2>4. QED
    BY <2>2, <2>3
<1>2. Assignable(t) \subseteq Places
  <2>1. \A i \in 1..Registers[t] : Reg(t, i) \in Places
    BY PlaceTypes
  <2>2. Closure(t) # None => CellsOf(Closure(t)) \subseteq Places
    BY <1>1, CellTypes DEF CellsOf, Values
  <2>3. QED
    BY <2>1, <2>2, TopTypes, PlaceTypes DEF Assignable
<1>3. Readable(t) \subseteq Places
  BY <1>2, TopTypes DEF Readable
<1>4. QED
  BY <1>1, <1>2, <1>3, Typing

\* What an opcode leaves to be done are steps.
LEMMA TodoTyped ==
    ASSUME IInv, NEW t \in Threads, Opcode(t), ~Swap(t)
    PROVE  todo' \in Seq(Steps)
<1> USE DEF Does, Values, IsA, New
<1>1. CASE Load(t)
  <2>1. PICK v \in Values : todo' = <<Store(Data(t, depth[t] + 1), v)>> /\ depth[t] + 1 <= StackSize[t]
    BY <1>1, Typing, TopTypes, CellTypes, ReadTypes DEF Load, Depth
  <2>2. QED
    BY <2>1, Typing, TopTypes, CellTypes, PlaceTypes, StepTypes
<1>2. CASE Pop(t)
  BY <1>2, Typing, TopTypes, CellTypes, ReadTypes, StepTypes DEF Pop
<1>3. CASE Save(t)
  BY <1>3, Typing, TopTypes, CellTypes, ReadTypes, StepTypes DEF Save
<1>4. CASE EnvSave(t)
  <2>1. PICK p \in MemPlaces, v \in Values : todo' = <<Drop(Top(t, 0)), RefPut(p, v)>> /\ depth[t] > 0
    BY <1>4, Typing, TopTypes, CellTypes, ReadTypes DEF EnvSave, Depth
  <2>2. QED
    BY <2>1, Typing, TopTypes, CellTypes, PlaceTypes, StepTypes
<1>5. CASE Enter(t)
  BY <1>5, Typing, TopTypes, CellTypes, ReadTypes, StepTypes DEF Enter
<1>6. CASE Leave(t)
  BY <1>6, Typing, TopTypes, CellTypes, ReadTypes, StepTypes DEF Leave
<1>7. CASE Create(t)
  <2>1. PICK v \in Values : todo' = <<Store(Data(t, depth[t] + 1), v)>> /\ depth[t] + 1 <= StackSize[t]
    BY <1>7, Typing, TopTypes, CellTypes, ReadTypes DEF Create, Depth
  <2>2. QED
    BY <2>1, Typing, TopTypes, CellTypes, PlaceTypes, StepTypes
<1>8. CASE CreateVObj(t)
  <2>1. PICK v \in Objects, w \in Objects : todo' = <<Store(In(v, 1), w), Store(Data(t, depth[t] + 1), v)>> /\ depth[t] + 1 <= StackSize[t]
    BY <1>8, Typing, TopTypes, CellTypes, ReadTypes DEF CreateVObj, Depth
  <2>2. QED
    BY <2>1, Typing, TopTypes, CellTypes, PlaceTypes, StepTypes
<1>9. CASE Convert(t)
  <2>1. PICK v \in Values : todo' = <<Drop(Top(t, 0)), Store(Top(t, 0), v)>> /\ depth[t] > 0
    BY <1>9, Typing, TopTypes, CellTypes, ReadTypes DEF Convert, Depth
  <2>2. QED
    BY <2>1, Typing, TopTypes, CellTypes, PlaceTypes, StepTypes
<1>10. CASE Combine(t)
  <2>1. PICK v \in Values : todo' = <<Drop(Top(t, 0)), Drop(Top(t, 1)), Store(Top(t, 1), v)>> /\ depth[t] > 1
    BY <1>10, Typing, TopTypes, CellTypes, ReadTypes DEF Combine, Depth
  <2>2. QED
    BY SMTT(30), <2>1, Typing, TopTypes, CellTypes, PlaceTypes, StepTypes
<1>11. CASE Clone(t)
  BY <1>11, Typing, TopTypes, CellTypes, ReadTypes, StepTypes DEF Clone, Cloned
<1>12. CASE CloneVObj(t)
  BY <1>12, Typing, TopTypes, CellTypes, ReadTypes, StepTypes DEF CloneVObj
<1>13. CASE Get(t)
  BY <1>13, Typing, TopTypes, CellTypes, ReadTypes, StepTypes DEF Get, Contents
<1>14. CASE ArraySet(t)
  BY <1>14, Typing, TopTypes, CellTypes, ReadTypes, StepTypes DEF ArraySet
<1>15. CASE MapSet(t)
  BY <1>15, Typing, TopTypes, CellTypes, ReadTypes, StepTypes DEF MapSet
<1>16. CASE StackPush(t)
  BY <1>16, Typing, TopTypes, CellTypes, ReadTypes, StepTypes DEF StackPush
<1>17. CASE StackPop(t)
  BY <1>17, Typing, TopTypes, CellTypes, ReadTypes, StepTypes DEF StackPop
<1>18. CASE AddClosure(t)
  <2>1. PICK a \in Objects, v \in Values : todo' = <<Drop(Top(t, 0)), Store(In(a, size[a] + 1), v)>> /\ depth[t] > 1 /\ size[a] < Cells
    BY <1>18, Typing, TopTypes, CellTypes, ReadTypes DEF AddClosure, Cloned, Depth
  <2>2. QED
    BY SMTT(30), <2>1, Typing, TopTypes, CellTypes, PlaceTypes, StepTypes
<1>19. CASE FirstClosure(t)
  <2>1. PICK f \in Objects, a \in Objects, v \in Values : todo' = <<Drop(Top(t, 0)), Store(In(f, 1), a), Store(In(a, 1), v)>> /\ depth[t] > 1
    BY <1>19, Typing, TopTypes, CellTypes, ReadTypes DEF FirstClosure, Depth
  <2>2. QED
    BY <2>1, Typing, TopTypes, CellTypes, PlaceTypes, StepTypes
<1>20. CASE Call(t)
  BY <1>20, Typing, TopTypes, CellTypes, ReadTypes, StepTypes DEF Call, Enters
<1>21. CASE CallVC(t)
  BY <1>21, Typing, TopTypes, CellTypes, ReadTypes, StepTypes DEF CallVC, Enters
<1>22. CASE CallLabel(t)
  BY <1>22, Typing, TopTypes, CellTypes, ReadTypes, StepTypes DEF CallLabel, Enters
<1>23. CASE Ret(t)
  <2>1. \/ todo' = <<Drop(Callee(t, Len(frames[t])))>>
        \/ depth[t] > 0 /\ todo' = <<Drop(Top(t, 0)), Drop(Callee(t, Len(frames[t])))>>
    BY <1>23 DEF Ret
  <2>2. Callee(t, Len(frames[t])) \in Places
    BY <1>23, TopTypes DEF Ret
  <2>3. Drop(Callee(t, Len(frames[t]))) \in Steps
    BY <2>2, StepTypes DEF Values
  <2>4. depth[t] > 0 => Drop(Top(t, 0)) \in Steps
    BY TopTypes, StepTypes DEF Values
  <2>5. CASE todo' = <<Drop(Callee(t, Len(frames[t])))>>
    BY <2>5, <2>3
  <2>6. CASE depth[t] > 0 /\ todo' = <<Drop(Top(t, 0)), Drop(Callee(t, Len(frames[t])))>>
    BY <2>6, <2>3, <2>4
  <2>7. QED
    BY <2>1, <2>5, <2>6
<1>24. CASE RetVal(t)
  BY <1>24, Typing, TopTypes, CellTypes, ReadTypes, StepTypes DEF RetVal, Leaves
<1>25. CASE Throw(t)
  <2>1. PICK k \in 0..Len(frames[t]) :
          todo' = <<Drop(Top(t, 0))>>
                  \o [i \in 1..(Len(frames[t]) - k) |-> Drop(Callee(t, Len(frames[t]) + 1 - i))]
    BY <1>25 DEF Throw, Does
  <2> DEFINE n == Len(frames[t])
             rest == [i \in 1..(n - k) |-> Drop(Callee(t, n + 1 - i))]
  <2>2. Drop(Top(t, 0)) \in Steps
    BY <1>25, TopTypes, StepTypes, HeapAssumption DEF Throw, Values
  <2>3. rest \in Seq(Steps)
    <3>1. n \in Nat /\ k \in 0..n /\ n - k \in Nat
      BY Typing
    <3>2. \A i \in 1..(n - k) : n + 1 - i \in 1..n
      BY <3>1
    <3>3. \A i \in 1..(n - k) : Drop(Callee(t, n + 1 - i)) \in Steps
      BY <3>2, TopTypes, StepTypes DEF Values
    <3>4. QED
      BY <3>1, <3>3
  <2> HIDE DEF rest
  <2>4. <<Drop(Top(t, 0))>> \o rest \in Seq(Steps)
    BY <2>2, <2>3
  <2>5. QED
    BY <2>1, <2>4 DEF rest
<1>26. CASE NewThread(t)
  <2>1. PICK u \in Threads, v \in Objects : todo' = <<Drop(Top(t, 0)), Store(Data(u, 1), v)>> /\ depth[t] > 1
    BY <1>26, Typing, TopTypes, CellTypes, ReadTypes DEF NewThread, Depth
  <2>2. Data(u, 1) \in Places
    BY PlaceTypes, HeapAssumption
  <2>3. Drop(Top(t, 0)) \in Steps /\ Store(Data(u, 1), v) \in Steps
    BY SMTT(30), <2>1, <2>2, Typing, TopTypes, StepTypes DEF Values
  <2>4. QED
    BY <2>1, <2>3, Typing, TopTypes, CellTypes, PlaceTypes, StepTypes
<1>27. CASE Exit(t)
  <2> DEFINE a == [i \in 1..locals[t] |-> Drop(Local(t, i))]
             b == [i \in 1..depth[t] |-> Drop(Data(t, i))]
  <2>1. a \in Seq(Steps) /\ b \in Seq(Steps)
    <3>1. locals[t] \in Nat /\ depth[t] \in Nat
      BY Typing
    <3>2. \A i \in 1..locals[t] : Drop(Local(t, i)) \in Steps
      BY TopTypes, StepTypes DEF Values
    <3>3. \A i \in 1..depth[t] : Drop(Data(t, i)) \in Steps
      BY TopTypes, StepTypes DEF Values
    <3>4. QED
      BY <3>1, <3>2, <3>3
  <2>2. todo' = a \o b
    BY <1>27 DEF Exit, Does
  <2> HIDE DEF a, b
  <2>3. QED
    BY <2>1, <2>2
<1>28. QED
  BY <1>1, <1>2, <1>3, <1>4, <1>5, <1>6, <1>7, <1>8, <1>9, <1>10, <1>11, <1>12, <1>13, <1>14, <1>15, <1>16, <1>17, <1>18, <1>19, <1>20, <1>21, <1>22, <1>23, <1>24, <1>25, <1>26, <1>27 DEF Opcode

\* The types of the other variables an opcode writes.
LEMMA KindTyped ==
    ASSUME IInv, NEW t \in Threads, Opcode(t), ~Swap(t)
    PROVE  kind' \in [Objects -> Kinds \cup {"free"}]
<1> USE DEF IInv, TypeOK, SameHeap, SameFrames, New, Does
<1>1. CASE Load(t)
  BY <1>1, Typing DEF Load
<1>2. CASE Pop(t)
  BY <1>2, Typing DEF Pop
<1>3. CASE Save(t)
  BY <1>3, Typing DEF Save
<1>4. CASE EnvSave(t)
  BY <1>4, Typing DEF EnvSave
<1>5. CASE Enter(t)
  BY <1>5, Typing DEF Enter
<1>6. CASE Leave(t)
  BY <1>6, Typing DEF Leave
<1>7. CASE Create(t)
  BY <1>7, Typing DEF Create, Kinds
<1>8. CASE CreateVObj(t)
  BY <1>8, Typing DEF CreateVObj, Kinds
<1>9. CASE Convert(t)
  BY <1>9, Typing DEF Convert, Kinds
<1>10. CASE Combine(t)
  BY <1>10, Typing DEF Combine, Kinds
<1>11. CASE Clone(t)
  BY <1>11, Typing DEF Clone, Cloned, Kinds
<1>12. CASE CloneVObj(t)
  BY <1>12, Typing DEF CloneVObj, Kinds
<1>13. CASE Get(t)
  BY <1>13, Typing DEF Get, Contents
<1>14. CASE ArraySet(t)
  BY <1>14, Typing DEF ArraySet
<1>15. CASE MapSet(t)
  BY <1>15, Typing DEF MapSet
<1>16. CASE StackPush(t)
  BY <1>16, Typing DEF StackPush
<1>17. CASE StackPop(t)
  BY <1>17, Typing DEF StackPop
<1>18. CASE AddClosure(t)
  BY <1>18, Typing DEF AddClosure, Cloned, Kinds
<1>19. CASE FirstClosure(t)
  BY <1>19, Typing DEF FirstClosure, Kinds
<1>20. CASE Call(t)
  BY <1>20, Typing DEF Call, Enters
<1>21. CASE CallVC(t)
  BY <1>21, Typing DEF CallVC, Enters
<1>22. CASE CallLabel(t)
  BY <1>22, Typing DEF CallLabel, Enters
<1>23. CASE Ret(t)
  BY <1>23, Typing DEF Ret, Leaves
<1>24. CASE RetVal(t)
  BY <1>24, Typing DEF RetVal, Leaves
<1>25. CASE Throw(t)
  BY <1>25, Typing DEF Throw, Leaves
<1>26. CASE NewThread(t)
  BY <1>26, Typing DEF NewThread
<1>27. CASE Exit(t)
  BY <1>27, Typing DEF Exit
<1>28. QED
  BY <1>1, <1>2, <1>3, <1>4, <1>5, <1>6, <1>7, <1>8, <1>9, <1>10, <1>11, <1>12, <1>13, <1>14, <1>15, <1>16, <1>17, <1>18, <1>19, <1>20, <1>21, <1>22, <1>23, <1>24, <1>25, <1>26, <1>27 DEF Opcode

\* An update of the sizes of objects.
LEMMA SizeUpdate ==
    ASSUME IInv
    PROVE  /\ size' = size => size' \in [Objects -> 0..Cells]
           /\ \A o \in Objects : \A n \in 0..Cells :
                 size' = [size EXCEPT ![o] = n] => size' \in [Objects -> 0..Cells]
           /\ \A o, a \in Objects : \A n, m \in 0..Cells :
                 size' = [size EXCEPT ![o] = n, ![a] = m] => size' \in [Objects -> 0..Cells]
BY DEF IInv, TypeOK

\* Objects keep to their cells.
LEMMA SizeTyped ==
    ASSUME IInv, NEW t \in Threads, Opcode(t), ~Swap(t)
    PROVE  size' \in [Objects -> 0..Cells]
<1> USE DEF SameHeap
<1>1. CASE Load(t)
  BY <1>1, SizeUpdate DEF Load
<1>2. CASE Pop(t)
  BY <1>2, SizeUpdate DEF Pop
<1>3. CASE Save(t)
  BY <1>3, SizeUpdate DEF Save
<1>4. CASE EnvSave(t)
  BY <1>4, SizeUpdate DEF EnvSave
<1>5. CASE Enter(t)
  BY <1>5, SizeUpdate DEF Enter
<1>6. CASE Leave(t)
  BY <1>6, SizeUpdate DEF Leave
<1>7. CASE Create(t)
  BY <1>7, SizeUpdate DEF Create
<1>8. CASE CreateVObj(t)
  <2>1. PICK o \in Objects : size' = [size EXCEPT ![o] = 1]
    BY <1>8, TopTypes, Typing DEF CreateVObj, IsA, Values
  <2>2. 1 \in 0..Cells
    BY Typing
  <2>3. QED
    BY <2>1, <2>2, SizeUpdate
<1>9. CASE Convert(t)
  BY <1>9, SizeUpdate DEF Convert
<1>10. CASE Combine(t)
  BY <1>10, SizeUpdate DEF Combine
<1>11. CASE Clone(t)
  BY <1>11, SizeUpdate DEF Clone, Cloned
<1>12. CASE CloneVObj(t)
  <2>1. PICK o \in Objects : size' = [size EXCEPT ![o] = 1]
    BY <1>12, TopTypes, Typing DEF CloneVObj, IsA, Values
  <2>2. 1 \in 0..Cells
    BY Typing
  <2>3. QED
    BY <2>1, <2>2, SizeUpdate
<1>13. CASE Get(t)
  BY <1>13, SizeUpdate DEF Get, Contents
<1>14. CASE ArraySet(t)
  <2> DEFINE a == At(Top(t, 1))
  <2>1. a \in Objects
    BY <1>14, Typing, TopTypes, CellTypes DEF ArraySet, IsA, Values
  <2>2. PICK i \in 1..Cells : size' = [size EXCEPT ![a] = IF i > size[a] THEN i ELSE size[a]]
    BY <1>14 DEF ArraySet
  <2>3. size[a] \in 0..Cells /\ Cells \in Nat
    BY <2>1, Typing
  <2> HIDE DEF a
  <2>4. (IF i > size[a] THEN i ELSE size[a]) \in 0..Cells
    BY <2>2, <2>3
  <2>5. QED
    BY <2>1, <2>2, <2>4, SizeUpdate
<1>15. CASE MapSet(t)
  <2> DEFINE a == At(Top(t, 0))
  <2>1. a \in Objects
    BY <1>15, Typing, TopTypes, CellTypes DEF MapSet, IsA, Values
  <2>2. PICK i \in 1..Cells : size' = [size EXCEPT ![a] = IF i > size[a] THEN i ELSE size[a]]
    BY <1>15 DEF MapSet
  <2>3. size[a] \in 0..Cells /\ Cells \in Nat
    BY <2>1, Typing
  <2> HIDE DEF a
  <2>4. (IF i > size[a] THEN i ELSE size[a]) \in 0..Cells
    BY <2>2, <2>3
  <2>5. QED
    BY <2>1, <2>2, <2>4, SizeUpdate
<1>16. CASE StackPush(t)
  <2> DEFINE a == At(Top(t, 1))
  <2>1. a \in Objects
    BY <1>16, Typing, TopTypes, CellTypes DEF StackPush, IsA, Values
  <2>2. size' = [size EXCEPT ![a] = size[a] + 1] /\ size[a] < Cells
    BY <1>16 DEF StackPush
  <2>3. size[a] \in 0..Cells /\ Cells \in Nat
    BY <2>1, Typing
  <2> HIDE DEF a
  <2>4. (size[a] + 1) \in 0..Cells
    BY <2>2, <2>3
  <2>5. QED
    BY <2>1, <2>2, <2>4, SizeUpdate
<1>17. CASE StackPop(t)
  <2> DEFINE a == At(Top(t, 0))
  <2>1. a \in Objects
    BY <1>17, Typing, TopTypes, CellTypes DEF StackPop, IsA, Values
  <2>2. size' = [size EXCEPT ![a] = size[a] - 1] /\ size[a] > 0
    BY <1>17 DEF StackPop
  <2>3. size[a] \in 0..Cells /\ Cells \in Nat
    BY <2>1, Typing
  <2> HIDE DEF a
  <2>4. (size[a] - 1) \in 0..Cells
    BY <2>2, <2>3
  <2>5. QED
    BY <2>1, <2>2, <2>4, SizeUpdate
<1>18. CASE AddClosure(t)
  <2> DEFINE a == At(In(At(Top(t, 1)), 1))
  <2>1. a \in Objects
    BY <1>18, Typing, TopTypes, CellTypes DEF AddClosure, IsA, Values
  <2>2. size' = [size EXCEPT ![a] = size[a] + 1] /\ size[a] < Cells
    BY <1>18 DEF AddClosure
  <2>3. size[a] \in 0..Cells /\ Cells \in Nat
    BY <2>1, Typing
  <2> HIDE DEF a
  <2>4. (size[a] + 1) \in 0..Cells
    BY <2>2, <2>3
  <2>5. QED
    BY <2>1, <2>2, <2>4, SizeUpdate
<1>19. CASE FirstClosure(t)
  <2>1. PICK o \in Objects, a \in Objects : size' = [size EXCEPT ![o] = 1, ![a] = 1]
    BY <1>19, TopTypes, Typing DEF FirstClosure, IsA, Values
  <2>2. 1 \in 0..Cells
    BY Typing
  <2>3. QED
    BY <2>1, <2>2, SizeUpdate
<1>20. CASE Call(t)
  BY <1>20, SizeUpdate DEF Call, Enters
<1>21. CASE CallVC(t)
  BY <1>21, SizeUpdate DEF CallVC, Enters
<1>22. CASE CallLabel(t)
  BY <1>22, SizeUpdate DEF CallLabel, Enters
<1>23. CASE Ret(t)
  BY <1>23, SizeUpdate DEF Ret, Leaves
<1>24. CASE RetVal(t)
  BY <1>24, SizeUpdate DEF RetVal, Leaves
<1>25. CASE Throw(t)
  BY <1>25, SizeUpdate DEF Throw, Leaves
<1>26. CASE NewThread(t)
  BY <1>26, SizeUpdate DEF NewThread
<1>27. CASE Exit(t)
  BY <1>27, SizeUpdate DEF Exit
<1>28. QED
  BY <1>1, <1>2, <1>3, <1>4, <1>5, <1>6, <1>7, <1>8, <1>9, <1>10, <1>11, <1>12, <1>13, <1>14, <1>15, <1>16, <1>17, <1>18, <1>19, <1>20, <1>21, <1>22, <1>23, <1>24, <1>25, <1>26, <1>27 DEF Opcode

\* An update of the depth of a stack.
LEMMA DepthUpdate ==
    ASSUME IInv, NEW t \in Threads
    PROVE  /\ depth' = depth =>
                 depth' \in [Threads -> Nat] /\ \A u \in Threads : depth'[u] <= StackSize[u]
           /\ \A d \in Nat : Depth(t, d) =>
                 depth' \in [Threads -> Nat] /\ \A u \in Threads : depth'[u] <= StackSize[u]
<1> USE DEF IInv, TypeOK, Depth
<1>1. ASSUME NEW d \in Nat, Depth(t, d)
      PROVE  depth' \in [Threads -> Nat] /\ \A u \in Threads : depth'[u] <= StackSize[u]
  BY <1>1
<1>2. QED
  BY <1>1

\* Data stacks keep to their size.
LEMMA DepthTyped ==
    ASSUME IInv, NEW t \in Threads, Opcode(t), ~Swap(t)
    PROVE  depth' \in [Threads -> Nat] /\ \A u \in Threads : depth'[u] <= StackSize[u]
<1> USE DEF SameFrames
<1>1. CASE Load(t)
  BY <1>1, Typing, DepthUpdate DEF Load
<1>2. CASE Pop(t)
  BY SMTT(30), <1>2, Typing, DepthUpdate DEF Pop
<1>3. CASE Save(t)
  BY <1>3, Typing, DepthUpdate DEF Save
<1>4. CASE EnvSave(t)
  BY <1>4, Typing, DepthUpdate DEF EnvSave
<1>5. CASE Enter(t)
  BY <1>5, Typing, DepthUpdate DEF Enter
<1>6. CASE Leave(t)
  BY <1>6, Typing, DepthUpdate DEF Leave
<1>7. CASE Create(t)
  BY <1>7, Typing, DepthUpdate DEF Create
<1>8. CASE CreateVObj(t)
  BY <1>8, Typing, DepthUpdate DEF CreateVObj
<1>9. CASE Convert(t)
  BY <1>9, Typing, DepthUpdate DEF Convert
<1>10. CASE Combine(t)
  BY <1>10, Typing, DepthUpdate DEF Combine
<1>11. CASE Clone(t)
  BY <1>11, Typing, DepthUpdate DEF Clone, Cloned
<1>12. CASE CloneVObj(t)
  BY <1>12, Typing, DepthUpdate DEF CloneVObj
<1>13. CASE Get(t)
  BY <1>13, Typing, DepthUpdate DEF Get, Contents
<1>14. CASE ArraySet(t)
  BY <1>14, Typing, DepthUpdate DEF ArraySet
<1>15. CASE MapSet(t)
  BY <1>15, Typing, DepthUpdate DEF MapSet
<1>16. CASE StackPush(t)
  BY <1>16, Typing, DepthUpdate DEF StackPush
<1>17. CASE StackPop(t)
  BY <1>17, Typing, DepthUpdate DEF StackPop
<1>18. CASE AddClosure(t)
  BY <1>18, Typing, DepthUpdate DEF AddClosure, Cloned
<1>19. CASE FirstClosure(t)
  BY <1>19, Typing, DepthUpdate DEF FirstClosure
<1>20. CASE Call(t)
  BY <1>20, Typing, DepthUpdate DEF Call, Enters
<1>21. CASE CallVC(t)
  BY <1>21, Typing, DepthUpdate DEF CallVC, Enters
<1>22. CASE CallLabel(t)
  BY <1>22, Typing, DepthUpdate DEF CallLabel, Enters
<1>23. CASE Ret(t)
  BY <1>23, Typing, DepthUpdate DEF Ret, Leaves
<1>24. CASE RetVal(t)
  BY <1>24, Typing, DepthUpdate DEF RetVal, Leaves
<1>25. CASE Throw(t)
  BY <1>25, Typing, DepthUpdate DEF Throw, Leaves
<1>26. CASE NewThread(t)
  <2>1. PICK u \in Threads : depth' = [depth EXCEPT ![u] = 1, ![t] = depth[t] - 1] /\ u # t /\ depth[t] > 1
    BY <1>26 DEF NewThread, Does
  <2>2. depth \in [Threads -> Nat] /\ \A v \in Threads : depth[v] <= StackSize[v] /\ StackSize[v] \in Nat \ {0}
    BY HeapAssumption DEF IInv, TypeOK
  <2>3. depth' \in [Threads -> Nat]
    BY <2>1, <2>2
  <2>4. \A v \in Threads : depth'[v] = IF v = t THEN depth[t] - 1 ELSE IF v = u THEN 1 ELSE depth[v]
    BY <2>1, <2>2
  <2>5. \A v \in Threads : depth'[v] <= StackSize[v]
    BY <2>2, <2>4
  <2>6. QED
    BY <2>3, <2>5
<1>27. CASE Exit(t)
  <2>1. depth' = [depth EXCEPT ![t] = 0]
    BY <1>27 DEF Exit
  <2>2. depth \in [Threads -> Nat] /\ \A v \in Threads : depth[v] <= StackSize[v] /\ StackSize[v] \in Nat \ {0}
    BY HeapAssumption DEF IInv, TypeOK
  <2>3. QED
    BY <2>1, <2>2
<1>28. QED
  BY <1>1, <1>2, <1>3, <1>4, <1>5, <1>6, <1>7, <1>8, <1>9, <1>10, <1>11, <1>12, <1>13, <1>14, <1>15, <1>16, <1>17, <1>18, <1>19, <1>20, <1>21, <1>22, <1>23, <1>24, <1>25, <1>26, <1>27 DEF Opcode

\* So do the locals.
LEMMA LocalsTyped ==
    ASSUME IInv, NEW t \in Threads, Opcode(t), ~Swap(t)
    PROVE  locals' \in [Threads -> Nat] /\ \A u \in Threads : locals'[u] <= LocalSize[u]
<1> USE DEF IInv, TypeOK, SameFrames
<1>1. CASE Load(t)
  BY <1>1, Typing, HeapAssumption DEF Load
<1>2. CASE Pop(t)
  BY <1>2, Typing, HeapAssumption DEF Pop
<1>3. CASE Save(t)
  BY <1>3, Typing, HeapAssumption DEF Save
<1>4. CASE EnvSave(t)
  BY <1>4, Typing, HeapAssumption DEF EnvSave
<1>5. CASE Enter(t)
  <2>1. locals' = [locals EXCEPT ![t] = locals[t] + 1] /\ locals[t] < LocalSize[t]
    BY <1>5 DEF Enter
  <2>2. locals \in [Threads -> Nat] /\ \A v \in Threads : locals[v] <= LocalSize[v] /\ LocalSize[v] \in Nat
    BY HeapAssumption DEF IInv, TypeOK
  <2>3. locals[t] + 1 \in Nat /\ locals[t] + 1 <= LocalSize[t]
    BY <2>1, <2>2
  <2>4. QED
    BY <2>1, <2>2, <2>3
<1>6. CASE Leave(t)
  <2>1. locals' = [locals EXCEPT ![t] = locals[t] - 1] /\ locals[t] > 0
    BY <1>6 DEF Leave
  <2>2. locals \in [Threads -> Nat] /\ \A v \in Threads : locals[v] <= LocalSize[v] /\ LocalSize[v] \in Nat
    BY HeapAssumption DEF IInv, TypeOK
  <2>3. locals[t] - 1 \in Nat /\ locals[t] - 1 <= LocalSize[t]
    BY <2>1, <2>2
  <2>4. QED
    BY <2>1, <2>2, <2>3
<1>7. CASE Create(t)
  BY <1>7, Typing, HeapAssumption DEF Create
<1>8. CASE CreateVObj(t)
  BY <1>8, Typing, HeapAssumption DEF CreateVObj
<1>9. CASE Convert(t)
  BY <1>9, Typing, HeapAssumption DEF Convert
<1>10. CASE Combine(t)
  BY <1>10, Typing, HeapAssumption DEF Combine
<1>11. CASE Clone(t)
  BY <1>11, Typing, HeapAssumption DEF Clone, Cloned
<1>12. CASE CloneVObj(t)
  BY <1>12, Typing, HeapAssumption DEF CloneVObj
<1>13. CASE Get(t)
  BY <1>13, Typing, HeapAssumption DEF Get, Contents
<1>14. CASE ArraySet(t)
  BY <1>14, Typing, HeapAssumption DEF ArraySet
<1>15. CASE MapSet(t)
  BY <1>15, Typing, HeapAssumption DEF MapSet
<1>16. CASE StackPush(t)
  BY <1>16, Typing, HeapAssumption DEF StackPush
<1>17. CASE StackPop(t)
  BY <1>17, Typing, HeapAssumption DEF StackPop
<1>18. CASE AddClosure(t)
  BY <1>18, Typing, HeapAssumption DEF AddClosure, Cloned
<1>19. CASE FirstClosure(t)
  BY <1>19, Typing, HeapAssumption DEF FirstClosure
<1>20. CASE Call(t)
  BY <1>20, Typing, HeapAssumption DEF Call, Enters
<1>21. CASE CallVC(t)
  BY <1>21, Typing, HeapAssumption DEF CallVC, Enters
<1>22. CASE CallLabel(t)
  BY <1>22, Typing, HeapAssumption DEF CallLabel, Enters
<1>23. CASE Ret(t)
  BY <1>23, Typing, HeapAssumption DEF Ret, Leaves
<1>24. CASE RetVal(t)
  BY <1>24, Typing, HeapAssumption DEF RetVal, Leaves
<1>25. CASE Throw(t)
  BY <1>25, Typing, HeapAssumption DEF Throw, Leaves
<1>26. CASE NewThread(t)
  BY <1>26, Typing, HeapAssumption DEF NewThread
<1>27. CASE Exit(t)
  <2>1. locals' = [locals EXCEPT ![t] = 0]
    BY <1>27 DEF Exit
  <2>2. locals \in [Threads -> Nat] /\ \A v \in Threads : locals[v] <= LocalSize[v] /\ LocalSize[v] \in Nat
    BY HeapAssumption DEF IInv, TypeOK
  <2>3. QED
    BY <2>1, <2>2
<1>28. QED
  BY <1>1, <1>2, <1>3, <1>4, <1>5, <1>6, <1>7, <1>8, <1>9, <1>10, <1>11, <1>12, <1>13, <1>14, <1>15, <1>16, <1>17, <1>18, <1>19, <1>20, <1>21, <1>22, <1>23, <1>24, <1>25, <1>26, <1>27 DEF Opcode

\* A frame more, or some frames less.
LEMMA FramesUpdate ==
    ASSUME IInv, NEW t \in Threads
    PROVE  /\ frames' = frames =>
                 frames' \in [Threads -> Seq(Values)] /\ \A u \in Threads : Len(frames'[u]) <= CallDepth[u]
           /\ \A s \in Seq(Values) : Len(s) <= CallDepth[t] /\ frames' = [frames EXCEPT ![t] = s] =>
                 frames' \in [Threads -> Seq(Values)] /\ \A u \in Threads : Len(frames'[u]) <= CallDepth[u]
           /\ \A c \in Values : Enters(t, c) =>
                 frames' \in [Threads -> Seq(Values)] /\ \A u \in Threads : Len(frames'[u]) <= CallDepth[u]
           /\ \A k \in 0..Len(frames[t]) : Leaves(t, k) =>
                 frames' \in [Threads -> Seq(Values)] /\ \A u \in Threads : Len(frames'[u]) <= CallDepth[u]
<1>1. frames \in [Threads -> Seq(Values)] /\ \A u \in Threads : Len(frames[u]) <= CallDepth[u]
  BY DEF IInv, TypeOK, Bounds
<1>2. ASSUME NEW s \in Seq(Values), Len(s) <= CallDepth[t], frames' = [frames EXCEPT ![t] = s]
      PROVE  frames' \in [Threads -> Seq(Values)] /\ \A u \in Threads : Len(frames'[u]) <= CallDepth[u]
  BY <1>1, <1>2
<1>3. ASSUME NEW c \in Values, Enters(t, c)
      PROVE  frames' \in [Threads -> Seq(Values)] /\ \A u \in Threads : Len(frames'[u]) <= CallDepth[u]
  <2>1. frames' = [frames EXCEPT ![t] = Append(frames[t], c)] /\ Len(frames[t]) < CallDepth[t]
    BY <1>3 DEF Enters
  <2>2. Append(frames[t], c) \in Seq(Values) /\ Len(Append(frames[t], c)) = Len(frames[t]) + 1
    BY <1>1
  <2>3. Len(frames[t]) + 1 <= CallDepth[t]
    BY <2>1, Typing
  <2>4. QED
    BY <2>1, <2>2, <2>3, <1>2
<1>4. ASSUME NEW k \in 0..Len(frames[t]), Leaves(t, k)
      PROVE  frames' \in [Threads -> Seq(Values)] /\ \A u \in Threads : Len(frames'[u]) <= CallDepth[u]
  <2>1. frames' = [frames EXCEPT ![t] = SubSeq(frames[t], 1, k)]
    BY <1>4 DEF Leaves
  <2>2. frames[t] \in Seq(Values) /\ k \in Nat /\ k <= Len(frames[t]) /\ Len(frames[t]) <= CallDepth[t]
        /\ Len(frames[t]) \in Nat /\ CallDepth[t] \in Nat
    BY <1>1, Typing
  <2>3. SubSeq(frames[t], 1, k) \in Seq(Values) /\ Len(SubSeq(frames[t], 1, k)) = k
    BY <2>2
  <2>4. k <= CallDepth[t]
    BY <2>2
  <2>5. QED
    BY <2>1, <2>3, <2>4, <1>2
<1>5. QED
  BY <1>1, <1>2, <1>3, <1>4

\* Call stacks keep to their bound.
LEMMA FramesTyped ==
    ASSUME IInv, NEW t \in Threads, Opcode(t), ~Swap(t)
    PROVE  frames' \in [Threads -> Seq(Values)] /\ \A u \in Threads : Len(frames'[u]) <= CallDepth[u]
<1> USE DEF SameFrames
<1>1. CASE Load(t)
  BY <1>1, FramesUpdate DEF Load
<1>2. CASE Pop(t)
  BY <1>2, FramesUpdate DEF Pop
<1>3. CASE Save(t)
  BY <1>3, FramesUpdate DEF Save
<1>4. CASE EnvSave(t)
  BY <1>4, FramesUpdate DEF EnvSave
<1>5. CASE Enter(t)
  BY <1>5, FramesUpdate DEF Enter
<1>6. CASE Leave(t)
  BY <1>6, FramesUpdate DEF Leave
<1>7. CASE Create(t)
  BY <1>7, FramesUpdate DEF Create
<1>8. CASE CreateVObj(t)
  BY <1>8, FramesUpdate DEF CreateVObj
<1>9. CASE Convert(t)
  BY <1>9, FramesUpdate DEF Convert
<1>10. CASE Combine(t)
  BY <1>10, FramesUpdate DEF Combine
<1>11. CASE Clone(t)
  BY <1>11, FramesUpdate DEF Clone, Cloned
<1>12. CASE CloneVObj(t)
  BY <1>12, FramesUpdate DEF CloneVObj
<1>13. CASE Get(t)
  BY <1>13, FramesUpdate DEF Get, Contents
<1>14. CASE ArraySet(t)
  BY <1>14, FramesUpdate DEF ArraySet
<1>15. CASE MapSet(t)
  BY <1>15, FramesUpdate DEF MapSet
<1>16. CASE StackPush(t)
  BY <1>16, FramesUpdate DEF StackPush
<1>17. CASE StackPop(t)
  BY <1>17, FramesUpdate DEF StackPop
<1>18. CASE AddClosure(t)
  BY <1>18, FramesUpdate DEF AddClosure, Cloned
<1>19. CASE FirstClosure(t)
  BY <1>19, FramesUpdate DEF FirstClosure
<1>20. CASE Call(t)
  <2>1. At(In(At(Top(t, 0)), 1)) \in Values
    BY <1>20, TopTypes, CellTypes DEF Call, IsA, Values
  <2>2. QED
    BY <1>20, <2>1, FramesUpdate DEF Call
<1>21. CASE CallVC(t)
  <2>1. At(Top(t, 1)) \in Values
    BY <1>21, TopTypes DEF CallVC
  <2>2. QED
    BY <1>21, <2>1, FramesUpdate DEF CallVC
<1>22. CASE CallLabel(t)
  <2>1. None \in Values
    BY DEF Values
  <2>2. QED
    BY <1>22, <2>1, FramesUpdate DEF CallLabel
<1>23. CASE Ret(t)
  <2>1. Leaves(t, Len(frames[t]) - 1) /\ Len(frames[t]) > 0 /\ Len(frames[t]) \in Nat
    BY <1>23, TopTypes, Typing DEF Ret
  <2>2. Len(frames[t]) - 1 \in 0..Len(frames[t])
    BY <2>1
  <2>3. QED
    BY <2>1, <2>2, FramesUpdate
<1>24. CASE RetVal(t)
  <2>1. Leaves(t, Len(frames[t]) - 1) /\ Len(frames[t]) > 0 /\ Len(frames[t]) \in Nat
    BY <1>24, TopTypes, Typing DEF RetVal
  <2>2. Len(frames[t]) - 1 \in 0..Len(frames[t])
    BY <2>1
  <2>3. QED
    BY <2>1, <2>2, FramesUpdate
<1>25. CASE Throw(t)
  <2>1. PICK k \in 0..Len(frames[t]) : Leaves(t, k)
    BY <1>25 DEF Throw
  <2>2. QED
    BY <2>1, FramesUpdate
<1>26. CASE NewThread(t)
  BY <1>26, FramesUpdate DEF NewThread
<1>27. CASE Exit(t)
  BY <1>27, FramesUpdate DEF Exit
<1>28. QED
  BY <1>1, <1>2, <1>3, <1>4, <1>5, <1>6, <1>7, <1>8, <1>9, <1>10, <1>11, <1>12, <1>13, <1>14, <1>15, <1>16, <1>17, <1>18, <1>19, <1>20, <1>21, <1>22, <1>23, <1>24, <1>25, <1>26, <1>27 DEF Opcode

\* Only threads are alive.
LEMMA AliveTyped ==
    ASSUME IInv, NEW t \in Threads, Opcode(t), ~Swap(t)
    PROVE  alive' \subseteq Threads
<1> USE DEF IInv, TypeOK, SameFrames
<1>1. CASE Load(t)
  BY <1>1 DEF Load
<1>2. CASE Pop(t)
  BY <1>2 DEF Pop
<1>3. CASE Save(t)
  BY <1>3 DEF Save
<1>4. CASE EnvSave(t)
  BY <1>4 DEF EnvSave
<1>5. CASE Enter(t)
  BY <1>5 DEF Enter
<1>6. CASE Leave(t)
  BY <1>6 DEF Leave
<1>7. CASE Create(t)
  BY <1>7 DEF Create
<1>8. CASE CreateVObj(t)
  BY <1>8 DEF CreateVObj
<1>9. CASE Convert(t)
  BY <1>9 DEF Convert
<1>10. CASE Combine(t)
  BY <1>10 DEF Combine
<1>11. CASE Clone(t)
  BY <1>11 DEF Clone, Cloned
<1>12. CASE CloneVObj(t)
  BY <1>12 DEF CloneVObj
<1>13. CASE Get(t)
  BY <1>13 DEF Get, Contents
<1>14. CASE ArraySet(t)
  BY <1>14 DEF ArraySet
<1>15. CASE MapSet(t)
  BY <1>15 DEF MapSet
<1>16. CASE StackPush(t)
  BY <1>16 DEF StackPush
<1>17. CASE StackPop(t)
  BY <1>17 DEF StackPop
<1>18. CASE AddClosure(t)
  BY <1>18 DEF AddClosure, Cloned
<1>19. CASE FirstClosure(t)
  BY <1>19 DEF FirstClosure
<1>20. CASE Call(t)
  BY <1>20 DEF Call, Enters
<1>21. CASE CallVC(t)
  BY <1>21 DEF CallVC, Enters
<1>22. CASE CallLabel(t)
  BY <1>22 DEF CallLabel, Enters
<1>23. CASE Ret(t)
  BY <1>23 DEF Ret, Leaves
<1>24. CASE RetVal(t)
  BY <1>24 DEF RetVal, Leaves
<1>25. CASE Throw(t)
  BY <1>25 DEF Throw, Leaves
<1>26. CASE NewThread(t)
  BY <1>26 DEF NewThread
<1>27. CASE Exit(t)
  BY <1>27 DEF Exit
<1>28. QED
  BY <1>1, <1>2, <1>3, <1>4, <1>5, <1>6, <1>7, <1>8, <1>9, <1>10, <1>11, <1>12, <1>13, <1>14, <1>15, <1>16, <1>17, <1>18, <1>19, <1>20, <1>21, <1>22, <1>23, <1>24, <1>25, <1>26, <1>27 DEF Opcode

\* What was live stays live.
LEMMA StillLive ==
    ASSUME IInv, NEW t \in Threads, Opcode(t), ~Swap(t)
    PROVE  /\ \A p \in Places : At(p) \in Allocated' \cup {None}
           /\ Allocated \subseteq Allocated'
           /\ \A k : \A v \in Values : IsA(v, k) /\ k # "free" => v \in Allocated'
           /\ \A v \in Objects : kind'[v] # "free" => v \in Allocated'
<1>1. Allocated \subseteq Allocated'
  <2>1. \A o \in Objects : kind[o] # "free" => kind'[o] = kind[o]
    BY OpcodeGrows
  <2>2. QED
    BY <2>1 DEF Allocated
<1>2. \A p \in Places : At(p) \in Allocated \cup {None}
  BY DEF IInv, CellsLive, At
<1>3. \A k : \A v \in Values : IsA(v, k) /\ k # "free" => v \in Allocated
  BY DEF IsA, Values, Allocated
<1>4. \A v \in Objects : kind'[v] # "free" => v \in Allocated'
  BY DEF Allocated
<1>5. QED
  BY <1>1, <1>2, <1>3, <1>4

\* What an opcode leaves to be stored is live.
LEMMA LiveStores ==
    ASSUME IInv, NEW t \in Threads, Opcode(t), ~Swap(t)
    PROVE  \A i \in DOMAIN todo' : /\ todo'[i].v \in Allocated' \cup {None}
                                   /\ todo'[i].op = "drop" => todo'[i].v = None
<1> USE DEF Does, Drop, Store, Put, RefPut
<1>1. CASE Load(t)
  BY <1>1, StillLive, Typing, TopTypes, CellTypes, ReadTypes DEF Load
<1>2. CASE Pop(t)
  BY <1>2, StillLive, Typing, TopTypes, CellTypes, ReadTypes DEF Pop
<1>3. CASE Save(t)
  BY <1>3, StillLive, Typing, TopTypes, CellTypes, ReadTypes DEF Save
<1>4. CASE EnvSave(t)
  BY <1>4, StillLive, Typing, TopTypes, CellTypes, ReadTypes DEF EnvSave
<1>5. CASE Enter(t)
  BY <1>5, StillLive, Typing, TopTypes, CellTypes, ReadTypes DEF Enter
<1>6. CASE Leave(t)
  BY <1>6, StillLive, Typing, TopTypes, CellTypes, ReadTypes DEF Leave
<1>7. CASE Create(t)
  <2>1. PICK o \in Objects, k \in Kinds : k # "free" /\ kind' = [kind EXCEPT ![o] = k] /\ todo' = <<Store(Data(t, depth[t] + 1), o)>>
    BY <1>7 DEF Create, New, Kinds
  <2>2. kind \in [Objects -> Kinds \cup {"free"}] /\ "free" \notin Kinds
    BY DEF IInv, TypeOK, Kinds
  <2>3. o \in Allocated' \cup {None}
    BY <2>1, <2>2, StillLive
  <2>4. QED
    BY <2>1, <2>3
<1>8. CASE CreateVObj(t)
  <2>1. PICK o \in Objects, m \in Objects : o # m /\ kind' = [kind EXCEPT ![o] = "VObj", ![m] = "Array"] /\ todo' = <<Store(In(o, 1), m), Store(Data(t, depth[t] + 1), o)>>
    BY <1>8 DEF CreateVObj, New
  <2>2. kind \in [Objects -> Kinds \cup {"free"}] /\ "free" \notin Kinds
    BY DEF IInv, TypeOK, Kinds
  <2>3. o \in Allocated' \cup {None} /\ m \in Allocated' \cup {None}
    BY <2>1, <2>2, StillLive
  <2>4. QED
    BY <2>1, <2>3
<1>9. CASE Convert(t)
  <2>1. PICK v \in Values : todo' = <<Drop(Top(t, 0)), Store(Top(t, 0), v)>> /\ v \in Allocated' \cup {None}
    <3>1. ASSUME NEW o \in Objects, New(o, "Str") PROVE o \in Allocated'
      <4>1. kind'[o] = "Str"
        BY <3>1 DEF New, IInv, TypeOK
      <4>2. QED
        BY <4>1, StillLive
    <3>2. QED
      BY <1>9, <3>1 DEF Convert, Values
  <2>2. QED
    BY <2>1
<1>10. CASE Combine(t)
  <2>1. PICK v \in Values : todo' = <<Drop(Top(t, 0)), Drop(Top(t, 1)), Store(Top(t, 1), v)>> /\ v \in Allocated' \cup {None}
    <3>1. ASSUME NEW o \in Objects, New(o, "Str") PROVE o \in Allocated'
      <4>1. kind'[o] = "Str"
        BY <3>1 DEF New, IInv, TypeOK
      <4>2. QED
        BY <4>1, StillLive
    <3>2. QED
      BY <1>10, <3>1 DEF Combine, Values
  <2>2. QED
    BY <2>1
<1>11. CASE Clone(t)
  <2>1. PICK v \in Objects : todo' = <<Drop(Top(t, 0)), Store(Top(t, 0), v)>> /\ v \in Allocated'
    <3>1. ASSUME NEW u \in Values, NEW c \in Values, Cloned(u, c) PROVE c \in Allocated'
      <4>1. CASE IsA(u, "Str") /\ c # None /\ New(c, "Str")
        <5>1. c \in Objects /\ kind'[c] = "Str"
          BY <4>1 DEF New, IInv, TypeOK, Values
        <5>2. QED
          BY <5>1, StillLive
      <4>2. CASE (IsA(u, "Fun") \/ IsA(u, "Stack")) /\ c = u
        BY <4>2, StillLive
      <4>3. QED
        BY <3>1, <4>1, <4>2 DEF Cloned
    <3>2. At(Top(t, 0)) \in Values
      BY <1>11, TopTypes DEF Clone
    <3>3. QED
      BY <1>11, <3>1, <3>2 DEF Clone, Values
  <2>2. QED
    BY <2>1
<1>12. CASE CloneVObj(t)
  <2>1. PICK c \in Objects : /\ kind' = [kind EXCEPT ![c] = "VObj"]
                            /\ todo' = <<Drop(Top(t, 0)), Store(In(c, 1), At(In(At(Top(t, 0)), 1))), Store(Top(t, 0), c)>>
    BY <1>12 DEF CloneVObj, New
  <2>2. c \in Allocated'
    <3>1. kind'[c] = "VObj"
      BY <2>1 DEF IInv, TypeOK
    <3>2. QED
      BY <3>1, StillLive
  <2>3. At(Top(t, 0)) \in Objects
    BY <1>12, TopTypes DEF CloneVObj, IsA, Values
  <2>4. At(In(At(Top(t, 0)), 1)) \in Allocated' \cup {None}
    BY <2>3, CellTypes, StillLive
  <2>5. QED
    BY <2>1, <2>2, <2>4
<1>13. CASE Get(t)
  <2>1. PICK i \in 1..size[Contents(At(Top(t, 0)))] :
          todo' = <<Drop(Top(t, 0)), Store(Top(t, 0), At(In(Contents(At(Top(t, 0))), i)))>>
    BY <1>13 DEF Get
  <2>2. Contents(At(Top(t, 0))) \in Objects
    <3>1. At(Top(t, 0)) \in Values
      BY <1>13, TopTypes DEF Get
    <3>2. IsA(At(Top(t, 0)), "VObj") => At(In(At(Top(t, 0)), 1)) \in Values
      BY <3>1, CellTypes DEF IsA, Values
    <3>3. Contents(At(Top(t, 0))) \in Values
      BY <3>1, <3>2 DEF Contents
    <3>4. Contents(At(Top(t, 0))) # None
      BY <1>13 DEF Get, IsA
    <3>5. QED
      BY <3>3, <3>4 DEF Values
  <2>3. At(In(Contents(At(Top(t, 0))), i)) \in Allocated' \cup {None}
    BY <2>1, <2>2, CellTypes, StillLive
  <2>4. QED
    BY <2>1, <2>3
<1>14. CASE ArraySet(t)
  BY <1>14, StillLive, Typing, TopTypes, CellTypes, ReadTypes DEF ArraySet
<1>15. CASE MapSet(t)
  BY <1>15, StillLive, Typing, TopTypes, CellTypes, ReadTypes DEF MapSet
<1>16. CASE StackPush(t)
  BY <1>16, StillLive, Typing, TopTypes, CellTypes, ReadTypes DEF StackPush
<1>17. CASE StackPop(t)
  BY <1>17, StillLive, Typing, TopTypes, CellTypes, ReadTypes DEF StackPop
<1>18. CASE AddClosure(t)
  <2>1. PICK c \in Values :
          /\ todo' = <<Drop(Top(t, 0)),
                       Store(In(At(In(At(Top(t, 1)), 1)), size[At(In(At(Top(t, 1)), 1))] + 1), c)>>
          /\ c \in Allocated' \cup {None}
    <3>1. ASSUME NEW u \in Values, NEW c \in Values, Cloned(u, c) PROVE c \in Allocated'
      <4>1. CASE IsA(u, "Str") /\ c # None /\ New(c, "Str")
        <5>1. c \in Objects /\ kind'[c] = "Str"
          BY <4>1 DEF New, IInv, TypeOK, Values
        <5>2. QED
          BY <5>1, StillLive
      <4>2. CASE (IsA(u, "Fun") \/ IsA(u, "Stack")) /\ c = u
        BY <4>2, StillLive
      <4>3. QED
        BY <3>1, <4>1, <4>2 DEF Cloned
    <3>2. At(Top(t, 0)) \in Values
      BY <1>18, TopTypes, Typing DEF AddClosure
    <3>3. QED
      BY <1>18, <3>1, <3>2 DEF AddClosure
  <2>2. QED
    BY <2>1
<1>19. CASE FirstClosure(t)
  <2> DEFINE v == At(Top(t, 0))
             f == At(Top(t, 1))
  <2>1. PICK a \in Objects, c \in Values :
          /\ kind[a] = "free" /\ a # c
          /\ \/ /\ IsA(v, "Str") /\ c # None /\ kind[c] = "free"
                /\ kind' = [kind EXCEPT ![c] = "Str", ![a] = "Array"]
             \/ /\ c = v /\ (v = None \/ IsA(v, "Fun") \/ IsA(v, "Stack"))
                /\ kind' = [kind EXCEPT ![a] = "Array"]
          /\ todo' = <<Drop(Top(t, 0)), Store(In(f, 1), a), Store(In(a, 1), c)>>
    BY <1>19 DEF FirstClosure
  <2>2. v \in Values
    BY <1>19, TopTypes, Typing DEF FirstClosure
  <2> HIDE DEF v, f
  <2>3. kind \in [Objects -> Kinds \cup {"free"}]
    BY DEF IInv, TypeOK
  <2>4. kind'[a] = "Array"
    BY <2>1, <2>3
  <2>5. c \in Allocated' \cup {None}
    <3>1. CASE IsA(v, "Str") /\ c # None /\ kind' = [kind EXCEPT ![c] = "Str", ![a] = "Array"]
      <4>1. c \in Objects /\ kind'[c] = "Str"
        BY <3>1, <2>1, <2>3 DEF Values
      <4>2. QED
        BY <4>1, StillLive
    <3>2. CASE c = v /\ (v = None \/ IsA(v, "Fun") \/ IsA(v, "Stack"))
      BY <3>2, <2>2, StillLive
    <3>3. QED
      BY <2>1, <3>1, <3>2
  <2>6. a \in Allocated'
    BY <2>4, StillLive
  <2>7. QED
    BY <2>1, <2>5, <2>6
<1>20. CASE Call(t)
  BY <1>20, StillLive, Typing, TopTypes, CellTypes, ReadTypes DEF Call, Enters
<1>21. CASE CallVC(t)
  BY <1>21, StillLive, Typing, TopTypes, CellTypes, ReadTypes DEF CallVC, Enters
<1>22. CASE CallLabel(t)
  BY <1>22, StillLive, Typing, TopTypes, CellTypes, ReadTypes DEF CallLabel, Enters
<1>23. CASE Ret(t)
  BY <1>23, StillLive, Typing, TopTypes, CellTypes, ReadTypes DEF Ret, Leaves
<1>24. CASE RetVal(t)
  BY <1>24, StillLive, Typing, TopTypes, CellTypes, ReadTypes DEF RetVal, Leaves
<1>25. CASE Throw(t)
  BY SMTT(30), <1>25, StillLive, Typing, TopTypes, CellTypes, ReadTypes DEF Throw, Leaves
<1>26. CASE NewThread(t)
  BY <1>26, StillLive, Typing, TopTypes, CellTypes, ReadTypes DEF NewThread
<1>27. CASE Exit(t)
  BY <1>27, StillLive, Typing, TopTypes, CellTypes, ReadTypes DEF Exit
<1>28. QED
  BY <1>1, <1>2, <1>3, <1>4, <1>5, <1>6, <1>7, <1>8, <1>9, <1>10, <1>11, <1>12, <1>13, <1>14, <1>15, <1>16, <1>17, <1>18, <1>19, <1>20, <1>21, <1>22, <1>23, <1>24, <1>25, <1>26, <1>27 DEF Opcode

\* The lists of steps that fill empty places only.
LEMMA Fits ==
    ASSUME heap' = heap
    PROVE  /\ (\A i \in DOMAIN todo' : todo'[i].op # "store") => StoresFit'
           /\ \A p, v : todo' = <<Store(p, v)>> /\ heap.cell[p] = None => StoresFit'
           /\ \A p, q, v : todo' = <<Drop(p), Store(q, v)>> /\ (heap.cell[q] = None \/ p = q) => StoresFit'
           /\ \A p, r, q, v : todo' = <<Drop(p), Drop(r), Store(q, v)>>
                  /\ (heap.cell[q] = None \/ q = p \/ q = r) => StoresFit'
           /\ \A p, v, q, w : todo' = <<Store(p, v), Store(q, w)>>
                  /\ p # q /\ heap.cell[p] = None /\ heap.cell[q] = None => StoresFit'
           /\ \A p, q, v, r, w : todo' = <<Drop(p), Store(q, v), Store(r, w)>>
                  /\ q # r /\ (heap.cell[q] = None \/ q = p) /\ (heap.cell[r] = None \/ r = p) => StoresFit'
<1> USE DEF StoresFit, Drop, Store
<1>1. (\A i \in DOMAIN todo' : todo'[i].op # "store") => StoresFit'
  OBVIOUS
<1>2. ASSUME NEW p, NEW v, todo' = <<Store(p, v)>>, heap.cell[p] = None PROVE StoresFit'
  BY <1>2
<1>3. ASSUME NEW p, NEW q, NEW v, todo' = <<Drop(p), Store(q, v)>>, heap.cell[q] = None \/ p = q PROVE StoresFit'
  BY <1>3
<1>4. ASSUME NEW p, NEW r, NEW q, NEW v, todo' = <<Drop(p), Drop(r), Store(q, v)>>,
             heap.cell[q] = None \/ q = p \/ q = r
      PROVE  StoresFit'
  BY <1>4
<1>5. ASSUME NEW p, NEW v, NEW q, NEW w, todo' = <<Store(p, v), Store(q, w)>>,
             p # q, heap.cell[p] = None, heap.cell[q] = None
      PROVE  StoresFit'
  BY <1>5
<1>6. ASSUME NEW p, NEW q, NEW v, NEW r, NEW w, todo' = <<Drop(p), Store(q, v), Store(r, w)>>,
             q # r, heap.cell[q] = None \/ q = p, heap.cell[r] = None \/ r = p
      PROVE  StoresFit'
  BY <1>6
<1>7. QED
  BY <1>1, <1>2, <1>3, <1>4, <1>5, <1>6

\* An opcode stores into empty places only.
LEMMA OpcodeFits ==
    ASSUME IInv, NEW t \in Threads, Opcode(t), ~Swap(t)
    PROVE  StoresFit'
<1>1. CASE Load(t)
  <2>0. heap' = heap
    BY OpcodeShape
  <2>1. PICK v : todo' = <<Store(Data(t, depth[t] + 1), v)>> /\ heap.cell[Data(t, depth[t] + 1)] = None
    BY <1>1, AtExec, OpcodeShape, Typing, TopTypes DEF Load, Does, Depth
  <2>2. QED
    BY <2>1, <2>0, Fits
<1>2. CASE Pop(t)
  <2>1. \A i \in DOMAIN todo' : todo'[i].op # "store"
    BY <1>2 DEF Pop, Does, Drop, Put, RefPut
  <2>2. QED
    BY <2>1, OpcodeShape, Fits
<1>3. CASE Save(t)
  <2>1. \A i \in DOMAIN todo' : todo'[i].op # "store"
    BY <1>3 DEF Save, Does, Drop, Put, RefPut
  <2>2. QED
    BY <2>1, OpcodeShape, Fits
<1>4. CASE EnvSave(t)
  <2>1. \A i \in DOMAIN todo' : todo'[i].op # "store"
    BY <1>4 DEF EnvSave, Does, Drop, Put, RefPut
  <2>2. QED
    BY <2>1, OpcodeShape, Fits
<1>5. CASE Enter(t)
  <2>1. \A i \in DOMAIN todo' : todo'[i].op # "store"
    BY <1>5 DEF Enter, Does, Drop, Put, RefPut
  <2>2. QED
    BY <2>1, OpcodeShape, Fits
<1>6. CASE Leave(t)
  <2>1. \A i \in DOMAIN todo' : todo'[i].op # "store"
    BY <1>6 DEF Leave, Does, Drop, Put, RefPut
  <2>2. QED
    BY <2>1, OpcodeShape, Fits
<1>7. CASE Create(t)
  <2>0. heap' = heap
    BY OpcodeShape
  <2>1. PICK v : todo' = <<Store(Data(t, depth[t] + 1), v)>> /\ heap.cell[Data(t, depth[t] + 1)] = None
    BY <1>7, AtExec, OpcodeShape, Typing, TopTypes DEF Create, Does, Depth
  <2>2. QED
    BY <2>1, <2>0, Fits
<1>8. CASE CreateVObj(t)
  <2>0. heap' = heap
    BY OpcodeShape
  <2>1. PICK o, m \in Objects : /\ kind[o] = "free" /\ depth[t] + 1 <= StackSize[t]
                               /\ todo' = <<Store(In(o, 1), m), Store(Data(t, depth[t] + 1), o)>>
    BY <1>8 DEF CreateVObj, Does, Depth
  <2>2. heap.cell[Data(t, depth[t] + 1)] = None
    BY <2>1, AtExec, OpcodeShape, Typing
  <2>3. size[o] = 0
    BY <2>1 DEF IInv, Bounds
  <2>4. heap.cell[In(o, 1)] = None
    BY SMTT(30), <2>3, AtExec, OpcodeShape, Typing
  <2>5. In(o, 1) # Data(t, depth[t] + 1)
    BY PlaceNames
  <2>6. QED
    BY <2>0, <2>1, <2>2, <2>4, <2>5, Fits
<1>9. CASE Convert(t)
  <2>0. heap' = heap
    BY OpcodeShape
  <2>1. PICK v : todo' = <<Drop(Top(t, 0)), Store(Top(t, 0), v)>> /\ TRUE
    BY <1>9, TRUE DEF Convert, Does
  <2>2. QED
    BY <2>1, <2>0, Fits
<1>10. CASE Combine(t)
  <2>0. heap' = heap
    BY OpcodeShape
  <2>1. PICK v : todo' = <<Drop(Top(t, 0)), Drop(Top(t, 1)), Store(Top(t, 1), v)>> /\ TRUE
    BY <1>10, TRUE DEF Combine, Does
  <2>2. QED
    BY <2>1, <2>0, Fits
<1>11. CASE Clone(t)
  <2>0. heap' = heap
    BY OpcodeShape
  <2>1. PICK v : todo' = <<Drop(Top(t, 0)), Store(Top(t, 0), v)>> /\ TRUE
    BY <1>11, TRUE DEF Clone, Cloned, Does
  <2>2. QED
    BY <2>1, <2>0, Fits
<1>12. CASE CloneVObj(t)
  <2>0. heap' = heap
    BY OpcodeShape
  <2>1. PICK c, v : /\ c \in Objects
                    /\ kind[c] = "free"
                    /\ todo' = <<Drop(Top(t, 0)), Store(In(c, 1), v), Store(Top(t, 0), c)>>
    BY <1>12 DEF CloneVObj, Does, New
  <2>2. size[c] = 0
    BY <2>1 DEF IInv, Bounds
  <2>3. heap.cell[In(c, 1)] = None
    BY <2>1, <2>2, AtExec, OpcodeShape, Typing
  <2>4. In(c, 1) # Top(t, 0)
    BY PlaceNames DEF Top
  <2>5. QED
    BY <2>0, <2>1, <2>3, <2>4, Fits
<1>13. CASE Get(t)
  <2>0. heap' = heap
    BY OpcodeShape
  <2>1. PICK v : todo' = <<Drop(Top(t, 0)), Store(Top(t, 0), v)>> /\ TRUE
    BY <1>13, TRUE DEF Get, Contents, Does
  <2>2. QED
    BY <2>1, <2>0, Fits
<1>14. CASE ArraySet(t)
  <2>1. \A i \in DOMAIN todo' : todo'[i].op # "store"
    BY <1>14 DEF ArraySet, Does, Drop, Put, RefPut
  <2>2. QED
    BY <2>1, OpcodeShape, Fits
<1>15. CASE MapSet(t)
  <2>0. heap' = heap
    BY OpcodeShape
  <2>1. PICK i : /\ heap.cell[In(At(Top(t, 0)), i)] = None
               /\ todo' = <<Drop(Top(t, 0)), Drop(Top(t, 1)), Store(In(At(Top(t, 0)), i), At(Top(t, 1)))>>
    BY <1>15 DEF MapSet, Does, At
  <2>2. QED
    BY <2>0, <2>1, Fits
<1>16. CASE StackPush(t)
  <2>0. heap' = heap
    BY OpcodeShape
  <2> DEFINE s == At(Top(t, 1))
  <2>1. todo' = <<Drop(Top(t, 0)), Drop(Top(t, 1)), Store(In(s, size[s] + 1), At(Top(t, 0)))>> /\ size[s] < Cells
    BY <1>16 DEF StackPush, Does
  <2>2. s \in Objects
    BY <1>16, TopTypes DEF StackPush, IsA, Values
  <2> HIDE DEF s
  <2>3. heap.cell[In(s, size[s] + 1)] = None
    BY <2>1, <2>2, AtExec, OpcodeShape, Typing
  <2>4. QED
    BY <2>0, <2>1, <2>3, Fits
<1>17. CASE StackPop(t)
  <2>1. \A i \in DOMAIN todo' : todo'[i].op # "store"
    BY <1>17 DEF StackPop, Does, Drop, Put, RefPut
  <2>2. QED
    BY <2>1, OpcodeShape, Fits
<1>18. CASE AddClosure(t)
  <2>0. heap' = heap
    BY OpcodeShape
  <2> DEFINE f == At(Top(t, 1))
             a == At(In(f, 1))
  <2>1. PICK c : todo' = <<Drop(Top(t, 0)), Store(In(a, size[a] + 1), c)>> /\ size[a] < Cells
    BY <1>18 DEF AddClosure, Does
  <2>2. f \in Objects
    BY <1>18, TopTypes DEF AddClosure, IsA, Values
  <2>3. a \in Objects
    BY <1>18, <2>2, CellTypes DEF AddClosure, IsA, Values
  <2> HIDE DEF a, f
  <2>4. heap.cell[In(a, size[a] + 1)] = None
    <3>1. size[a] + 1 \in 1..Cells /\ size[a] + 1 > size[a]
      BY <2>1, <2>3, Typing
    <3>2. QED
      BY <2>3, <3>1, AtExec, OpcodeShape
  <2>5. QED
    BY <2>0, <2>1, <2>4, Fits
<1>19. CASE FirstClosure(t)
  <2>0. heap' = heap
    BY OpcodeShape
  <2> DEFINE f == At(Top(t, 1))
  <2>1. PICK a, c : /\ a \in Objects
                    /\ todo' = <<Drop(Top(t, 0)), Store(In(f, 1), a), Store(In(a, 1), c)>>
                    /\ kind[a] = "free" /\ kind[f] = "Fun" /\ heap.cell[In(f, 1)] = None
    BY <1>19 DEF FirstClosure, Does, IsA, At
  <2> HIDE DEF f
  <2>2. size[a] = 0
    BY <2>1 DEF IInv, Bounds
  <2>3. heap.cell[In(a, 1)] = None
    BY <2>1, <2>2, AtExec, OpcodeShape, Typing
  <2>4. a # f
    BY <2>1
  <2>5. In(f, 1) # In(a, 1)
    BY <2>4, PlaceNames
  <2>6. QED
    BY <2>0, <2>1, <2>3, <2>5, Fits
<1>20. CASE Call(t)
  <2>0. heap' = heap
    BY OpcodeShape
  <2>1. PICK p, v : todo' = <<Drop(p), Store(Callee(t, Len(frames[t]) + 1), v)>> /\ heap.cell[Callee(t, Len(frames[t]) + 1)] = None
    BY <1>20, AtExec, OpcodeShape, Typing, TopTypes DEF Call, Enters, Does
  <2>2. QED
    BY <2>1, <2>0, Fits
<1>21. CASE CallVC(t)
  <2>0. heap' = heap
    BY OpcodeShape
  <2>1. PICK p, q, v : todo' = <<Drop(p), Drop(q), Store(Callee(t, Len(frames[t]) + 1), v)>> /\ heap.cell[Callee(t, Len(frames[t]) + 1)] = None
    BY SMTT(30), <1>21, AtExec, OpcodeShape, Typing, TopTypes DEF CallVC, Enters, Does
  <2>2. QED
    BY <2>1, <2>0, Fits
<1>22. CASE CallLabel(t)
  <2>1. \A i \in DOMAIN todo' : todo'[i].op # "store"
    BY <1>22 DEF CallLabel, Does, Drop, Put, RefPut
  <2>2. QED
    BY <2>1, OpcodeShape, Fits
<1>23. CASE Ret(t)
  <2>1. \A i \in DOMAIN todo' : todo'[i].op # "store"
    BY <1>23 DEF Ret, Does, Drop, Put, RefPut
  <2>2. QED
    BY <2>1, OpcodeShape, Fits
<1>24. CASE RetVal(t)
  <2>1. \A i \in DOMAIN todo' : todo'[i].op # "store"
    BY <1>24 DEF RetVal, Does, Drop, Put, RefPut
  <2>2. QED
    BY <2>1, OpcodeShape, Fits
<1>25. CASE Throw(t)
  <2>1. PICK k \in 0..Len(frames[t]) :
          todo' = <<Drop(Top(t, 0))>>
                  \o [i \in 1..(Len(frames[t]) - k) |-> Drop(Callee(t, Len(frames[t]) + 1 - i))]
    BY <1>25 DEF Throw, Does
  <2> DEFINE m == Len(frames[t]) - k
             b == [i \in 1..m |-> Drop(Callee(t, Len(frames[t]) + 1 - i))]
  <2>2. m \in Nat
    BY Typing
  <2>3. \A i \in 1..(1 + m) : (<<Drop(Top(t, 0))>> \o b)[i].op # "store"
    BY <2>2 DEF Drop
  <2>4. DOMAIN (<<Drop(Top(t, 0))>> \o b) = 1..(1 + m)
    BY <2>2
  <2>5. todo' = <<Drop(Top(t, 0))>> \o b
    BY <2>1
  <2> HIDE DEF b, m
  <2>6. \A i \in DOMAIN todo' : todo'[i].op # "store"
    BY <2>3, <2>4, <2>5
  <2>7. QED
    BY <2>6, OpcodeShape, Fits
<1>26. CASE NewThread(t)
  <2>0. heap' = heap
    BY OpcodeShape
  <2>1. PICK u, v : /\ u \in Threads
                    /\ todo' = <<Drop(Top(t, 0)), Store(Data(u, 1), v)>>
                    /\ depth[u] = 0
    BY <1>26 DEF NewThread, Does
  <2>2. heap.cell[Data(u, 1)] = None
    <3>1. 1 \in 1..StackSize[u] /\ 1 > depth[u]
      BY <2>1, HeapAssumption
    <3>2. QED
      BY <2>1, <3>1, AtExec, OpcodeShape
  <2>3. QED
    BY <2>0, <2>1, <2>2, Fits
<1>27. CASE Exit(t)
  <2> DEFINE a == [i \in 1..locals[t] |-> Drop(Local(t, i))]
             b == [i \in 1..depth[t] |-> Drop(Data(t, i))]
  <2>1. todo' = a \o b
    BY <1>27 DEF Exit, Does
  <2>2. locals[t] \in Nat /\ depth[t] \in Nat
    BY Typing
  <2>3. \A i \in 1..(locals[t] + depth[t]) : (a \o b)[i].op # "store"
    BY <2>2 DEF Drop
  <2>4. DOMAIN (a \o b) = 1..(locals[t] + depth[t])
    BY <2>2
  <2> HIDE DEF a, b
  <2>5. \A i \in DOMAIN todo' : todo'[i].op # "store"
    BY <2>1, <2>3, <2>4
  <2>6. QED
    BY <2>5, OpcodeShape, Fits
<1>28. QED
  BY <1>1, <1>2, <1>3, <1>4, <1>5, <1>6, <1>7, <1>8, <1>9, <1>10, <1>11, <1>12, <1>13, <1>14, <1>15, <1>16, <1>17, <1>18, <1>19, <1>20, <1>21, <1>22, <1>23, <1>24, <1>25, <1>26, <1>27 DEF Opcode

\* A place that lies within the new bounds of the stack or object it is part of.
WithinNext(p) ==
    /\ \A u \in Threads : \A i \in 1..StackSize[u] : p = Data(u, i) => i <= depth'[u]
    /\ \A u \in Threads : \A i \in 1..LocalSize[u] : p = Local(u, i) => i <= locals'[u]
    /\ \A u \in Threads : \A i \in 1..CallDepth[u] : p = Callee(u, i) => i <= Len(frames'[u])
    /\ \A c \in Objects : \A i \in 1..Cells : p = In(c, i) => i <= size'[c]

FillsWithin == \A i \in DOMAIN todo' : todo'[i].op # "drop" => WithinNext(todo'[i].at)

\* The places within the bounds that an opcode sets.
LEMMA WithinPlaces ==
    /\ \A u, i : i <= depth'[u] => WithinNext(Data(u, i))
    /\ \A u, i : i <= locals'[u] => WithinNext(Local(u, i))
    /\ \A u, i : i <= Len(frames'[u]) => WithinNext(Callee(u, i))
    /\ \A c, i : i <= size'[c] => WithinNext(In(c, i))
    /\ \A u, i : WithinNext(Reg(u, i))
    /\ \A i : WithinNext(Mem(i))
<1>1. \A u, i : i <= depth'[u] => WithinNext(Data(u, i))
  BY DEF WithinNext, Data, Local, Reg, Callee, In
<1>2. \A u, i : i <= locals'[u] => WithinNext(Local(u, i))
  BY DEF WithinNext, Data, Local, Reg, Callee, In
<1>3. \A u, i : i <= Len(frames'[u]) => WithinNext(Callee(u, i))
  BY DEF WithinNext, Data, Local, Reg, Callee, In
<1>4. \A c, i : i <= size'[c] => WithinNext(In(c, i))
  BY DEF WithinNext, Data, Local, Reg, Callee, In
<1>5. \A u, i : WithinNext(Reg(u, i))
  BY DEF WithinNext, Data, Local, Reg, Callee, In
<1>6. \A i : WithinNext(Mem(i))
  <2>1. \A u, i, j : Mem(i) # Data(u, j) /\ Mem(i) # Local(u, j) /\ Mem(i) # Callee(u, j) /\ Mem(i) # In(u, j)
    BY DEF Mem, Data, Local, Callee, In
  <2>2. QED
    BY <2>1 DEF WithinNext
<1>7. QED
  BY <1>1, <1>2, <1>3, <1>4, <1>5, <1>6

\* The lists of steps whose stores keep within the bounds.
LEMMA Fills ==
    /\ (\A i \in DOMAIN todo' : todo'[i].op = "drop") => FillsWithin
    /\ \A p, v : todo' = <<Store(p, v)>> /\ WithinNext(p) => FillsWithin
    /\ \A p, q, v : todo' \in {<<Drop(p), Store(q, v)>>, <<Drop(p), Put(q, v)>>, <<Drop(p), RefPut(q, v)>>}
           /\ WithinNext(q) => FillsWithin
    /\ \A p, r, q, v : todo' \in {<<Drop(p), Drop(r), Store(q, v)>>, <<Drop(p), Put(q, v), Drop(r)>>}
           /\ WithinNext(q) => FillsWithin
    /\ \A p, v, q, w : todo' = <<Store(p, v), Store(q, w)>> /\ WithinNext(p) /\ WithinNext(q) => FillsWithin
    /\ \A p, q, v, r, w : todo' = <<Drop(p), Store(q, v), Store(r, w)>>
           /\ WithinNext(q) /\ WithinNext(r) => FillsWithin
<1> USE DEF FillsWithin, Drop, Store, Put, RefPut
<1>1. (\A i \in DOMAIN todo' : todo'[i].op = "drop") => FillsWithin
  OBVIOUS
<1>2. ASSUME NEW p, NEW v, todo' = <<Store(p, v)>>, WithinNext(p) PROVE FillsWithin
  BY <1>2
<1>3. ASSUME NEW p, NEW q, NEW v, WithinNext(q),
             todo' \in {<<Drop(p), Store(q, v)>>, <<Drop(p), Put(q, v)>>, <<Drop(p), RefPut(q, v)>>}
      PROVE FillsWithin
  BY <1>3
<1>4. ASSUME NEW p, NEW r, NEW q, NEW v, WithinNext(q),
             todo' \in {<<Drop(p), Drop(r), Store(q, v)>>, <<Drop(p), Put(q, v), Drop(r)>>}
      PROVE  FillsWithin
  BY <1>4
<1>5. ASSUME NEW p, NEW v, NEW q, NEW w, todo' = <<Store(p, v), Store(q, w)>>, WithinNext(p), WithinNext(q)
      PROVE  FillsWithin
  BY <1>5
<1>6. ASSUME NEW p, NEW q, NEW v, NEW r, NEW w, todo' = <<Drop(p), Store(q, v), Store(r, w)>>,
             WithinNext(q), WithinNext(r)
      PROVE  FillsWithin
  BY <1>6
<1>7. QED
  BY <1>1, <1>2, <1>3, <1>4, <1>5, <1>6

\* What an opcode fills lies within the new bounds.
LEMMA OpcodeFills ==
    ASSUME IInv, NEW t \in Threads, Opcode(t), ~Swap(t)
    PROVE  FillsWithin
<1>1. CASE Load(t)
  <2>1. PICK v : todo' = <<Store(Data(t, depth[t] + 1), v)>> /\ depth' = [depth EXCEPT ![t] = depth[t] + 1]
    BY <1>1 DEF Load, Does, Depth
  <2>2. depth \in [Threads -> Nat]
    BY DEF IInv, TypeOK
  <2>8. WithinNext(Data(t, depth[t] + 1))
    BY <2>1, <2>2, WithinPlaces
  <2>9. QED
    BY <2>1, <2>8, Fills
<1>2. CASE Pop(t)
  <2>1. \A i \in DOMAIN todo' : todo'[i].op = "drop"
    BY <1>2 DEF Pop, Does, Drop
  <2>2. QED
    BY <2>1, Fills
<1>3. CASE Save(t)
  <2>1. PICK p, v : /\ p \in Assignable(t)
                    /\ todo' = <<Drop(Top(t, 0)), Put(p, v)>>
    BY <1>3 DEF Save, Does
  <2>2. locals' = locals /\ size' = size
    BY <1>3 DEF Save, SameHeap, SameFrames
  <2>3. \/ p \in MemPlaces \/ \E i \in 1..locals[t] : p = Local(t, i)
        \/ \E i \in 1..Registers[t] : p = Reg(t, i)
        \/ \E i \in 1..size[Closure(t)] : Closure(t) # None /\ p = In(Closure(t), i)
    BY <2>1 DEF Assignable, CellsOf
  <2>4. Closure(t) # None => size[Closure(t)] \in Nat
    BY ReadTypes, Typing DEF Values
  <2>5. locals[t] \in Nat
    BY Typing
  <2>8. WithinNext(p)
    BY <2>2, <2>3, <2>4, <2>5, WithinPlaces DEF MemPlaces
  <2>9. QED
    BY <2>1, <2>8, Fills
<1>4. CASE EnvSave(t)
  <2>1. PICK p, v : /\ p \in MemPlaces
                    /\ todo' = <<Drop(Top(t, 0)), RefPut(p, v)>>
    BY <1>4 DEF EnvSave, Does
  <2>8. WithinNext(p)
    BY <2>1, WithinPlaces DEF MemPlaces
  <2>9. QED
    BY <2>1, <2>8, Fills
<1>5. CASE Enter(t)
  <2>1. \A i \in DOMAIN todo' : todo'[i].op = "drop"
    BY <1>5 DEF Enter, Does, Drop
  <2>2. QED
    BY <2>1, Fills
<1>6. CASE Leave(t)
  <2>1. \A i \in DOMAIN todo' : todo'[i].op = "drop"
    BY <1>6 DEF Leave, Does, Drop
  <2>2. QED
    BY <2>1, Fills
<1>7. CASE Create(t)
  <2>1. PICK v : todo' = <<Store(Data(t, depth[t] + 1), v)>> /\ depth' = [depth EXCEPT ![t] = depth[t] + 1]
    BY <1>7 DEF Create, Does, Depth
  <2>2. depth \in [Threads -> Nat]
    BY DEF IInv, TypeOK
  <2>8. WithinNext(Data(t, depth[t] + 1))
    BY <2>1, <2>2, WithinPlaces
  <2>9. QED
    BY <2>1, <2>8, Fills
<1>8. CASE CreateVObj(t)
  <2>1. PICK c, m : /\ c \in Objects
                    /\ todo' = <<Store(In(c, 1), m), Store(Data(t, depth[t] + 1), c)>>
                    /\ depth' = [depth EXCEPT ![t] = depth[t] + 1]
                    /\ size' = [size EXCEPT ![c] = 1]
    BY <1>8 DEF CreateVObj, Does, Depth
  <2>2. depth \in [Threads -> Nat] /\ size \in [Objects -> 0..Cells]
    BY DEF IInv, TypeOK
  <2>8. WithinNext(In(c, 1)) /\ WithinNext(Data(t, depth[t] + 1))
    BY <2>1, <2>2, WithinPlaces
  <2>9. QED
    BY <2>1, <2>8, Fills
<1>9. CASE Convert(t)
  <2>1. PICK v : todo' = <<Drop(Top(t, 0)), Store(Data(t, depth[t]), v)>> /\ depth' = depth
    BY <1>9, Typing DEF Convert, Does, Top
  <2>2. depth \in [Threads -> Nat]
    BY DEF IInv, TypeOK
  <2>8. WithinNext(Data(t, depth[t]))
    BY <2>1, <2>2, WithinPlaces
  <2>9. QED
    BY <2>1, <2>8, Fills
<1>10. CASE Combine(t)
  <2>1. PICK v : todo' = <<Drop(Top(t, 0)), Drop(Top(t, 1)), Store(Data(t, depth[t] - 1), v)>> /\ depth' = [depth EXCEPT ![t] = depth[t] - 1]
    BY <1>10 DEF Combine, Does, Top, Depth
  <2>2. depth \in [Threads -> Nat]
    BY DEF IInv, TypeOK
  <2>8. WithinNext(Data(t, depth[t] - 1))
    BY <2>1, <2>2, WithinPlaces
  <2>9. QED
    BY <2>1, <2>8, Fills
<1>11. CASE Clone(t)
  <2>1. PICK v : todo' = <<Drop(Top(t, 0)), Store(Data(t, depth[t]), v)>> /\ depth' = depth
    BY <1>11, Typing DEF Clone, Cloned, Does, Top
  <2>2. depth \in [Threads -> Nat]
    BY DEF IInv, TypeOK
  <2>8. WithinNext(Data(t, depth[t]))
    BY <2>1, <2>2, WithinPlaces
  <2>9. QED
    BY <2>1, <2>8, Fills
<1>12. CASE CloneVObj(t)
  <2>1. PICK c \in Objects : /\ todo' = <<Drop(Top(t, 0)), Store(In(c, 1), At(In(At(Top(t, 0)), 1))), Store(Top(t, 0), c)>>
                            /\ depth' = depth /\ size' = [size EXCEPT ![c] = 1] /\ depth[t] > 0
    BY <1>12 DEF CloneVObj, Does
  <2>2. size'[c] = 1 /\ Top(t, 0) = Data(t, depth[t]) /\ depth'[t] = depth[t] /\ depth[t] \in Nat
    BY <2>1, TopTypes, Typing DEF IInv, TypeOK
  <2>8. WithinNext(In(c, 1)) /\ WithinNext(Top(t, 0))
    BY <2>2, WithinPlaces
  <2>9. QED
    BY <2>1, <2>8, Fills
<1>13. CASE Get(t)
  <2>1. PICK v : todo' = <<Drop(Top(t, 0)), Store(Data(t, depth[t]), v)>> /\ depth' = depth
    BY <1>13, Typing DEF Get, Contents, Does, Top
  <2>2. depth \in [Threads -> Nat]
    BY DEF IInv, TypeOK
  <2>8. WithinNext(Data(t, depth[t]))
    BY <2>1, <2>2, WithinPlaces
  <2>9. QED
    BY <2>1, <2>8, Fills
<1>14. CASE ArraySet(t)
  <2> DEFINE a == At(Top(t, 1))
  <2>1. PICK i \in 1..Cells : /\ todo' = <<Drop(Top(t, 0)), Put(In(a, i), At(Top(t, 0)))>>
                            /\ size' = [size EXCEPT ![a] = IF i > size[a] THEN i ELSE size[a]]
    BY <1>14 DEF ArraySet, Does
  <2>2. a \in Objects
    BY <1>14, Typing, TopTypes DEF ArraySet, IsA, Values
  <2> HIDE DEF a
  <2>3. size'[a] = IF i > size[a] THEN i ELSE size[a]
    BY <2>1, <2>2 DEF IInv, TypeOK
  <2>4. i <= size'[a]
    BY <2>1, <2>2, <2>3, Typing
  <2>8. WithinNext(In(a, i))
    BY <2>4, WithinPlaces
  <2>9. QED
    BY <2>1, <2>8, Fills
<1>15. CASE MapSet(t)
  <2> DEFINE a == At(Top(t, 0))
  <2>1. PICK i \in 1..Cells : /\ todo' = <<Drop(Top(t, 0)), Drop(Top(t, 1)), Store(In(a, i), At(Top(t, 1)))>>
                            /\ size' = [size EXCEPT ![a] = IF i > size[a] THEN i ELSE size[a]]
    BY <1>15 DEF MapSet, Does
  <2>2. a \in Objects
    BY <1>15, Typing, TopTypes DEF MapSet, IsA, Values
  <2> HIDE DEF a
  <2>3. size'[a] = IF i > size[a] THEN i ELSE size[a]
    BY <2>1, <2>2 DEF IInv, TypeOK
  <2>4. i <= size'[a]
    BY <2>1, <2>2, <2>3, Typing
  <2>8. WithinNext(In(a, i))
    BY <2>4, WithinPlaces
  <2>9. QED
    BY <2>1, <2>8, Fills
<1>16. CASE StackPush(t)
  <2> DEFINE a == At(Top(t, 1))
  <2>1. /\ todo' = <<Drop(Top(t, 0)), Drop(Top(t, 1)), Store(In(a, size[a] + 1), At(Top(t, 0)))>>
        /\ size' = [size EXCEPT ![a] = size[a] + 1]
    BY <1>16 DEF StackPush, Does
  <2>2. a \in Objects
    BY <1>16, Typing, TopTypes, CellTypes DEF StackPush, IsA, Values
  <2> HIDE DEF a
  <2>3. size'[a] = size[a] + 1 /\ size[a] \in Nat
    BY <2>1, <2>2, Typing DEF IInv, TypeOK
  <2>8. WithinNext(In(a, size[a] + 1))
    BY <2>3, WithinPlaces
  <2>9. QED
    BY <2>1, <2>8, Fills
<1>17. CASE StackPop(t)
  <2>1. \A i \in DOMAIN todo' : todo'[i].op = "drop"
    BY <1>17 DEF StackPop, Does, Drop
  <2>2. QED
    BY <2>1, Fills
<1>18. CASE AddClosure(t)
  <2> DEFINE a == At(In(At(Top(t, 1)), 1))
  <2>1. PICK v : /\ todo' = <<Drop(Top(t, 0)), Store(In(a, size[a] + 1), v)>>
                 /\ size' = [size EXCEPT ![a] = size[a] + 1]
    BY <1>18 DEF AddClosure, Does
  <2>2. a \in Objects
    BY <1>18, Typing, TopTypes, CellTypes DEF AddClosure, IsA, Values
  <2> HIDE DEF a
  <2>3. size'[a] = size[a] + 1 /\ size[a] \in Nat
    BY <2>1, <2>2, Typing DEF IInv, TypeOK
  <2>8. WithinNext(In(a, size[a] + 1))
    BY <2>3, WithinPlaces
  <2>9. QED
    BY <2>1, <2>8, Fills
<1>19. CASE FirstClosure(t)
  <2> DEFINE f == At(Top(t, 1))
  <2>1. PICK a, c : /\ a \in Objects
                    /\ todo' = <<Drop(Top(t, 0)), Store(In(f, 1), a), Store(In(a, 1), c)>>
                    /\ size' = [size EXCEPT ![f] = 1, ![a] = 1]
    BY <1>19 DEF FirstClosure, Does
  <2>2. f \in Objects
    BY <1>19, Typing, TopTypes DEF FirstClosure, IsA, Values
  <2> HIDE DEF f
  <2>3. size'[a] = 1 /\ size'[f] = 1
    BY <2>1, <2>2 DEF IInv, TypeOK
  <2>8. WithinNext(In(f, 1)) /\ WithinNext(In(a, 1))
    BY <2>3, WithinPlaces
  <2>9. QED
    BY <2>1, <2>8, Fills
<1>20. CASE Call(t)
  <2>1. PICK p, v, c : /\ todo' = <<Drop(p), Store(Callee(t, Len(frames[t]) + 1), v)>>
                       /\ frames' = [frames EXCEPT ![t] = Append(frames[t], c)]
    BY <1>20 DEF Call, Does, Enters
  <2>2. frames'[t] = Append(frames[t], c) /\ frames[t] \in Seq(Values)
    BY <2>1 DEF IInv, TypeOK
  <2>3. Len(frames'[t]) = Len(frames[t]) + 1 /\ Len(frames[t]) \in Nat
    BY <2>2
  <2>8. WithinNext(Callee(t, Len(frames[t]) + 1))
    BY <2>3, WithinPlaces
  <2>9. QED
    BY <2>1, <2>8, Fills
<1>21. CASE CallVC(t)
  <2>1. PICK p, r, v, c : /\ todo' = <<Drop(p), Drop(r), Store(Callee(t, Len(frames[t]) + 1), v)>>
                       /\ frames' = [frames EXCEPT ![t] = Append(frames[t], c)]
    BY <1>21 DEF CallVC, Does, Enters
  <2>2. frames'[t] = Append(frames[t], c) /\ frames[t] \in Seq(Values)
    BY <2>1 DEF IInv, TypeOK
  <2>3. Len(frames'[t]) = Len(frames[t]) + 1 /\ Len(frames[t]) \in Nat
    BY <2>2
  <2>8. WithinNext(Callee(t, Len(frames[t]) + 1))
    BY <2>3, WithinPlaces
  <2>9. QED
    BY <2>1, <2>8, Fills
<1>22. CASE CallLabel(t)
  <2>1. \A i \in DOMAIN todo' : todo'[i].op = "drop"
    BY <1>22 DEF CallLabel, Does, Drop
  <2>2. QED
    BY <2>1, Fills
<1>23. CASE Ret(t)
  <2>1. \A i \in DOMAIN todo' : todo'[i].op = "drop"
    BY <1>23 DEF Ret, Does, Drop
  <2>2. QED
    BY <2>1, Fills
<1>24. CASE RetVal(t)
  <2>1. PICK v, p : todo' = <<Drop(Top(t, 0)), Put(Data(t, depth[t] - 1), v), Drop(p)>> /\ depth' = [depth EXCEPT ![t] = depth[t] - 1]
    BY <1>24 DEF RetVal, Leaves, Does, Top, Depth
  <2>2. depth \in [Threads -> Nat]
    BY DEF IInv, TypeOK
  <2>8. WithinNext(Data(t, depth[t] - 1))
    BY <2>1, <2>2, WithinPlaces
  <2>9. QED
    BY <2>1, <2>8, Fills
<1>25. CASE Throw(t)
  <2>1. PICK k \in 0..Len(frames[t]) :
          todo' = <<Drop(Top(t, 0))>>
                  \o [i \in 1..(Len(frames[t]) - k) |-> Drop(Callee(t, Len(frames[t]) + 1 - i))]
    BY <1>25 DEF Throw, Does
  <2> DEFINE m == Len(frames[t]) - k
             b == [i \in 1..m |-> Drop(Callee(t, Len(frames[t]) + 1 - i))]
  <2>2. m \in Nat
    BY Typing
  <2>3. \A i \in 1..(1 + m) : (<<Drop(Top(t, 0))>> \o b)[i].op = "drop"
    BY <2>2 DEF Drop
  <2>4. DOMAIN (<<Drop(Top(t, 0))>> \o b) = 1..(1 + m)
    BY <2>2
  <2>5. todo' = <<Drop(Top(t, 0))>> \o b
    BY <2>1
  <2> HIDE DEF b, m
  <2>6. \A i \in DOMAIN todo' : todo'[i].op = "drop"
    BY <2>3, <2>4, <2>5
  <2>7. QED
    BY <2>6, Fills
<1>26. CASE NewThread(t)
  <2>1. PICK u, v : /\ u \in Threads
                    /\ todo' = <<Drop(Top(t, 0)), Store(Data(u, 1), v)>>
                    /\ depth' = [depth EXCEPT ![u] = 1, ![t] = depth[t] - 1]
                    /\ depth[u] = 0 /\ depth[t] > 1
    BY <1>26 DEF NewThread, Does
  <2>2. depth'[u] = 1
    <3>1. u # t
      BY <2>1
    <3>2. QED
      BY <2>1, <3>1 DEF IInv, TypeOK
  <2>8. WithinNext(Data(u, 1))
    BY <2>2, WithinPlaces
  <2>9. QED
    BY <2>1, <2>8, Fills
<1>27. CASE Exit(t)
  <2> DEFINE a == [i \in 1..locals[t] |-> Drop(Local(t, i))]
             b == [i \in 1..depth[t] |-> Drop(Data(t, i))]
  <2>1. todo' = a \o b
    BY <1>27 DEF Exit, Does
  <2>2. locals[t] \in Nat /\ depth[t] \in Nat
    BY Typing
  <2>3. \A i \in 1..(locals[t] + depth[t]) : (a \o b)[i].op = "drop"
    BY <2>2 DEF Drop
  <2>4. DOMAIN (a \o b) = 1..(locals[t] + depth[t])
    BY <2>2
  <2> HIDE DEF a, b
  <2>5. \A i \in DOMAIN todo' : todo'[i].op = "drop"
    BY <2>1, <2>3, <2>4
  <2>6. QED
    BY <2>5, Fills
<1>28. QED
  BY <1>1, <1>2, <1>3, <1>4, <1>5, <1>6, <1>7, <1>8, <1>9, <1>10, <1>11, <1>12, <1>13, <1>14, <1>15, <1>16, <1>17, <1>18, <1>19, <1>20, <1>21, <1>22, <1>23, <1>24, <1>25, <1>26, <1>27 DEF Opcode

\* What leaves a data stack is dropped.
LEMMA PoppedData ==
    ASSUME IInv, NEW t \in Threads, Opcode(t), ~Swap(t)
    PROVE  \A u \in Threads : \A i \in 1..StackSize[u] : depth'[u] < i /\ i <= depth[u] =>
               \E j \in DOMAIN todo' : todo'[j].at = Data(u, i)
<1>1. CASE Load(t)
  <2>1. depth' = [depth EXCEPT ![t] = depth[t] + 1]
    BY <1>1 DEF Load, Depth
  <2>2. \A u \in Threads : depth[u] \in Nat /\ depth[u] <= depth'[u] /\ depth'[u] \in Nat
    BY <2>1, Typing DEF IInv, TypeOK
  <2>3. QED
    BY <2>2
<1>2. CASE Pop(t)
  <2>1. /\ depth' = [depth EXCEPT ![t] = depth[t] - 1]
        /\ 1 \in DOMAIN todo' /\ todo'[1].at = Top(t, 0) /\ depth[t] > 0
    BY <1>2, Typing DEF Pop, Depth, Does, Drop
  <2>2. \A u \in Threads : depth[u] \in Nat /\ depth'[u] = IF u = t THEN depth[t] - 1 ELSE depth[u]
    BY <2>1, Typing DEF IInv, TypeOK
  <2>3. \A u \in Threads : \A i \in 1..StackSize[u] : depth'[u] < i /\ i <= depth[u] => u = t /\ i = depth[t]
    BY <2>2
  <2>4. QED
    BY <2>1, <2>3, TopTypes
<1>3. CASE Save(t)
  <2>1. /\ depth' = [depth EXCEPT ![t] = depth[t] - 1]
        /\ 1 \in DOMAIN todo' /\ todo'[1].at = Top(t, 0) /\ depth[t] > 0
    BY <1>3, Typing DEF Save, Depth, Does, Drop
  <2>2. \A u \in Threads : depth[u] \in Nat /\ depth'[u] = IF u = t THEN depth[t] - 1 ELSE depth[u]
    BY <2>1, Typing DEF IInv, TypeOK
  <2>3. \A u \in Threads : \A i \in 1..StackSize[u] : depth'[u] < i /\ i <= depth[u] => u = t /\ i = depth[t]
    BY <2>2
  <2>4. QED
    BY <2>1, <2>3, TopTypes
<1>4. CASE EnvSave(t)
  <2>1. /\ depth' = [depth EXCEPT ![t] = depth[t] - 1]
        /\ 1 \in DOMAIN todo' /\ todo'[1].at = Top(t, 0) /\ depth[t] > 0
    BY <1>4, Typing DEF EnvSave, Depth, Does, Drop
  <2>2. \A u \in Threads : depth[u] \in Nat /\ depth'[u] = IF u = t THEN depth[t] - 1 ELSE depth[u]
    BY <2>1, Typing DEF IInv, TypeOK
  <2>3. \A u \in Threads : \A i \in 1..StackSize[u] : depth'[u] < i /\ i <= depth[u] => u = t /\ i = depth[t]
    BY <2>2
  <2>4. QED
    BY <2>1, <2>3, TopTypes
<1>5. CASE Enter(t)
  <2>1. depth' = depth
    BY <1>5 DEF Enter
  <2>2. \A u \in Threads : depth[u] \in Nat
    BY Typing
  <2>3. QED
    BY <2>1, <2>2
<1>6. CASE Leave(t)
  <2>1. depth' = depth
    BY <1>6 DEF Leave
  <2>2. \A u \in Threads : depth[u] \in Nat
    BY Typing
  <2>3. QED
    BY <2>1, <2>2
<1>7. CASE Create(t)
  <2>1. depth' = [depth EXCEPT ![t] = depth[t] + 1]
    BY <1>7 DEF Create, Depth
  <2>2. \A u \in Threads : depth[u] \in Nat /\ depth[u] <= depth'[u] /\ depth'[u] \in Nat
    BY <2>1, Typing DEF IInv, TypeOK
  <2>3. QED
    BY <2>2
<1>8. CASE CreateVObj(t)
  <2>1. depth' = [depth EXCEPT ![t] = depth[t] + 1]
    BY <1>8 DEF CreateVObj, Depth
  <2>2. \A u \in Threads : depth[u] \in Nat /\ depth[u] <= depth'[u] /\ depth'[u] \in Nat
    BY <2>1, Typing DEF IInv, TypeOK
  <2>3. QED
    BY <2>2
<1>9. CASE Convert(t)
  <2>1. depth' = depth
    BY <1>9 DEF Convert
  <2>2. \A u \in Threads : depth[u] \in Nat
    BY Typing
  <2>3. QED
    BY <2>1, <2>2
<1>10. CASE Combine(t)
  <2>1. /\ depth' = [depth EXCEPT ![t] = depth[t] - 1]
        /\ 1 \in DOMAIN todo' /\ todo'[1].at = Top(t, 0) /\ depth[t] > 0
    BY <1>10, Typing DEF Combine, Depth, Does, Drop
  <2>2. \A u \in Threads : depth[u] \in Nat /\ depth'[u] = IF u = t THEN depth[t] - 1 ELSE depth[u]
    BY <2>1, Typing DEF IInv, TypeOK
  <2>3. \A u \in Threads : \A i \in 1..StackSize[u] : depth'[u] < i /\ i <= depth[u] => u = t /\ i = depth[t]
    BY <2>2
  <2>4. QED
    BY <2>1, <2>3, TopTypes
<1>11. CASE Clone(t)
  <2>1. depth' = depth
    BY <1>11 DEF Clone
  <2>2. \A u \in Threads : depth[u] \in Nat
    BY Typing
  <2>3. QED
    BY <2>1, <2>2
<1>12. CASE CloneVObj(t)
  <2>1. depth' = depth
    BY <1>12 DEF CloneVObj
  <2>2. \A u \in Threads : depth[u] \in Nat
    BY Typing
  <2>3. QED
    BY <2>1, <2>2
<1>13. CASE Get(t)
  <2>1. depth' = depth
    BY <1>13 DEF Get
  <2>2. \A u \in Threads : depth[u] \in Nat
    BY Typing
  <2>3. QED
    BY <2>1, <2>2
<1>14. CASE ArraySet(t)
  <2>1. /\ depth' = [depth EXCEPT ![t] = depth[t] - 1]
        /\ 1 \in DOMAIN todo' /\ todo'[1].at = Top(t, 0) /\ depth[t] > 0
    BY <1>14, Typing DEF ArraySet, Depth, Does, Drop
  <2>2. \A u \in Threads : depth[u] \in Nat /\ depth'[u] = IF u = t THEN depth[t] - 1 ELSE depth[u]
    BY <2>1, Typing DEF IInv, TypeOK
  <2>3. \A u \in Threads : \A i \in 1..StackSize[u] : depth'[u] < i /\ i <= depth[u] => u = t /\ i = depth[t]
    BY <2>2
  <2>4. QED
    BY <2>1, <2>3, TopTypes
<1>15. CASE MapSet(t)
  <2>1. /\ depth' = [depth EXCEPT ![t] = depth[t] - 2]
        /\ 1 \in DOMAIN todo' /\ todo'[1].at = Top(t, 0) /\ depth[t] > 1
        /\ 2 \in DOMAIN todo' /\ todo'[2].at = Top(t, 1)
    BY <1>15, Typing DEF MapSet, Depth, Does, Drop
  <2>2. \A u \in Threads : depth[u] \in Nat /\ depth'[u] = IF u = t THEN depth[t] - 2 ELSE depth[u]
    BY <2>1, Typing DEF IInv, TypeOK
  <2>3. \A u \in Threads : \A i \in 1..StackSize[u] :
          depth'[u] < i /\ i <= depth[u] => u = t /\ (i = depth[t] \/ i = depth[t] - 1)
    BY <2>2
  <2>4. Top(t, 0) = Data(t, depth[t]) /\ Top(t, 1) = Data(t, depth[t] - 1)
    BY <2>1, <2>2, TopTypes
  <2>5. QED
    BY <2>1, <2>3, <2>4
<1>16. CASE StackPush(t)
  <2>1. /\ depth' = [depth EXCEPT ![t] = depth[t] - 2]
        /\ 1 \in DOMAIN todo' /\ todo'[1].at = Top(t, 0) /\ depth[t] > 1
        /\ 2 \in DOMAIN todo' /\ todo'[2].at = Top(t, 1)
    BY <1>16, Typing DEF StackPush, Depth, Does, Drop
  <2>2. \A u \in Threads : depth[u] \in Nat /\ depth'[u] = IF u = t THEN depth[t] - 2 ELSE depth[u]
    BY <2>1, Typing DEF IInv, TypeOK
  <2>3. \A u \in Threads : \A i \in 1..StackSize[u] :
          depth'[u] < i /\ i <= depth[u] => u = t /\ (i = depth[t] \/ i = depth[t] - 1)
    BY <2>2
  <2>4. Top(t, 0) = Data(t, depth[t]) /\ Top(t, 1) = Data(t, depth[t] - 1)
    BY <2>1, <2>2, TopTypes
  <2>5. QED
    BY <2>1, <2>3, <2>4
<1>17. CASE StackPop(t)
  <2>1. /\ depth' = [depth EXCEPT ![t] = depth[t] - 1]
        /\ 1 \in DOMAIN todo' /\ todo'[1].at = Top(t, 0) /\ depth[t] > 0
    BY <1>17, Typing DEF StackPop, Depth, Does, Drop
  <2>2. \A u \in Threads : depth[u] \in Nat /\ depth'[u] = IF u = t THEN depth[t] - 1 ELSE depth[u]
    BY <2>1, Typing DEF IInv, TypeOK
  <2>3. \A u \in Threads : \A i \in 1..StackSize[u] : depth'[u] < i /\ i <= depth[u] => u = t /\ i = depth[t]
    BY <2>2
  <2>4. QED
    BY <2>1, <2>3, TopTypes
<1>18. CASE AddClosure(t)
  <2>1. /\ depth' = [depth EXCEPT ![t] = depth[t] - 1]
        /\ 1 \in DOMAIN todo' /\ todo'[1].at = Top(t, 0) /\ depth[t] > 0
    BY <1>18, Typing DEF AddClosure, Cloned, Depth, Does, Drop
  <2>2. \A u \in Threads : depth[u] \in Nat /\ depth'[u] = IF u = t THEN depth[t] - 1 ELSE depth[u]
    BY <2>1, Typing DEF IInv, TypeOK
  <2>3. \A u \in Threads : \A i \in 1..StackSize[u] : depth'[u] < i /\ i <= depth[u] => u = t /\ i = depth[t]
    BY <2>2
  <2>4. QED
    BY <2>1, <2>3, TopTypes
<1>19. CASE FirstClosure(t)
  <2>1. /\ depth' = [depth EXCEPT ![t] = depth[t] - 1]
        /\ 1 \in DOMAIN todo' /\ todo'[1].at = Top(t, 0) /\ depth[t] > 0
    BY <1>19, Typing DEF FirstClosure, Depth, Does, Drop
  <2>2. \A u \in Threads : depth[u] \in Nat /\ depth'[u] = IF u = t THEN depth[t] - 1 ELSE depth[u]
    BY <2>1, Typing DEF IInv, TypeOK
  <2>3. \A u \in Threads : \A i \in 1..StackSize[u] : depth'[u] < i /\ i <= depth[u] => u = t /\ i = depth[t]
    BY <2>2
  <2>4. QED
    BY <2>1, <2>3, TopTypes
<1>20. CASE Call(t)
  <2>1. /\ depth' = [depth EXCEPT ![t] = depth[t] - 1]
        /\ 1 \in DOMAIN todo' /\ todo'[1].at = Top(t, 0) /\ depth[t] > 0
    BY <1>20, Typing DEF Call, Enters, Depth, Does, Drop
  <2>2. \A u \in Threads : depth[u] \in Nat /\ depth'[u] = IF u = t THEN depth[t] - 1 ELSE depth[u]
    BY <2>1, Typing DEF IInv, TypeOK
  <2>3. \A u \in Threads : \A i \in 1..StackSize[u] : depth'[u] < i /\ i <= depth[u] => u = t /\ i = depth[t]
    BY <2>2
  <2>4. QED
    BY <2>1, <2>3, TopTypes
<1>21. CASE CallVC(t)
  <2>1. /\ depth' = [depth EXCEPT ![t] = depth[t] - 2]
        /\ 1 \in DOMAIN todo' /\ todo'[1].at = Top(t, 0) /\ depth[t] > 1
        /\ 2 \in DOMAIN todo' /\ todo'[2].at = Top(t, 1)
    BY <1>21, Typing DEF CallVC, Enters, Depth, Does, Drop
  <2>2. \A u \in Threads : depth[u] \in Nat /\ depth'[u] = IF u = t THEN depth[t] - 2 ELSE depth[u]
    BY <2>1, Typing DEF IInv, TypeOK
  <2>3. \A u \in Threads : \A i \in 1..StackSize[u] :
          depth'[u] < i /\ i <= depth[u] => u = t /\ (i = depth[t] \/ i = depth[t] - 1)
    BY <2>2
  <2>4. Top(t, 0) = Data(t, depth[t]) /\ Top(t, 1) = Data(t, depth[t] - 1)
    BY <2>1, <2>2, TopTypes
  <2>5. QED
    BY <2>1, <2>3, <2>4
<1>22. CASE CallLabel(t)
  <2>1. depth' = depth
    BY <1>22 DEF CallLabel
  <2>2. \A u \in Threads : depth[u] \in Nat
    BY Typing
  <2>3. QED
    BY <2>1, <2>2
<1>23. CASE Ret(t)
  <2>1. CASE depth' = depth
    <3>1. \A u \in Threads : depth[u] \in Nat
      BY Typing
    <3>2. QED
      BY <2>1, <3>1
  <2>2. CASE /\ depth' = [depth EXCEPT ![t] = depth[t] - 1] /\ depth[t] > 0
             /\ 1 \in DOMAIN todo' /\ todo'[1].at = Top(t, 0)
    <3>1. \A u \in Threads : depth[u] \in Nat /\ depth'[u] = IF u = t THEN depth[t] - 1 ELSE depth[u]
      BY <2>2, Typing DEF IInv, TypeOK
    <3>2. \A u \in Threads : \A i \in 1..StackSize[u] : depth'[u] < i /\ i <= depth[u] => u = t /\ i = depth[t]
      BY <3>1
    <3>3. QED
      BY <2>2, <3>2, TopTypes
  <2>3. QED
    BY <1>23, <2>1, <2>2 DEF Ret, Does, Depth, Drop
<1>24. CASE RetVal(t)
  <2>1. /\ depth' = [depth EXCEPT ![t] = depth[t] - 1]
        /\ 1 \in DOMAIN todo' /\ todo'[1].at = Top(t, 0) /\ depth[t] > 0
    BY <1>24, Typing DEF RetVal, Leaves, Depth, Does, Drop
  <2>2. \A u \in Threads : depth[u] \in Nat /\ depth'[u] = IF u = t THEN depth[t] - 1 ELSE depth[u]
    BY <2>1, Typing DEF IInv, TypeOK
  <2>3. \A u \in Threads : \A i \in 1..StackSize[u] : depth'[u] < i /\ i <= depth[u] => u = t /\ i = depth[t]
    BY <2>2
  <2>4. QED
    BY <2>1, <2>3, TopTypes
<1>25. CASE Throw(t)
  <2>1. PICK k \in 0..Len(frames[t]) :
          todo' = <<Drop(Top(t, 0))>>
                  \o [i \in 1..(Len(frames[t]) - k) |-> Drop(Callee(t, Len(frames[t]) + 1 - i))]
    BY <1>25 DEF Throw, Does
  <2>2. depth' = [depth EXCEPT ![t] = depth[t] - 1] /\ depth[t] > 0
    BY <1>25 DEF Throw, Depth
  <2> DEFINE m == Len(frames[t]) - k
             b == [i \in 1..m |-> Drop(Callee(t, Len(frames[t]) + 1 - i))]
  <2>3. m \in Nat
    BY Typing
  <2>4. /\ 1 \in DOMAIN (<<Drop(Top(t, 0))>> \o b)
        /\ (<<Drop(Top(t, 0))>> \o b)[1] = Drop(Top(t, 0))
    BY <2>3
  <2> HIDE DEF b, m
  <2>5. 1 \in DOMAIN todo' /\ todo'[1] = Drop(Top(t, 0))
    BY <2>1, <2>4 DEF b, m
  <2>6. todo'[1].at = Top(t, 0)
    BY <2>5 DEF Drop
  <2>7. \A u \in Threads : depth[u] \in Nat /\ depth'[u] = IF u = t THEN depth[t] - 1 ELSE depth[u]
    BY <2>2, Typing DEF IInv, TypeOK
  <2>8. \A u \in Threads : \A i \in 1..StackSize[u] : depth'[u] < i /\ i <= depth[u] => u = t /\ i = depth[t]
    BY <2>7
  <2>9. QED
    BY <2>2, <2>5, <2>6, <2>8, TopTypes
<1>26. CASE NewThread(t)
  <2>0. PICK u \in Threads : /\ depth' = [depth EXCEPT ![u] = 1, ![t] = depth[t] - 1]
                            /\ depth[u] = 0 /\ depth[t] > 1
                            /\ todo' = <<Drop(Top(t, 0)), Store(Data(u, 1), At(Top(t, 0)))>>
    BY <1>26 DEF NewThread, Does
  <2>1. /\ depth' = [depth EXCEPT ![u] = 1, ![t] = depth[t] - 1]
        /\ depth[u] = 0 /\ depth[t] > 1
        /\ 1 \in DOMAIN todo' /\ todo'[1].at = Top(t, 0)
    BY <2>0 DEF Drop
  <2>2. u # t
    BY <2>1
  <2>3. \A v \in Threads : depth[v] \in Nat /\ depth'[v] = IF v = t THEN depth[t] - 1 ELSE IF v = u THEN 1 ELSE depth[v]
    BY <2>1, <2>2, Typing DEF IInv, TypeOK
  <2>4. \A v \in Threads : \A i \in 1..StackSize[v] : depth'[v] < i /\ i <= depth[v] => v = t /\ i = depth[t]
    BY <2>1, <2>3
  <2>5. QED
    BY <2>1, <2>3, <2>4, TopTypes
<1>27. CASE Exit(t)
  <2> DEFINE a == [i \in 1..locals[t] |-> Drop(Local(t, i))]
             b == [i \in 1..depth[t] |-> Drop(Data(t, i))]
  <2>1. todo' = a \o b
    BY <1>27 DEF Exit, Does
  <2>2. locals[t] \in Nat /\ depth[t] \in Nat
    BY Typing
  <2>3. \A i \in 1..depth[t] : /\ (a \o b)[locals[t] + i] = Drop(Data(t, i))
                              /\ locals[t] + i \in DOMAIN (a \o b)
    BY <2>2
  <2> HIDE DEF a, b
  <2>4. \A i \in 1..depth[t] : \E j \in DOMAIN todo' : todo'[j].at = Data(t, i)
    <3>1. ASSUME NEW i \in 1..depth[t] PROVE \E j \in DOMAIN todo' : todo'[j].at = Data(t, i)
      <4>1. todo'[locals[t] + i] = Drop(Data(t, i)) /\ locals[t] + i \in DOMAIN todo'
        BY <2>1, <2>3
      <4>2. Drop(Data(t, i)).at = Data(t, i)
        BY DEF Drop
      <4>3. QED
        BY <4>1, <4>2
    <3>2. QED
      BY <3>1
  <2>5. \A u \in Threads : depth[u] \in Nat /\ (u # t => depth'[u] = depth[u])
    BY <1>27, Typing DEF Exit, IInv, TypeOK
  <2>6. QED
    BY <2>4, <2>5
<1>28. QED
  BY <1>1, <1>2, <1>3, <1>4, <1>5, <1>6, <1>7, <1>8, <1>9, <1>10, <1>11, <1>12, <1>13, <1>14, <1>15, <1>16, <1>17, <1>18, <1>19, <1>20, <1>21, <1>22, <1>23, <1>24, <1>25, <1>26, <1>27 DEF Opcode

\* The locals that go are emptied.
LEMMA PoppedLocals ==
    ASSUME IInv, NEW t \in Threads, Opcode(t), ~Swap(t)
    PROVE  \A u \in Threads : \A i \in 1..LocalSize[u] : locals'[u] < i /\ i <= locals[u] =>
               \E j \in DOMAIN todo' : todo'[j].at = Local(u, i)
<1>1. CASE Load(t)
  <2>1. locals' = locals
    BY <1>1 DEF Load, SameFrames
  <2>2. QED
    BY <2>1, Typing
<1>2. CASE Pop(t)
  <2>1. locals' = locals
    BY <1>2 DEF Pop, SameFrames
  <2>2. QED
    BY <2>1, Typing
<1>3. CASE Save(t)
  <2>1. locals' = locals
    BY <1>3 DEF Save, SameFrames
  <2>2. QED
    BY <2>1, Typing
<1>4. CASE EnvSave(t)
  <2>1. locals' = locals
    BY <1>4 DEF EnvSave, SameFrames
  <2>2. QED
    BY <2>1, Typing
<1>5. CASE Enter(t)
  <2>1. locals' = [locals EXCEPT ![t] = locals[t] + 1]
    BY <1>5 DEF Enter
  <2>2. \A u \in Threads : locals[u] \in Nat /\ locals'[u] = IF u = t THEN locals[t] + 1 ELSE locals[u]
    BY <2>1, Typing DEF IInv, TypeOK
  <2>3. QED
    BY <2>2
<1>6. CASE Leave(t)
  <2>1. /\ locals' = [locals EXCEPT ![t] = locals[t] - 1]
        /\ 1 \in DOMAIN todo' /\ todo'[1].at = Local(t, locals[t])
    BY <1>6 DEF Leave, Does, Drop
  <2>2. \A u \in Threads : locals[u] \in Nat /\ locals'[u] = IF u = t THEN locals[t] - 1 ELSE locals[u]
    BY <2>1, Typing DEF IInv, TypeOK
  <2>3. QED
    BY <2>1, <2>2
<1>7. CASE Create(t)
  <2>1. locals' = locals
    BY <1>7 DEF Create, SameFrames
  <2>2. QED
    BY <2>1, Typing
<1>8. CASE CreateVObj(t)
  <2>1. locals' = locals
    BY <1>8 DEF CreateVObj, SameFrames
  <2>2. QED
    BY <2>1, Typing
<1>9. CASE Convert(t)
  <2>1. locals' = locals
    BY <1>9 DEF Convert, SameFrames
  <2>2. QED
    BY <2>1, Typing
<1>10. CASE Combine(t)
  <2>1. locals' = locals
    BY <1>10 DEF Combine, SameFrames
  <2>2. QED
    BY <2>1, Typing
<1>11. CASE Clone(t)
  <2>1. locals' = locals
    BY <1>11 DEF Clone, SameFrames
  <2>2. QED
    BY <2>1, Typing
<1>12. CASE CloneVObj(t)
  <2>1. locals' = locals
    BY <1>12 DEF CloneVObj, SameFrames
  <2>2. QED
    BY <2>1, Typing
<1>13. CASE Get(t)
  <2>1. locals' = locals
    BY <1>13 DEF Get, SameFrames
  <2>2. QED
    BY <2>1, Typing
<1>14. CASE ArraySet(t)
  <2>1. locals' = locals
    BY <1>14 DEF ArraySet, SameFrames
  <2>2. QED
    BY <2>1, Typing
<1>15. CASE MapSet(t)
  <2>1. locals' = locals
    BY <1>15 DEF MapSet, SameFrames
  <2>2. QED
    BY <2>1, Typing
<1>16. CASE StackPush(t)
  <2>1. locals' = locals
    BY <1>16 DEF StackPush, SameFrames
  <2>2. QED
    BY <2>1, Typing
<1>17. CASE StackPop(t)
  <2>1. locals' = locals
    BY <1>17 DEF StackPop, SameFrames
  <2>2. QED
    BY <2>1, Typing
<1>18. CASE AddClosure(t)
  <2>1. locals' = locals
    BY <1>18 DEF AddClosure, SameFrames
  <2>2. QED
    BY <2>1, Typing
<1>19. CASE FirstClosure(t)
  <2>1. locals' = locals
    BY <1>19 DEF FirstClosure, SameFrames
  <2>2. QED
    BY <2>1, Typing
<1>20. CASE Call(t)
  <2>1. locals' = locals
    BY <1>20 DEF Call, Enters
  <2>2. QED
    BY <2>1, Typing
<1>21. CASE CallVC(t)
  <2>1. locals' = locals
    BY <1>21 DEF CallVC, Enters
  <2>2. QED
    BY <2>1, Typing
<1>22. CASE CallLabel(t)
  <2>1. locals' = locals
    BY <1>22 DEF CallLabel, Enters
  <2>2. QED
    BY <2>1, Typing
<1>23. CASE Ret(t)
  <2>1. locals' = locals
    BY <1>23 DEF Ret, Leaves
  <2>2. QED
    BY <2>1, Typing
<1>24. CASE RetVal(t)
  <2>1. locals' = locals
    BY <1>24 DEF RetVal, Leaves
  <2>2. QED
    BY <2>1, Typing
<1>25. CASE Throw(t)
  <2>1. locals' = locals
    BY <1>25 DEF Throw, Leaves
  <2>2. QED
    BY <2>1, Typing
<1>26. CASE NewThread(t)
  <2>1. locals' = locals
    BY <1>26 DEF NewThread, SameFrames
  <2>2. QED
    BY <2>1, Typing
<1>27. CASE Exit(t)
  <2> DEFINE a == [i \in 1..locals[t] |-> Drop(Local(t, i))]
             b == [i \in 1..depth[t] |-> Drop(Data(t, i))]
  <2>1. todo' = a \o b
    BY <1>27 DEF Exit, Does
  <2>2. locals[t] \in Nat /\ depth[t] \in Nat
    BY Typing
  <2>3. \A i \in 1..locals[t] : /\ (a \o b)[i] = Drop(Local(t, i))
                               /\ i \in DOMAIN (a \o b)
    BY <2>2
  <2> HIDE DEF a, b
  <2>4. \A i \in 1..locals[t] : \E j \in DOMAIN todo' : todo'[j].at = Local(t, i)
    <3>1. ASSUME NEW i \in 1..locals[t] PROVE \E j \in DOMAIN todo' : todo'[j].at = Local(t, i)
      <4>1. todo'[i] = Drop(Local(t, i)) /\ i \in DOMAIN todo'
        BY <2>1, <2>3
      <4>2. Drop(Local(t, i)).at = Local(t, i)
        BY DEF Drop
      <4>3. QED
        BY <4>1, <4>2
    <3>2. QED
      BY <3>1
  <2>5. \A u \in Threads : locals[u] \in Nat /\ (u # t => locals'[u] = locals[u])
    BY <1>27, Typing DEF Exit, IInv, TypeOK
  <2>6. QED
    BY <2>4, <2>5
<1>28. QED
  BY <1>1, <1>2, <1>3, <1>4, <1>5, <1>6, <1>7, <1>8, <1>9, <1>10, <1>11, <1>12, <1>13, <1>14, <1>15, <1>16, <1>17, <1>18, <1>19, <1>20, <1>21, <1>22, <1>23, <1>24, <1>25, <1>26, <1>27 DEF Opcode

\* The frames that go are emptied.
LEMMA PoppedFrames ==
    ASSUME IInv, NEW t \in Threads, Opcode(t), ~Swap(t)
    PROVE  \A u \in Threads : \A i \in 1..CallDepth[u] : Len(frames'[u]) < i /\ i <= Len(frames[u]) =>
               \E j \in DOMAIN todo' : todo'[j].at = Callee(u, i)
<1>1. CASE Load(t)
  <2>1. frames' = frames
    BY <1>1 DEF Load, SameFrames
  <2>2. QED
    BY <2>1, Typing
<1>2. CASE Pop(t)
  <2>1. frames' = frames
    BY <1>2 DEF Pop, SameFrames
  <2>2. QED
    BY <2>1, Typing
<1>3. CASE Save(t)
  <2>1. frames' = frames
    BY <1>3 DEF Save, SameFrames
  <2>2. QED
    BY <2>1, Typing
<1>4. CASE EnvSave(t)
  <2>1. frames' = frames
    BY <1>4 DEF EnvSave, SameFrames
  <2>2. QED
    BY <2>1, Typing
<1>5. CASE Enter(t)
  <2>1. frames' = frames
    BY <1>5 DEF Enter, SameFrames
  <2>2. QED
    BY <2>1, Typing
<1>6. CASE Leave(t)
  <2>1. frames' = frames
    BY <1>6 DEF Leave, SameFrames
  <2>2. QED
    BY <2>1, Typing
<1>7. CASE Create(t)
  <2>1. frames' = frames
    BY <1>7 DEF Create, SameFrames
  <2>2. QED
    BY <2>1, Typing
<1>8. CASE CreateVObj(t)
  <2>1. frames' = frames
    BY <1>8 DEF CreateVObj, SameFrames
  <2>2. QED
    BY <2>1, Typing
<1>9. CASE Convert(t)
  <2>1. frames' = frames
    BY <1>9 DEF Convert, SameFrames
  <2>2. QED
    BY <2>1, Typing
<1>10. CASE Combine(t)
  <2>1. frames' = frames
    BY <1>10 DEF Combine, SameFrames
  <2>2. QED
    BY <2>1, Typing
<1>11. CASE Clone(t)
  <2>1. frames' = frames
    BY <1>11 DEF Clone, SameFrames
  <2>2. QED
    BY <2>1, Typing
<1>12. CASE CloneVObj(t)
  <2>1. frames' = frames
    BY <1>12 DEF CloneVObj, SameFrames
  <2>2. QED
    BY <2>1, Typing
<1>13. CASE Get(t)
  <2>1. frames' = frames
    BY <1>13 DEF Get, SameFrames
  <2>2. QED
    BY <2>1, Typing
<1>14. CASE ArraySet(t)
  <2>1. frames' = frames
    BY <1>14 DEF ArraySet, SameFrames
  <2>2. QED
    BY <2>1, Typing
<1>15. CASE MapSet(t)
  <2>1. frames' = frames
    BY <1>15 DEF MapSet, SameFrames
  <2>2. QED
    BY <2>1, Typing
<1>16. CASE StackPush(t)
  <2>1. frames' = frames
    BY <1>16 DEF StackPush, SameFrames
  <2>2. QED
    BY <2>1, Typing
<1>17. CASE StackPop(t)
  <2>1. frames' = frames
    BY <1>17 DEF StackPop, SameFrames
  <2>2. QED
    BY <2>1, Typing
<1>18. CASE AddClosure(t)
  <2>1. frames' = frames
    BY <1>18 DEF AddClosure, SameFrames
  <2>2. QED
    BY <2>1, Typing
<1>19. CASE FirstClosure(t)
  <2>1. frames' = frames
    BY <1>19 DEF FirstClosure, SameFrames
  <2>2. QED
    BY <2>1, Typing
<1>20. CASE Call(t)
  <2>1. PICK c : frames' = [frames EXCEPT ![t] = Append(frames[t], c)]
    BY <1>20 DEF Call, Enters
  <2>2. \A u \in Threads : frames[u] \in Seq(Values) /\ frames'[u] = IF u = t THEN Append(frames[t], c) ELSE frames[u]
    BY <2>1 DEF IInv, TypeOK
  <2>0. Len(Append(frames[t], c)) = Len(frames[t]) + 1
    BY <2>2
  <2>3. \A u \in Threads : Len(frames'[u]) = IF u = t THEN Len(frames[t]) + 1 ELSE Len(frames[u])
    BY <2>0, <2>2
  <2>4. QED
    BY <2>3, Typing
<1>21. CASE CallVC(t)
  <2>1. PICK c : frames' = [frames EXCEPT ![t] = Append(frames[t], c)]
    BY <1>21 DEF CallVC, Enters
  <2>2. \A u \in Threads : frames[u] \in Seq(Values) /\ frames'[u] = IF u = t THEN Append(frames[t], c) ELSE frames[u]
    BY <2>1 DEF IInv, TypeOK
  <2>0. Len(Append(frames[t], c)) = Len(frames[t]) + 1
    BY <2>2
  <2>3. \A u \in Threads : Len(frames'[u]) = IF u = t THEN Len(frames[t]) + 1 ELSE Len(frames[u])
    BY <2>0, <2>2
  <2>4. QED
    BY <2>3, Typing
<1>22. CASE CallLabel(t)
  <2>1. PICK c : frames' = [frames EXCEPT ![t] = Append(frames[t], c)]
    BY <1>22 DEF CallLabel, Enters
  <2>2. \A u \in Threads : frames[u] \in Seq(Values) /\ frames'[u] = IF u = t THEN Append(frames[t], c) ELSE frames[u]
    BY <2>1 DEF IInv, TypeOK
  <2>0. Len(Append(frames[t], c)) = Len(frames[t]) + 1
    BY <2>2
  <2>3. \A u \in Threads : Len(frames'[u]) = IF u = t THEN Len(frames[t]) + 1 ELSE Len(frames[u])
    BY <2>0, <2>2
  <2>4. QED
    BY <2>3, Typing
<1>23. CASE Ret(t)
  <2>1. /\ frames' = [frames EXCEPT ![t] = SubSeq(frames[t], 1, Len(frames[t]) - 1)]
        /\ frames[t] # <<>>
        /\ \E j \in DOMAIN todo' : todo'[j].at = Callee(t, Len(frames[t]))
    BY <1>23 DEF Ret, Leaves, Does, Drop
  <2>2. frames[t] \in Seq(Values) /\ Len(frames[t]) \in Nat /\ Len(frames[t]) > 0
    BY <2>1 DEF IInv, TypeOK
  <2>3. Len(SubSeq(frames[t], 1, Len(frames[t]) - 1)) = Len(frames[t]) - 1
    BY <2>2
  <2>4. \A u \in Threads : Len(frames[u]) \in Nat /\ Len(frames'[u]) = IF u = t THEN Len(frames[t]) - 1 ELSE Len(frames[u])
    BY <2>1, <2>3, Typing DEF IInv, TypeOK
  <2>5. QED
    BY <2>1, <2>2, <2>4
<1>24. CASE RetVal(t)
  <2>1. /\ frames' = [frames EXCEPT ![t] = SubSeq(frames[t], 1, Len(frames[t]) - 1)]
        /\ frames[t] # <<>>
        /\ \E j \in DOMAIN todo' : todo'[j].at = Callee(t, Len(frames[t]))
    BY <1>24 DEF RetVal, Leaves, Does, Drop
  <2>2. frames[t] \in Seq(Values) /\ Len(frames[t]) \in Nat /\ Len(frames[t]) > 0
    BY <2>1 DEF IInv, TypeOK
  <2>3. Len(SubSeq(frames[t], 1, Len(frames[t]) - 1)) = Len(frames[t]) - 1
    BY <2>2
  <2>4. \A u \in Threads : Len(frames[u]) \in Nat /\ Len(frames'[u]) = IF u = t THEN Len(frames[t]) - 1 ELSE Len(frames[u])
    BY <2>1, <2>3, Typing DEF IInv, TypeOK
  <2>5. QED
    BY <2>1, <2>2, <2>4
<1>25. CASE Throw(t)
  <2>1. PICK k \in 0..Len(frames[t]) :
          /\ todo' = <<Drop(Top(t, 0))>>
                     \o [i \in 1..(Len(frames[t]) - k) |-> Drop(Callee(t, Len(frames[t]) + 1 - i))]
          /\ frames' = [frames EXCEPT ![t] = SubSeq(frames[t], 1, k)]
    BY <1>25 DEF Throw, Does, Leaves
  <2> DEFINE n == Len(frames[t])
             b == [i \in 1..(n - k) |-> Drop(Callee(t, n + 1 - i))]
  <2>2. frames[t] \in Seq(Values) /\ n \in Nat /\ n - k \in Nat /\ k \in 0..n
    BY Typing DEF IInv, TypeOK
  <2>3. \A i \in (k + 1)..n : /\ n + 2 - i \in DOMAIN (<<Drop(Top(t, 0))>> \o b)
                             /\ (<<Drop(Top(t, 0))>> \o b)[n + 2 - i] = Drop(Callee(t, i))
    <3>1. ASSUME NEW i \in (k + 1)..n
          PROVE  /\ n + 2 - i \in DOMAIN (<<Drop(Top(t, 0))>> \o b)
                 /\ (<<Drop(Top(t, 0))>> \o b)[n + 2 - i] = Drop(Callee(t, i))
      <4> DEFINE j == n + 1 - i
      <4>1. j \in 1..(n - k) /\ n + 2 - i = 1 + j /\ n + 1 - j = i
        BY <2>2
      <4>2. b[j] = Drop(Callee(t, i))
        BY <4>1
      <4>3. Len(b) = n - k /\ b \in Seq(Steps) /\ Drop(Top(t, 0)) \in Steps
        <5>1. \A l \in 1..(n - k) : n + 1 - l \in 1..n
          BY <2>2
        <5>2. \A l \in 1..(n - k) : Drop(Callee(t, n + 1 - l)) \in Steps
          BY <5>1, TopTypes, StepTypes DEF Values
        <5>3. Drop(Top(t, 0)) \in Steps
          BY <1>25, TopTypes, StepTypes DEF Throw, Values
        <5>4. QED
          BY <5>2, <5>3, <2>2
      <4> HIDE DEF b, j
      <4>4. (<<Drop(Top(t, 0))>> \o b)[1 + j] = b[j] /\ 1 + j \in DOMAIN (<<Drop(Top(t, 0))>> \o b)
        BY SMTT(30), <4>1, <4>3, <2>2
      <4>5. QED
        BY <4>1, <4>2, <4>4
    <3>2. QED
      BY <3>1
  <2>4. todo' = <<Drop(Top(t, 0))>> \o b
    BY <2>1
  <2>5. Len(SubSeq(frames[t], 1, k)) = k
    BY <2>2
  <2> HIDE DEF b, n
  <2>6. \A i \in (k + 1)..n : \E j \in DOMAIN todo' : todo'[j].at = Callee(t, i)
    <3>1. ASSUME NEW i \in (k + 1)..n PROVE \E j \in DOMAIN todo' : todo'[j].at = Callee(t, i)
      <4>1. todo'[n + 2 - i] = Drop(Callee(t, i)) /\ n + 2 - i \in DOMAIN todo'
        BY <2>3, <2>4
      <4>2. Drop(Callee(t, i)).at = Callee(t, i)
        BY DEF Drop
      <4>3. QED
        BY <4>1, <4>2
    <3>2. QED
      BY <3>1
  <2>7. Len(frames'[t]) = k /\ \A u \in Threads : Len(frames[u]) \in Nat /\ (u # t => frames'[u] = frames[u])
    BY <2>1, <2>5, Typing DEF IInv, TypeOK
  <2>8. QED
    BY <2>2, <2>6, <2>7 DEF n
<1>26. CASE NewThread(t)
  <2>1. frames' = frames
    BY <1>26 DEF NewThread, SameFrames
  <2>2. QED
    BY <2>1, Typing
<1>27. CASE Exit(t)
  <2>1. frames' = frames
    BY <1>27 DEF Exit, SameFrames
  <2>2. QED
    BY <2>1, Typing
<1>28. QED
  BY <1>1, <1>2, <1>3, <1>4, <1>5, <1>6, <1>7, <1>8, <1>9, <1>10, <1>11, <1>12, <1>13, <1>14, <1>15, <1>16, <1>17, <1>18, <1>19, <1>20, <1>21, <1>22, <1>23, <1>24, <1>25, <1>26, <1>27 DEF Opcode

\* The cells that go are emptied.
LEMMA PoppedCells ==
    ASSUME IInv, NEW t \in Threads, Opcode(t), ~Swap(t)
    PROVE  \A c \in Objects : \A i \in 1..Cells : size'[c] < i /\ i <= size[c] =>
               \E j \in DOMAIN todo' : todo'[j].at = In(c, i)
<1>1. CASE Load(t)
  <2>1. size' = size
    BY <1>1 DEF Load, SameHeap
  <2>2. QED
    BY <2>1, Typing
<1>2. CASE Pop(t)
  <2>1. size' = size
    BY <1>2 DEF Pop, SameHeap
  <2>2. QED
    BY <2>1, Typing
<1>3. CASE Save(t)
  <2>1. size' = size
    BY <1>3 DEF Save, SameHeap
  <2>2. QED
    BY <2>1, Typing
<1>4. CASE EnvSave(t)
  <2>1. size' = size
    BY <1>4 DEF EnvSave, SameHeap
  <2>2. QED
    BY <2>1, Typing
<1>5. CASE Enter(t)
  <2>1. size' = size
    BY <1>5 DEF Enter, SameHeap
  <2>2. QED
    BY <2>1, Typing
<1>6. CASE Leave(t)
  <2>1. size' = size
    BY <1>6 DEF Leave, SameHeap
  <2>2. QED
    BY <2>1, Typing
<1>7. CASE Create(t)
  <2>1. size' = size
    BY <1>7 DEF Create, SameHeap
  <2>2. QED
    BY <2>1, Typing
<1>8. CASE CreateVObj(t)
  <2>1. PICK o \in Objects : size' = [size EXCEPT ![o] = 1] /\ kind[o] = "free"
    BY <1>8 DEF CreateVObj
  <2>2. size[o] = 0
    BY <2>1 DEF IInv, Bounds
  <2>8. \A c \in Objects : size[c] \in Nat /\ size'[c] \in Nat /\ size[c] <= size'[c]
    BY <2>1, <2>2, Typing DEF IInv, TypeOK
  <2>9. QED
    BY <2>8
<1>9. CASE Convert(t)
  <2>1. size' = size
    BY <1>9 DEF Convert, SameHeap
  <2>2. QED
    BY <2>1, Typing
<1>10. CASE Combine(t)
  <2>1. size' = size
    BY <1>10 DEF Combine, SameHeap
  <2>2. QED
    BY <2>1, Typing
<1>11. CASE Clone(t)
  <2>1. size' = size
    BY <1>11 DEF Clone, SameHeap
  <2>2. QED
    BY <2>1, Typing
<1>12. CASE CloneVObj(t)
  <2>1. PICK o \in Objects : size' = [size EXCEPT ![o] = 1] /\ kind[o] = "free"
    BY <1>12 DEF CloneVObj, New
  <2>2. size[o] = 0
    BY <2>1 DEF IInv, Bounds
  <2>8. \A c \in Objects : size[c] \in Nat /\ size'[c] \in Nat /\ size[c] <= size'[c]
    BY <2>1, <2>2, Typing DEF IInv, TypeOK
  <2>9. QED
    BY <2>8
<1>13. CASE Get(t)
  <2>1. size' = size
    BY <1>13 DEF Get, SameHeap
  <2>2. QED
    BY <2>1, Typing
<1>14. CASE ArraySet(t)
  <2> DEFINE a == At(Top(t, 1))
  <2>1. PICK i \in 1..Cells : size' = [size EXCEPT ![a] = IF i > size[a] THEN i ELSE size[a]]
    BY <1>14 DEF ArraySet
  <2>2. a \in Objects
    BY <1>14, Typing, TopTypes DEF ArraySet, IsA, Values
  <2> HIDE DEF a
  <2>8. \A c \in Objects : size[c] \in Nat /\ size'[c] \in Nat /\ size[c] <= size'[c]
    BY <2>1, <2>2, Typing DEF IInv, TypeOK
  <2>9. QED
    BY <2>8
<1>15. CASE MapSet(t)
  <2> DEFINE a == At(Top(t, 0))
  <2>1. PICK i \in 1..Cells : size' = [size EXCEPT ![a] = IF i > size[a] THEN i ELSE size[a]]
    BY <1>15 DEF MapSet
  <2>2. a \in Objects
    BY <1>15, Typing, TopTypes DEF MapSet, IsA, Values
  <2> HIDE DEF a
  <2>8. \A c \in Objects : size[c] \in Nat /\ size'[c] \in Nat /\ size[c] <= size'[c]
    BY <2>1, <2>2, Typing DEF IInv, TypeOK
  <2>9. QED
    BY <2>8
<1>16. CASE StackPush(t)
  <2> DEFINE a == At(Top(t, 1))
  <2>1. size' = [size EXCEPT ![a] = size[a] + 1]
    BY <1>16 DEF StackPush
  <2>2. a \in Objects
    BY <1>16, Typing, TopTypes, CellTypes DEF StackPush, IsA, Values
  <2> HIDE DEF a
  <2>8. \A c \in Objects : size[c] \in Nat /\ size'[c] \in Nat /\ size[c] <= size'[c]
    BY <2>1, <2>2, Typing DEF IInv, TypeOK
  <2>9. QED
    BY <2>8
<1>17. CASE StackPop(t)
  <2> DEFINE s == At(Top(t, 0))
  <2>1. /\ size' = [size EXCEPT ![s] = size[s] - 1] /\ size[s] > 0
        /\ 2 \in DOMAIN todo' /\ todo'[2].at = In(s, size[s])
    BY <1>17 DEF StackPop, Does, Drop
  <2>2. s \in Objects
    BY <1>17, Typing, TopTypes DEF StackPop, IsA, Values
  <2> HIDE DEF s
  <2>3. \A c \in Objects : size[c] \in Nat /\ size'[c] = IF c = s THEN size[s] - 1 ELSE size[c]
    BY <2>1, <2>2, Typing DEF IInv, TypeOK
  <2>4. QED
    BY <2>1, <2>3
<1>18. CASE AddClosure(t)
  <2> DEFINE a == At(In(At(Top(t, 1)), 1))
  <2>1. size' = [size EXCEPT ![a] = size[a] + 1]
    BY <1>18 DEF AddClosure
  <2>2. a \in Objects
    BY <1>18, Typing, TopTypes, CellTypes DEF AddClosure, IsA, Values
  <2> HIDE DEF a
  <2>8. \A c \in Objects : size[c] \in Nat /\ size'[c] \in Nat /\ size[c] <= size'[c]
    BY <2>1, <2>2, Typing DEF IInv, TypeOK
  <2>9. QED
    BY <2>8
<1>19. CASE FirstClosure(t)
  <2>1. PICK a \in Objects : size' = [size EXCEPT ![At(Top(t, 1))] = 1, ![a] = 1] /\ kind[a] = "free"
    BY <1>19 DEF FirstClosure
  <2>2. size[a] = 0 /\ size[At(Top(t, 1))] <= 1
    <3>1. At(Top(t, 1)) \in Objects /\ kind[At(Top(t, 1))] = "Fun"
      BY <1>19, TopTypes DEF FirstClosure, IsA, Values
    <3>2. QED
      BY <2>1, <3>1 DEF IInv, Bounds
  <2>8. \A c \in Objects : size[c] \in Nat /\ size'[c] \in Nat /\ size[c] <= size'[c]
    BY SMTT(30), <2>1, <2>2, Typing DEF IInv, TypeOK
  <2>9. QED
    BY <2>8
<1>20. CASE Call(t)
  <2>1. size' = size
    BY <1>20 DEF Call, SameHeap
  <2>2. QED
    BY <2>1, Typing
<1>21. CASE CallVC(t)
  <2>1. size' = size
    BY <1>21 DEF CallVC, SameHeap
  <2>2. QED
    BY <2>1, Typing
<1>22. CASE CallLabel(t)
  <2>1. size' = size
    BY <1>22 DEF CallLabel, SameHeap
  <2>2. QED
    BY <2>1, Typing
<1>23. CASE Ret(t)
  <2>1. size' = size
    BY <1>23 DEF Ret, SameHeap
  <2>2. QED
    BY <2>1, Typing
<1>24. CASE RetVal(t)
  <2>1. size' = size
    BY <1>24 DEF RetVal, SameHeap
  <2>2. QED
    BY <2>1, Typing
<1>25. CASE Throw(t)
  <2>1. size' = size
    BY <1>25 DEF Throw, SameHeap
  <2>2. QED
    BY <2>1, Typing
<1>26. CASE NewThread(t)
  <2>1. size' = size
    BY <1>26 DEF NewThread, SameHeap
  <2>2. QED
    BY <2>1, Typing
<1>27. CASE Exit(t)
  <2>1. size' = size
    BY <1>27 DEF Exit, SameHeap
  <2>2. QED
    BY <2>1, Typing
<1>28. QED
  BY <1>1, <1>2, <1>3, <1>4, <1>5, <1>6, <1>7, <1>8, <1>9, <1>10, <1>11, <1>12, <1>13, <1>14, <1>15, <1>16, <1>17, <1>18, <1>19, <1>20, <1>21, <1>22, <1>23, <1>24, <1>25, <1>26, <1>27 DEF Opcode

\* A free address has no cells, a function one at most.
LEMMA OpcodeBounds ==
    ASSUME IInv, NEW t \in Threads, Opcode(t), ~Swap(t)
    PROVE  \A o \in Objects : /\ kind'[o] = "free" => size'[o] = 0
                              /\ kind'[o] = "Fun" => size'[o] <= 1
<1>1. CASE Load(t)
  <2>0. /\ kind \in [Objects -> Kinds \cup {"free"}] /\ size \in [Objects -> 0..Cells]
        /\ \A x \in Objects : kind[x] = "free" => size[x] = 0
        /\ \A x \in Objects : kind[x] = "Fun" => size[x] <= 1
    BY DEF IInv, TypeOK, Bounds
  <2>1. size' = size
    BY <1>1 DEF Load, SameHeap
  <2>2. \A x \in Objects : kind[x] # "free" => kind'[x] = kind[x]
    BY OpcodeGrows
  <2>3. \A x \in Objects : size[x] \in Nat
    BY Typing
  <2>4. QED
    BY <2>0, <2>1, <2>2, <2>3
<1>2. CASE Pop(t)
  <2>0. /\ kind \in [Objects -> Kinds \cup {"free"}] /\ size \in [Objects -> 0..Cells]
        /\ \A x \in Objects : kind[x] = "free" => size[x] = 0
        /\ \A x \in Objects : kind[x] = "Fun" => size[x] <= 1
    BY DEF IInv, TypeOK, Bounds
  <2>1. size' = size
    BY <1>2 DEF Pop, SameHeap
  <2>2. \A x \in Objects : kind[x] # "free" => kind'[x] = kind[x]
    BY OpcodeGrows
  <2>3. \A x \in Objects : size[x] \in Nat
    BY Typing
  <2>4. QED
    BY <2>0, <2>1, <2>2, <2>3
<1>3. CASE Save(t)
  <2>0. /\ kind \in [Objects -> Kinds \cup {"free"}] /\ size \in [Objects -> 0..Cells]
        /\ \A x \in Objects : kind[x] = "free" => size[x] = 0
        /\ \A x \in Objects : kind[x] = "Fun" => size[x] <= 1
    BY DEF IInv, TypeOK, Bounds
  <2>1. size' = size
    BY <1>3 DEF Save, SameHeap
  <2>2. \A x \in Objects : kind[x] # "free" => kind'[x] = kind[x]
    BY OpcodeGrows
  <2>3. \A x \in Objects : size[x] \in Nat
    BY Typing
  <2>4. QED
    BY <2>0, <2>1, <2>2, <2>3
<1>4. CASE EnvSave(t)
  <2>0. /\ kind \in [Objects -> Kinds \cup {"free"}] /\ size \in [Objects -> 0..Cells]
        /\ \A x \in Objects : kind[x] = "free" => size[x] = 0
        /\ \A x \in Objects : kind[x] = "Fun" => size[x] <= 1
    BY DEF IInv, TypeOK, Bounds
  <2>1. size' = size
    BY <1>4 DEF EnvSave, SameHeap
  <2>2. \A x \in Objects : kind[x] # "free" => kind'[x] = kind[x]
    BY OpcodeGrows
  <2>3. \A x \in Objects : size[x] \in Nat
    BY Typing
  <2>4. QED
    BY <2>0, <2>1, <2>2, <2>3
<1>5. CASE Enter(t)
  <2>0. /\ kind \in [Objects -> Kinds \cup {"free"}] /\ size \in [Objects -> 0..Cells]
        /\ \A x \in Objects : kind[x] = "free" => size[x] = 0
        /\ \A x \in Objects : kind[x] = "Fun" => size[x] <= 1
    BY DEF IInv, TypeOK, Bounds
  <2>1. size' = size
    BY <1>5 DEF Enter, SameHeap
  <2>2. \A x \in Objects : kind[x] # "free" => kind'[x] = kind[x]
    BY OpcodeGrows
  <2>3. \A x \in Objects : size[x] \in Nat
    BY Typing
  <2>4. QED
    BY <2>0, <2>1, <2>2, <2>3
<1>6. CASE Leave(t)
  <2>0. /\ kind \in [Objects -> Kinds \cup {"free"}] /\ size \in [Objects -> 0..Cells]
        /\ \A x \in Objects : kind[x] = "free" => size[x] = 0
        /\ \A x \in Objects : kind[x] = "Fun" => size[x] <= 1
    BY DEF IInv, TypeOK, Bounds
  <2>1. size' = size
    BY <1>6 DEF Leave, SameHeap
  <2>2. \A x \in Objects : kind[x] # "free" => kind'[x] = kind[x]
    BY OpcodeGrows
  <2>3. \A x \in Objects : size[x] \in Nat
    BY Typing
  <2>4. QED
    BY <2>0, <2>1, <2>2, <2>3
<1>7. CASE Create(t)
  <2>0. /\ kind \in [Objects -> Kinds \cup {"free"}] /\ size \in [Objects -> 0..Cells]
        /\ \A x \in Objects : kind[x] = "free" => size[x] = 0
        /\ \A x \in Objects : kind[x] = "Fun" => size[x] <= 1
    BY DEF IInv, TypeOK, Bounds
  <2>1. size' = size
    BY <1>7 DEF Create, SameHeap
  <2>2. \A x \in Objects : kind[x] # "free" => kind'[x] = kind[x]
    BY OpcodeGrows
  <2>3. \A x \in Objects : size[x] \in Nat
    BY Typing
  <2>4. QED
    BY <2>0, <2>1, <2>2, <2>3
<1>8. CASE CreateVObj(t)
  <2>0. /\ kind \in [Objects -> Kinds \cup {"free"}] /\ size \in [Objects -> 0..Cells]
        /\ \A x \in Objects : kind[x] = "free" => size[x] = 0
        /\ \A x \in Objects : kind[x] = "Fun" => size[x] <= 1
    BY DEF IInv, TypeOK, Bounds
  <2>1. PICK o, m \in Objects : /\ size' = [size EXCEPT ![o] = 1] /\ kind[o] = "free" /\ kind[m] = "free" /\ o # m
                               /\ kind' = [kind EXCEPT ![o] = "VObj", ![m] = "Array"]
    BY <1>8 DEF CreateVObj
  <2>2. QED
    BY <2>0, <2>1
<1>9. CASE Convert(t)
  <2>0. /\ kind \in [Objects -> Kinds \cup {"free"}] /\ size \in [Objects -> 0..Cells]
        /\ \A x \in Objects : kind[x] = "free" => size[x] = 0
        /\ \A x \in Objects : kind[x] = "Fun" => size[x] <= 1
    BY DEF IInv, TypeOK, Bounds
  <2>1. size' = size
    BY <1>9 DEF Convert, SameHeap
  <2>2. \A x \in Objects : kind[x] # "free" => kind'[x] = kind[x]
    BY OpcodeGrows
  <2>3. \A x \in Objects : size[x] \in Nat
    BY Typing
  <2>4. QED
    BY <2>0, <2>1, <2>2, <2>3
<1>10. CASE Combine(t)
  <2>0. /\ kind \in [Objects -> Kinds \cup {"free"}] /\ size \in [Objects -> 0..Cells]
        /\ \A x \in Objects : kind[x] = "free" => size[x] = 0
        /\ \A x \in Objects : kind[x] = "Fun" => size[x] <= 1
    BY DEF IInv, TypeOK, Bounds
  <2>1. size' = size
    BY <1>10 DEF Combine, SameHeap
  <2>2. \A x \in Objects : kind[x] # "free" => kind'[x] = kind[x]
    BY OpcodeGrows
  <2>3. \A x \in Objects : size[x] \in Nat
    BY Typing
  <2>4. QED
    BY <2>0, <2>1, <2>2, <2>3
<1>11. CASE Clone(t)
  <2>0. /\ kind \in [Objects -> Kinds \cup {"free"}] /\ size \in [Objects -> 0..Cells]
        /\ \A x \in Objects : kind[x] = "free" => size[x] = 0
        /\ \A x \in Objects : kind[x] = "Fun" => size[x] <= 1
    BY DEF IInv, TypeOK, Bounds
  <2>1. size' = size
    BY <1>11 DEF Clone, SameHeap
  <2>2. \A x \in Objects : kind[x] # "free" => kind'[x] = kind[x]
    BY OpcodeGrows
  <2>3. \A x \in Objects : size[x] \in Nat
    BY Typing
  <2>4. QED
    BY <2>0, <2>1, <2>2, <2>3
<1>12. CASE CloneVObj(t)
  <2>0. /\ kind \in [Objects -> Kinds \cup {"free"}] /\ size \in [Objects -> 0..Cells]
        /\ \A x \in Objects : kind[x] = "free" => size[x] = 0
        /\ \A x \in Objects : kind[x] = "Fun" => size[x] <= 1
    BY DEF IInv, TypeOK, Bounds
  <2>1. PICK c \in Objects : /\ size' = [size EXCEPT ![c] = 1]
                            /\ kind' = [kind EXCEPT ![c] = "VObj"]
    BY <1>12 DEF CloneVObj, New
  <2>2. QED
    BY <2>0, <2>1
<1>13. CASE Get(t)
  <2>0. /\ kind \in [Objects -> Kinds \cup {"free"}] /\ size \in [Objects -> 0..Cells]
        /\ \A x \in Objects : kind[x] = "free" => size[x] = 0
        /\ \A x \in Objects : kind[x] = "Fun" => size[x] <= 1
    BY DEF IInv, TypeOK, Bounds
  <2>1. size' = size
    BY <1>13 DEF Get, SameHeap
  <2>2. \A x \in Objects : kind[x] # "free" => kind'[x] = kind[x]
    BY OpcodeGrows
  <2>3. \A x \in Objects : size[x] \in Nat
    BY Typing
  <2>4. QED
    BY <2>0, <2>1, <2>2, <2>3
<1>14. CASE ArraySet(t)
  <2>0. /\ kind \in [Objects -> Kinds \cup {"free"}] /\ size \in [Objects -> 0..Cells]
        /\ \A x \in Objects : kind[x] = "free" => size[x] = 0
        /\ \A x \in Objects : kind[x] = "Fun" => size[x] <= 1
    BY DEF IInv, TypeOK, Bounds
  <2> DEFINE a == At(Top(t, 1))
  <2>1. kind' = kind /\ kind[a] = "Array" /\ \E n : size' = [size EXCEPT ![a] = n]
    BY <1>14 DEF ArraySet, IsA
  <2> HIDE DEF a
  <2>2. QED
    BY <2>0, <2>1
<1>15. CASE MapSet(t)
  <2>0. /\ kind \in [Objects -> Kinds \cup {"free"}] /\ size \in [Objects -> 0..Cells]
        /\ \A x \in Objects : kind[x] = "free" => size[x] = 0
        /\ \A x \in Objects : kind[x] = "Fun" => size[x] <= 1
    BY DEF IInv, TypeOK, Bounds
  <2> DEFINE a == At(Top(t, 0))
  <2>1. kind' = kind /\ kind[a] = "Env" /\ \E n : size' = [size EXCEPT ![a] = n]
    BY <1>15 DEF MapSet, IsA
  <2> HIDE DEF a
  <2>2. QED
    BY <2>0, <2>1
<1>16. CASE StackPush(t)
  <2>0. /\ kind \in [Objects -> Kinds \cup {"free"}] /\ size \in [Objects -> 0..Cells]
        /\ \A x \in Objects : kind[x] = "free" => size[x] = 0
        /\ \A x \in Objects : kind[x] = "Fun" => size[x] <= 1
    BY DEF IInv, TypeOK, Bounds
  <2> DEFINE a == At(Top(t, 1))
  <2>1. kind' = kind /\ kind[a] = "Stack" /\ \E n : size' = [size EXCEPT ![a] = n]
    BY <1>16 DEF StackPush, IsA
  <2> HIDE DEF a
  <2>2. QED
    BY <2>0, <2>1
<1>17. CASE StackPop(t)
  <2>0. /\ kind \in [Objects -> Kinds \cup {"free"}] /\ size \in [Objects -> 0..Cells]
        /\ \A x \in Objects : kind[x] = "free" => size[x] = 0
        /\ \A x \in Objects : kind[x] = "Fun" => size[x] <= 1
    BY DEF IInv, TypeOK, Bounds
  <2> DEFINE a == At(Top(t, 0))
  <2>1. kind' = kind /\ kind[a] = "Stack" /\ \E n : size' = [size EXCEPT ![a] = n]
    BY <1>17 DEF StackPop, IsA
  <2> HIDE DEF a
  <2>2. QED
    BY <2>0, <2>1
<1>18. CASE AddClosure(t)
  <2>0. /\ kind \in [Objects -> Kinds \cup {"free"}] /\ size \in [Objects -> 0..Cells]
        /\ \A x \in Objects : kind[x] = "free" => size[x] = 0
        /\ \A x \in Objects : kind[x] = "Fun" => size[x] <= 1
    BY DEF IInv, TypeOK, Bounds
  <2> DEFINE a == At(In(At(Top(t, 1)), 1))
  <2>1. kind[a] = "Array" /\ \E n : size' = [size EXCEPT ![a] = n]
    BY <1>18 DEF AddClosure, IsA
  <2>2. \A x \in Objects : kind[x] # "free" => kind'[x] = kind[x]
    BY OpcodeGrows
  <2> HIDE DEF a
  <2>3. \A x \in Objects : x # a => size'[x] = size[x]
    BY <2>0, <2>1
  <2>4. a \in Objects => kind'[a] = "Array"
    BY <2>1, <2>2
  <2>5. \A x \in Objects : size[x] \in Nat
    BY Typing
  <2>6. QED
    BY <2>0, <2>2, <2>3, <2>4, <2>5
<1>19. CASE FirstClosure(t)
  <2>0. /\ kind \in [Objects -> Kinds \cup {"free"}] /\ size \in [Objects -> 0..Cells]
        /\ \A x \in Objects : kind[x] = "free" => size[x] = 0
        /\ \A x \in Objects : kind[x] = "Fun" => size[x] <= 1
    BY DEF IInv, TypeOK, Bounds
  <2> DEFINE f == At(Top(t, 1))
  <2>1. PICK a \in Objects, c \in Values :
          /\ size' = [size EXCEPT ![f] = 1, ![a] = 1]
          /\ kind[f] = "Fun"
          /\ kind' = [kind EXCEPT ![a] = "Array"] \/ kind' = [kind EXCEPT ![c] = "Str", ![a] = "Array"]
    BY <1>19 DEF FirstClosure, IsA
  <2>2. \A x \in Objects : kind[x] # "free" => kind'[x] = kind[x]
    BY OpcodeGrows
  <2> HIDE DEF f
  <2>3. kind'[a] = "Array"
    BY <2>0, <2>1
  <2>4. \A x \in Objects : x # a /\ x # f => size'[x] = size[x]
    BY <2>0, <2>1
  <2>5. f \in Objects => kind'[f] = "Fun" /\ size'[f] = 1
    BY <2>0, <2>1, <2>2
  <2>6. \A x \in Objects : size[x] \in Nat
    BY Typing
  <2>7. QED
    BY <2>0, <2>2, <2>3, <2>4, <2>5, <2>6
<1>20. CASE Call(t)
  <2>0. /\ kind \in [Objects -> Kinds \cup {"free"}] /\ size \in [Objects -> 0..Cells]
        /\ \A x \in Objects : kind[x] = "free" => size[x] = 0
        /\ \A x \in Objects : kind[x] = "Fun" => size[x] <= 1
    BY DEF IInv, TypeOK, Bounds
  <2>1. size' = size
    BY <1>20 DEF Call, SameHeap
  <2>2. \A x \in Objects : kind[x] # "free" => kind'[x] = kind[x]
    BY OpcodeGrows
  <2>3. \A x \in Objects : size[x] \in Nat
    BY Typing
  <2>4. QED
    BY <2>0, <2>1, <2>2, <2>3
<1>21. CASE CallVC(t)
  <2>0. /\ kind \in [Objects -> Kinds \cup {"free"}] /\ size \in [Objects -> 0..Cells]
        /\ \A x \in Objects : kind[x] = "free" => size[x] = 0
        /\ \A x \in Objects : kind[x] = "Fun" => size[x] <= 1
    BY DEF IInv, TypeOK, Bounds
  <2>1. size' = size
    BY <1>21 DEF CallVC, SameHeap
  <2>2. \A x \in Objects : kind[x] # "free" => kind'[x] = kind[x]
    BY OpcodeGrows
  <2>3. \A x \in Objects : size[x] \in Nat
    BY Typing
  <2>4. QED
    BY <2>0, <2>1, <2>2, <2>3
<1>22. CASE CallLabel(t)
  <2>0. /\ kind \in [Objects -> Kinds \cup {"free"}] /\ size \in [Objects -> 0..Cells]
        /\ \A x \in Objects : kind[x] = "free" => size[x] = 0
        /\ \A x \in Objects : kind[x] = "Fun" => size[x] <= 1
    BY DEF IInv, TypeOK, Bounds
  <2>1. size' = size
    BY <1>22 DEF CallLabel, SameHeap
  <2>2. \A x \in Objects : kind[x] # "free" => kind'[x] = kind[x]
    BY OpcodeGrows
  <2>3. \A x \in Objects : size[x] \in Nat
    BY Typing
  <2>4. QED
    BY <2>0, <2>1, <2>2, <2>3
<1>23. CASE Ret(t)
  <2>0. /\ kind \in [Objects -> Kinds \cup {"free"}] /\ size \in [Objects -> 0..Cells]
        /\ \A x \in Objects : kind[x] = "free" => size[x] = 0
        /\ \A x \in Objects : kind[x] = "Fun" => size[x] <= 1
    BY DEF IInv, TypeOK, Bounds
  <2>1. size' = size
    BY <1>23 DEF Ret, SameHeap
  <2>2. \A x \in Objects : kind[x] # "free" => kind'[x] = kind[x]
    BY OpcodeGrows
  <2>3. \A x \in Objects : size[x] \in Nat
    BY Typing
  <2>4. QED
    BY <2>0, <2>1, <2>2, <2>3
<1>24. CASE RetVal(t)
  <2>0. /\ kind \in [Objects -> Kinds \cup {"free"}] /\ size \in [Objects -> 0..Cells]
        /\ \A x \in Objects : kind[x] = "free" => size[x] = 0
        /\ \A x \in Objects : kind[x] = "Fun" => size[x] <= 1
    BY DEF IInv, TypeOK, Bounds
  <2>1. size' = size
    BY <1>24 DEF RetVal, SameHeap
  <2>2. \A x \in Objects : kind[x] # "free" => kind'[x] = kind[x]
    BY OpcodeGrows
  <2>3. \A x \in Objects : size[x] \in Nat
    BY Typing
  <2>4. QED
    BY <2>0, <2>1, <2>2, <2>3
<1>25. CASE Throw(t)
  <2>0. /\ kind \in [Objects -> Kinds \cup {"free"}] /\ size \in [Objects -> 0..Cells]
        /\ \A x \in Objects : kind[x] = "free" => size[x] = 0
        /\ \A x \in Objects : kind[x] = "Fun" => size[x] <= 1
    BY DEF IInv, TypeOK, Bounds
  <2>1. size' = size
    BY <1>25 DEF Throw, SameHeap
  <2>2. \A x \in Objects : kind[x] # "free" => kind'[x] = kind[x]
    BY OpcodeGrows
  <2>3. \A x \in Objects : size[x] \in Nat
    BY Typing
  <2>4. QED
    BY <2>0, <2>1, <2>2, <2>3
<1>26. CASE NewThread(t)
  <2>0. /\ kind \in [Objects -> Kinds \cup {"free"}] /\ size \in [Objects -> 0..Cells]
        /\ \A x \in Objects : kind[x] = "free" => size[x] = 0
        /\ \A x \in Objects : kind[x] = "Fun" => size[x] <= 1
    BY DEF IInv, TypeOK, Bounds
  <2>1. size' = size
    BY <1>26 DEF NewThread, SameHeap
  <2>2. \A x \in Objects : kind[x] # "free" => kind'[x] = kind[x]
    BY OpcodeGrows
  <2>3. \A x \in Objects : size[x] \in Nat
    BY Typing
  <2>4. QED
    BY <2>0, <2>1, <2>2, <2>3
<1>27. CASE Exit(t)
  <2>0. /\ kind \in [Objects -> Kinds \cup {"free"}] /\ size \in [Objects -> 0..Cells]
        /\ \A x \in Objects : kind[x] = "free" => size[x] = 0
        /\ \A x \in Objects : kind[x] = "Fun" => size[x] <= 1
    BY DEF IInv, TypeOK, Bounds
  <2>1. size' = size
    BY <1>27 DEF Exit, SameHeap
  <2>2. \A x \in Objects : kind[x] # "free" => kind'[x] = kind[x]
    BY OpcodeGrows
  <2>3. \A x \in Objects : size[x] \in Nat
    BY Typing
  <2>4. QED
    BY <2>0, <2>1, <2>2, <2>3
<1>28. QED
  BY <1>1, <1>2, <1>3, <1>4, <1>5, <1>6, <1>7, <1>8, <1>9, <1>10, <1>11, <1>12, <1>13, <1>14, <1>15, <1>16, <1>17, <1>18, <1>19, <1>20, <1>21, <1>22, <1>23, <1>24, <1>25, <1>26, <1>27 DEF Opcode

\* Nothing stays beyond the bounds after an opcode.
LEMMA OpcodeClears ==
    ASSUME IInv, NEW t \in Threads, Opcode(t), ~Swap(t)
    PROVE  Clear'
<1>1. heap' = heap /\ todo = <<>>
  BY OpcodeShape
<1>2. /\ \A u \in Threads : depth[u] \in Nat /\ depth'[u] \in Nat /\ locals[u] \in Nat /\ locals'[u] \in Nat
      /\ \A u \in Threads : Len(frames[u]) \in Nat /\ Len(frames'[u]) \in Nat
      /\ \A c \in Objects : size[c] \in Nat /\ size'[c] \in Nat
  <2>1. /\ size' \in [Objects -> 0..Cells] /\ Cells \in Nat
        /\ depth' \in [Threads -> Nat] /\ locals' \in [Threads -> Nat] /\ frames' \in [Threads -> Seq(Values)]
    BY SizeTyped, DepthTyped, LocalsTyped, FramesTyped, Typing
  <2>2. \A u \in Threads : Len(frames'[u]) \in Nat
    BY <2>1
  <2>3. QED
    BY <2>1, <2>2, Typing
<1>3. ASSUME NEW u \in Threads, NEW i \in 1..StackSize[u], i > depth'[u]
      PROVE  Emptied(Data(u, i))'
  <2>1. heap'.cell[Data(u, i)] = None \/ \E j \in DOMAIN todo' : todo'[j].at = Data(u, i)
    <3>1. CASE i > depth[u]
      <4>1. heap.cell[Data(u, i)] = None
        BY <3>1, <1>1, AtExec
      <4>2. QED
        BY <4>1, <1>1
    <3>2. CASE ~(i > depth[u])
      <4>1. depth'[u] < i /\ i <= depth[u]
        BY <3>2, <1>3, <1>2
      <4>2. QED
        BY <4>1, PoppedData
    <3>3. QED
      BY <3>1, <3>2
  <2>2. ASSUME NEW j \in DOMAIN todo', todo'[j].at = Data(u, i) PROVE todo'[j].op = "drop"
    <3>1. ~WithinNext(Data(u, i))
      BY <1>3, <1>2 DEF WithinNext
    <3>2. QED
      BY <2>2, <3>1, OpcodeFills DEF FillsWithin
  <2>3. QED
    BY <2>1, <2>2 DEF Emptied, Data
<1>4. ASSUME NEW u \in Threads, NEW i \in 1..LocalSize[u], i > locals'[u]
      PROVE  Emptied(Local(u, i))'
  <2>1. heap'.cell[Local(u, i)] = None \/ \E j \in DOMAIN todo' : todo'[j].at = Local(u, i)
    <3>1. CASE i > locals[u]
      <4>1. heap.cell[Local(u, i)] = None
        BY <3>1, <1>1, AtExec
      <4>2. QED
        BY <4>1, <1>1
    <3>2. CASE ~(i > locals[u])
      <4>1. locals'[u] < i /\ i <= locals[u]
        BY <3>2, <1>4, <1>2
      <4>2. QED
        BY <4>1, PoppedLocals
    <3>3. QED
      BY <3>1, <3>2
  <2>2. ASSUME NEW j \in DOMAIN todo', todo'[j].at = Local(u, i) PROVE todo'[j].op = "drop"
    <3>1. ~WithinNext(Local(u, i))
      BY <1>4, <1>2 DEF WithinNext
    <3>2. QED
      BY <2>2, <3>1, OpcodeFills DEF FillsWithin
  <2>3. QED
    BY <2>1, <2>2 DEF Emptied, Local
<1>5. ASSUME NEW u \in Threads, NEW i \in 1..CallDepth[u], i > Len(frames'[u])
      PROVE  Emptied(Callee(u, i))'
  <2>1. heap'.cell[Callee(u, i)] = None \/ \E j \in DOMAIN todo' : todo'[j].at = Callee(u, i)
    <3>1. CASE i > Len(frames[u])
      <4>1. heap.cell[Callee(u, i)] = None
        BY <3>1, <1>1, AtExec
      <4>2. QED
        BY <4>1, <1>1
    <3>2. CASE ~(i > Len(frames[u]))
      <4>1. Len(frames'[u]) < i /\ i <= Len(frames[u])
        BY <3>2, <1>5, <1>2
      <4>2. QED
        BY <4>1, PoppedFrames
    <3>3. QED
      BY <3>1, <3>2
  <2>2. ASSUME NEW j \in DOMAIN todo', todo'[j].at = Callee(u, i) PROVE todo'[j].op = "drop"
    <3>1. ~WithinNext(Callee(u, i))
      BY <1>5, <1>2 DEF WithinNext
    <3>2. QED
      BY <2>2, <3>1, OpcodeFills DEF FillsWithin
  <2>3. QED
    BY <2>1, <2>2 DEF Emptied, Callee
<1>6. ASSUME NEW u \in Objects, NEW i \in 1..Cells, i > size'[u]
      PROVE  Emptied(In(u, i))'
  <2>1. heap'.cell[In(u, i)] = None \/ \E j \in DOMAIN todo' : todo'[j].at = In(u, i)
    <3>1. CASE i > size[u]
      <4>1. heap.cell[In(u, i)] = None
        BY <3>1, <1>1, AtExec
      <4>2. QED
        BY <4>1, <1>1
    <3>2. CASE ~(i > size[u])
      <4>1. size'[u] < i /\ i <= size[u]
        BY <3>2, <1>6, <1>2
      <4>2. QED
        BY <4>1, PoppedCells
    <3>3. QED
      BY <3>1, <3>2
  <2>2. ASSUME NEW j \in DOMAIN todo', todo'[j].at = In(u, i) PROVE todo'[j].op = "drop"
    <3>1. ~WithinNext(In(u, i))
      BY <1>6, <1>2 DEF WithinNext
    <3>2. QED
      BY <2>2, <3>1, OpcodeFills DEF FillsWithin
  <2>3. QED
    BY <2>1, <2>2 DEF Emptied, In
<1>7. QED
  BY <1>3, <1>4, <1>5, <1>6 DEF Clear, Data, Local, Callee, In

\* An opcode keeps the invariant.
LEMMA OpcodeInv ==
    ASSUME IInv, NEW t \in Threads, Opcode(t), ~Swap(t)
    PROVE  IInv'
<1>1. /\ heap' = heap /\ todo = <<>> /\ dying' = dying /\ dying = None /\ phase' = "gc"
  <2>1. heap' = heap /\ todo = <<>> /\ dying' = dying /\ phase' = "gc" /\ phase = "exec"
    BY OpcodeShape
  <2>2. dying = None
    BY <2>1 DEF IInv, Finalizing
  <2>3. QED
    BY <2>1, <2>2
<1>2. TypeOK'
  BY <1>1, TodoTyped, KindTyped, SizeTyped, DepthTyped, LocalsTyped, FramesTyped, AliveTyped DEF IInv, TypeOK
<1>3. Allocated \subseteq Allocated'
  BY StillLive
<1>4. CountsAgree'
  BY <1>1 DEF IInv, CountsAgree, Holders
<1>5. StoresLive'
  BY LiveStores DEF StoresLive
<1>6. CellsLive'
  BY <1>1, <1>3 DEF IInv, CellsLive
<1>7. GcSound'
  BY <1>1, <1>3 DEF IInv, GcSound
<1>8. GcComplete'
  <2>1. ASSUME NEW o \in Objects, kind'[o] # "free", heap'.rc[o] = 0
        PROVE  o \in ElementsOf(heap'.gc) \/ \E i \in DOMAIN todo' : todo'[i].v = o
    <3>1. CASE kind[o] = "free"
      <4>1. \E i \in DOMAIN todo' : todo'[i].v = o
        BY <3>1, <2>1, OpcodeGrows
      <4>2. QED
        BY <4>1
    <3>2. CASE kind[o] # "free"
      <4>1. o # dying /\ ~ \E i \in DOMAIN todo : todo[i].v = o
        BY <1>1, HeapAssumption
      <4>2. o \in Allocated /\ heap.rc[o] = 0
        BY <1>1, <2>1, <3>2 DEF Allocated
      <4>3. o \in ElementsOf(heap.gc)
        BY <4>1, <4>2 DEF IInv, GcComplete
      <4>4. QED
        BY <1>1, <4>3
    <3>3. QED
      BY <3>1, <3>2
  <2>2. QED
    BY <2>1 DEF GcComplete, Allocated, ElementsOf
<1>9. Finalizing'
  BY <1>1 DEF Finalizing
<1>10. Bounds'
  <2>1. \A o \in Objects : kind'[o] = "free" => size'[o] = 0
    BY OpcodeBounds
  <2>2. \A o \in Objects : kind'[o] = "Fun" => size'[o] <= 1
    BY OpcodeBounds
  <2>3. \A u \in Threads : Len(frames'[u]) <= CallDepth[u]
    BY FramesTyped
  <2>4. QED
    BY <2>1, <2>2, <2>3 DEF Bounds
<1>11. QED
  BY <1>2, <1>4, <1>5, <1>6, <1>7, <1>8, <1>9, <1>10, OpcodeFits, OpcodeClears DEF IInv

--------------------------------------------------------------------------------
(* The other steps                                                          *)

\* What is held is counted.
LEMMA HeldCounted ==
    ASSUME IInv, NEW p \in Places, NEW o \in Objects, heap.cell[p] = o
    PROVE  heap.rc[o] > 0 /\ heap.rc[o] \in Nat
<1>1. heap \in Heaps /\ None \in Values
  BY DEF IInv, TypeOK, Heaps, Values
<1> DEFINE g == [heap EXCEPT !.cell[p] = None]
<1>2. g \in Heaps /\ g.cell = [heap.cell EXCEPT ![p] = None]
  BY <1>1 DEF Heaps
<1> HIDE DEF g
<1>3. Cardinality(Holders(heap, o)) > 0 /\ Cardinality(Holders(heap, o)) \in Nat
  BY <1>1, <1>2, Recount
<1>4. QED
  BY <1>3 DEF IInv, CountsAgree

\* So does swap, which moves values at once.
LEMMA SwapInv ==
    ASSUME IInv, NEW t \in Threads, Swap(t)
    PROVE  IInv'
<1>1. /\ todo = <<>> /\ todo' = todo /\ dying' = dying /\ phase = "exec" /\ phase' = "gc"
      /\ kind' = kind /\ size' = size /\ depth' = depth /\ locals' = locals
      /\ frames' = frames /\ alive' = alive
  BY DEF Swap, SameHeap, SameFrames
<1>2. PICK i \in 1..(depth[t] - 1) :
        heap' = [heap EXCEPT !.cell[Top(t, 0)] = At(Data(t, i)), !.cell[Data(t, i)] = At(Top(t, 0))]
  BY DEF Swap
<1> DEFINE p == Top(t, 0)
           q == Data(t, i)
<1>3. /\ p \in Places /\ q \in Places /\ p # q
      /\ heap.cell[p] \in Values /\ heap.cell[q] \in Values
  <2>1. depth[t] \in Nat /\ depth[t] > 0 /\ i \in 1..depth[t] /\ i # depth[t]
    BY Typing
  <2>2. p = Data(t, depth[t]) /\ p \in Places /\ q \in Places
    BY <2>1, TopTypes
  <2>3. p # q
    BY <2>1, <2>2, PlaceNames
  <2>4. QED
    BY <2>2, <2>3, Typing DEF At
<1>4. heap \in Heaps
  BY DEF IInv, TypeOK, Heaps
<1>5. /\ heap' \in Heaps /\ heap'.rc = heap.rc /\ heap'.gc = heap.gc
      /\ heap'.cell = [heap.cell EXCEPT ![p] = heap.cell[q], ![q] = heap.cell[p]]
  BY <1>2, <1>3, <1>4 DEF Heaps, At
<1> DEFINE g == [heap EXCEPT !.cell[p] = heap.cell[q]]
<1>6. g \in Heaps /\ g.cell = [heap.cell EXCEPT ![p] = heap.cell[q]]
  BY <1>3, <1>4 DEF Heaps
<1>7. heap'.cell = [g.cell EXCEPT ![q] = heap.cell[p]] /\ g.cell[q] = heap.cell[q]
  BY <1>3, <1>4, <1>5, <1>6 DEF Heaps
<1> HIDE DEF g, p, q
<1>8. ASSUME NEW o \in Objects PROVE Cardinality(Holders(heap', o)) = Cardinality(Holders(heap, o))
  <2> DEFINE a == Cardinality(Holders(heap, o))
             b == Cardinality(Holders(g, o))
             c == Cardinality(Holders(heap', o))
  <2>1. /\ a \in Nat
        /\ b = a - (IF heap.cell[p] = o THEN 1 ELSE 0) + (IF heap.cell[q] = o THEN 1 ELSE 0)
    BY <1>3, <1>4, <1>6, Recount
  <2>2. /\ b \in Nat
        /\ c = b - (IF g.cell[q] = o THEN 1 ELSE 0) + (IF heap.cell[p] = o THEN 1 ELSE 0)
    BY <1>3, <1>5, <1>6, <1>7, Recount
  <2> HIDE DEF a, b, c
  <2>3. c = a
    BY <2>1, <2>2, <1>7
  <2>4. QED
    BY <2>3 DEF a, c
<1>9. TypeOK'
  BY <1>1, <1>5 DEF IInv, TypeOK, Heaps
<1>10. CountsAgree'
  <2>1. \A o \in Objects : heap.rc[o] = Cardinality(Holders(heap, o))
    BY DEF IInv, CountsAgree
  <2>2. QED
    BY <1>5, <1>8, <2>1 DEF CountsAgree
<1>11. StoresFit' /\ StoresLive'
  BY <1>1 DEF StoresFit, StoresLive
<1>12. CellsLive'
  BY <1>1, <1>3, <1>5 DEF IInv, CellsLive, Allocated, Heaps
<1>13. GcSound' /\ GcComplete'
  BY <1>1, <1>5 DEF IInv, GcSound, GcComplete, Allocated, ElementsOf
<1>14. Finalizing'
  BY <1>1 DEF IInv, Finalizing
<1>15. Clear'
  <2>1. \A r \in Places : r # p /\ r # q => heap'.cell[r] = heap.cell[r]
    BY <1>4, <1>5 DEF Heaps
  <2>2. \A r \in Places : r # p /\ r # q /\ heap.cell[r] = None => Emptied(r)'
    BY <1>1, <2>1 DEF Emptied
  <2>3. p = Data(t, depth[t]) /\ q = Data(t, i) /\ i <= depth[t] /\ depth[t] \in Nat /\ depth[t] > 0
    BY Typing, TopTypes DEF p, q
  <2>4. ASSUME NEW u \in Threads, NEW j \in 1..StackSize[u], j > depth[u] PROVE Emptied(Data(u, j))'
    <3>1. Data(u, j) # p /\ Data(u, j) # q
      BY <2>3, <2>4, PlaceNames, Typing
    <3>2. heap.cell[Data(u, j)] = None /\ Data(u, j) \in Places
      BY <1>1, <2>4, AtExec, PlaceTypes
    <3>3. Emptied(Data(u, j))'
      BY <2>2, <3>1, <3>2 DEF Emptied, Data
    <3>4. QED
      BY <3>3
  <2>5. ASSUME NEW u \in Threads, NEW j \in 1..LocalSize[u], j > locals[u] PROVE Emptied(Local(u, j))'
    BY SMTT(30), <1>1, <2>2, <2>3, <2>5, PlaceNames, PlaceTypes, AtExec DEF Emptied, Local
  <2>6. ASSUME NEW u \in Threads, NEW j \in 1..CallDepth[u], j > Len(frames[u]) PROVE Emptied(Callee(u, j))'
    BY SMTT(30), <1>1, <2>2, <2>3, <2>6, PlaceNames, PlaceTypes, AtExec DEF Emptied, Callee
  <2>7. ASSUME NEW c \in Objects, NEW j \in 1..Cells, j > size[c] PROVE Emptied(In(c, j))'
    BY <1>1, <2>2, <2>3, <2>7, PlaceNames, PlaceTypes, AtExec DEF Emptied, In
  <2>8. QED
    BY <1>1, <2>4, <2>5, <2>6, <2>7 DEF Clear, Data, Local, Callee, In
<1>16. Bounds'
  BY <1>1 DEF IInv, Bounds
<1>17. QED
  BY <1>9, <1>10, <1>11, <1>12, <1>13, <1>14, <1>15, <1>16 DEF IInv

\* The list without its first step.
LEMMA Rest ==
    ASSUME IInv, Step
    PROVE  /\ todo' \in Seq(Steps) /\ Len(todo') = Len(todo) - 1 /\ Len(todo) \in Nat /\ Len(todo) > 0
           /\ 1 \in DOMAIN todo /\ todo[1] \in Steps /\ Head(todo) = todo[1]
           /\ DOMAIN todo = 1..Len(todo) /\ DOMAIN todo' = 1..(Len(todo) - 1)
           /\ \A i \in DOMAIN todo' : i + 1 \in DOMAIN todo /\ todo'[i] = todo[i + 1]
           /\ \A i \in DOMAIN todo : i # 1 => i - 1 \in DOMAIN todo' /\ todo'[i - 1] = todo[i]
<1>1. todo \in Seq(Steps) /\ todo # <<>> /\ todo' = Tail(todo)
  BY DEF IInv, TypeOK, Step
<1>2. /\ todo' \in Seq(Steps) /\ Len(todo') = Len(todo) - 1 /\ Len(todo) \in Nat /\ Len(todo) > 0
      /\ 1 \in DOMAIN todo /\ todo[1] \in Steps /\ Head(todo) = todo[1]
      /\ DOMAIN todo = 1..Len(todo) /\ DOMAIN todo' = 1..(Len(todo) - 1)
  BY <1>1
<1>3. \A i \in 1..(Len(todo) - 1) : i + 1 \in 1..Len(todo) /\ todo'[i] = todo[i + 1]
  BY <1>1, <1>2
<1>4. \A i \in 1..Len(todo) : i # 1 => i - 1 \in 1..(Len(todo) - 1) /\ todo'[i - 1] = todo[i]
  BY <1>1, <1>2
<1>5. QED
  BY <1>2, <1>3, <1>4

\* A step on the reference counts keeps the invariant.
LEMMA StepInv ==
    ASSUME IInv, Step
    PROVE  IInv'
<1> DEFINE s == Head(todo)
           old == heap.cell[s.at]
<1>1. /\ heap' = Done(heap, s)
      /\ kind' = kind /\ size' = size /\ depth' = depth /\ locals' = locals
      /\ frames' = frames /\ alive' = alive /\ dying' = dying /\ phase' = phase /\ todo # <<>>
  BY DEF Step
<1>2. /\ heap \in Heaps /\ s \in Steps /\ s = todo[1] /\ 1 \in DOMAIN todo
      /\ s.at \in Places /\ s.v \in Values /\ old \in Values
  <2>1. heap \in Heaps /\ s \in Steps /\ s = todo[1] /\ 1 \in DOMAIN todo
    BY Rest DEF IInv, TypeOK, Heaps
  <2>2. s.at \in Places /\ s.v \in Values
    BY <2>1 DEF Steps
  <2>3. QED
    BY <2>1, <2>2 DEF Heaps
<1>3. Distinct(heap.gc) /\ \A x \in ElementsOf(heap.gc) : heap.rc[x] = 0 /\ x \in Allocated /\ x # dying
  BY DEF IInv, GcSound, Distinct, ElementsOf
<1>4. (s.op = "store" => old = None) /\ (s.op = "drop" => s.v = None) /\ s.v \in Allocated \cup {None}
  <2>1. s.op = "store" => old = None
    BY <1>2 DEF IInv, StoresFit
  <2>2. (s.op = "drop" => s.v = None) /\ s.v \in Allocated \cup {None}
    BY <1>2 DEF IInv, StoresLive
  <2>3. QED
    BY <2>1, <2>2
<1>5. /\ heap' \in Heaps
      /\ heap'.cell = [heap.cell EXCEPT ![s.at] = s.v]
      /\ Distinct(heap'.gc)
      /\ \A o \in Objects : heap'.rc[o] = Cardinality(Holders(heap', o))
      /\ \/ ElementsOf(heap'.gc) = (ElementsOf(heap.gc) \cup {o \in Objects : o = old /\ heap.rc[o] = 1}) \ {s.v}
         \/ ElementsOf(heap'.gc) = (ElementsOf(heap.gc) \ {s.v}) \cup {o \in Objects : o = old /\ heap'.rc[o] = 0}
      /\ \A o \in Objects : heap'.rc[o] = heap.rc[o] - (IF old = o THEN 1 ELSE 0)
                                                     + (IF s.v = o THEN 1 ELSE 0)
  <2>1. \A o \in Objects : heap.rc[o] = Cardinality(Holders(heap, o))
    BY DEF IInv, CountsAgree
  <2>2. \A x \in ElementsOf(heap.gc) : heap.rc[x] = 0
    BY <1>3
  <2>3. /\ s.op = "store" => heap.cell[s.at] = None
        /\ s.op = "drop" => s.v = None
    BY <1>4
  <2> DEFINE g == Done(heap, s)
  <2> HIDE DEF s
  <2>4. /\ g \in Heaps
        /\ g.cell = [heap.cell EXCEPT ![s.at] = s.v]
        /\ Distinct(g.gc)
        /\ \A o \in Objects : g.rc[o] = Cardinality(Holders(g, o))
        /\ \/ ElementsOf(g.gc) = (ElementsOf(heap.gc) \cup {o \in Objects : o = old /\ heap.rc[o] = 1}) \ {s.v}
           \/ ElementsOf(g.gc) = (ElementsOf(heap.gc) \ {s.v}) \cup {o \in Objects : o = old /\ g.rc[o] = 0}
        /\ \A o \in Objects : g.rc[o] = heap.rc[o] - (IF old = o THEN 1 ELSE 0)
                                                  + (IF s.v = o THEN 1 ELSE 0)
    BY <1>2, <1>3, <2>1, <2>2, <2>3, DoneEffect
  <2>5. heap' = g
    BY <1>1
  <2> HIDE DEF g
  <2>6. QED
    BY <2>4, <2>5
<1>6. /\ \A o \in Objects : heap.rc[o] \in Nat /\ heap'.rc[o] \in Nat
      /\ \A o \in Objects : old = o => heap.rc[o] > 0 /\ o \in Allocated
  <2>1. \A o \in Objects : heap.rc[o] \in Nat /\ heap'.rc[o] \in Nat
    BY <1>2, <1>5 DEF Heaps
  <2>2. old \in Allocated \cup {None}
    BY <1>2 DEF IInv, CellsLive
  <2>3. \A o \in Objects : old = o => heap.rc[o] > 0
    BY <1>2, HeldCounted
  <2>4. QED
    BY <2>1, <2>2, <2>3, HeapAssumption
<1>7. \A p \in Places : heap'.cell[p] = IF p = s.at THEN s.v ELSE heap.cell[p]
  BY <1>2, <1>5 DEF Heaps
<1>8. \A o \in Objects : o \in Allocated' <=> o \in Allocated
  BY <1>1 DEF Allocated
<1> HIDE DEF s, old
<1>9. TypeOK'
  BY <1>1, <1>5, Rest DEF IInv, TypeOK, Heaps
<1>10. CountsAgree'
  BY <1>5 DEF CountsAgree
<1>11. StoresFit'
  <2>1. ASSUME NEW i \in DOMAIN todo', todo'[i].op = "store"
        PROVE  /\ heap'.cell[todo'[i].at] = None \/ \E j \in 1..(i - 1) : todo'[j].at = todo'[i].at
               /\ \A j \in 1..(i - 1) : todo'[j].at = todo'[i].at => todo'[j].op = "drop"
    <3> DEFINE p == todo'[i].at
    <3>1. /\ i + 1 \in DOMAIN todo /\ todo'[i] = todo[i + 1] /\ i \in Nat /\ i >= 1
          /\ i + 1 <= Len(todo) /\ Len(todo) \in Nat /\ DOMAIN todo' = 1..(Len(todo) - 1)
      BY <2>1, Rest
    <3>2. /\ heap.cell[p] = None \/ \E j \in 1..i : todo[j].at = p
          /\ \A j \in 1..i : todo[j].at = p => todo[j].op = "drop"
      <4>1. todo[i + 1].op = "store"
        BY <2>1, <3>1
      <4>2. (i + 1) - 1 = i
        BY <3>1
      <4>3. QED
        BY <3>1, <4>1, <4>2 DEF IInv, StoresFit
    <3>3. p \in Places
      <4>1. todo'[i] \in Steps
        BY Rest
      <4>2. QED
        BY <4>1 DEF Steps
    <3> HIDE DEF p
    <3>4. \A j \in 1..(i - 1) : j + 1 \in 1..i /\ todo'[j] = todo[j + 1]
      <4>1. \A j \in 1..(i - 1) : j \in DOMAIN todo' /\ j + 1 \in 1..i
        BY <3>1
      <4>2. QED
        BY <4>1, Rest
    <3>5. \A j \in 1..(i - 1) : todo'[j].at = p => todo'[j].op = "drop"
      BY <3>2, <3>4
    <3>6. heap'.cell[p] = None \/ \E j \in 1..(i - 1) : todo'[j].at = p
      <4>1. CASE p = s.at
        <5>1. s.op = "drop"
          BY <4>1, <3>1, <3>2, <1>2
        <5>2. QED
          BY <4>1, <5>1, <1>4, <1>7, <3>3
      <4>2. CASE p # s.at
        <5>1. CASE heap.cell[p] = None
          BY <5>1, <4>2, <1>7, <3>3
        <5>2. CASE heap.cell[p] # None
          <6>1. PICK j \in 1..i : todo[j].at = p
            BY <5>2, <3>2
          <6>2. j # 1
            BY <6>1, <4>2, <1>2
          <6>3. j - 1 \in 1..(i - 1) /\ j \in DOMAIN todo
            BY <6>2, <3>1, Rest
          <6>4. todo'[j - 1] = todo[j]
            BY <6>2, <6>3, Rest
          <6>5. QED
            BY <6>1, <6>3, <6>4
        <5>3. QED
          BY <5>1, <5>2
      <4>3. QED
        BY <4>1, <4>2
    <3>7. QED
      BY <3>5, <3>6 DEF p
  <2>2. QED
    BY <2>1 DEF StoresFit
<1>12. StoresLive'
  <2>1. \A i \in DOMAIN todo' : todo'[i].v \in Allocated \cup {None} /\ (todo'[i].op = "drop" => todo'[i].v = None)
    BY Rest DEF IInv, StoresLive
  <2>2. Allocated' = Allocated
    BY <1>1 DEF Allocated
  <2>3. QED
    BY <2>1, <2>2 DEF StoresLive
<1>13. \A p \in Places : Emptied(p) => Emptied(p)'
  <2>1. ASSUME NEW p \in Places, Emptied(p)
        PROVE  /\ heap'.cell[p] = None \/ \E j \in DOMAIN todo' : todo'[j].at = p
               /\ \A j \in DOMAIN todo' : todo'[j].at = p => todo'[j].op = "drop"
    <3>1. \A j \in DOMAIN todo : todo[j].at = p => todo[j].op = "drop"
      BY <2>1 DEF Emptied
    <3>2. \A j \in DOMAIN todo' : todo'[j].at = p => todo'[j].op = "drop"
      BY <3>1, Rest
    <3>3. CASE p = s.at
      <4>1. s.op = "drop"
        BY <3>1, <3>3, <1>2
      <4>2. QED
        BY <3>2, <3>3, <4>1, <1>4, <1>7
    <3>4. CASE p # s.at
      <4>1. CASE heap.cell[p] = None
        BY <4>1, <3>2, <3>4, <1>7
      <4>2. CASE heap.cell[p] # None
        <5>1. PICK j \in DOMAIN todo : todo[j].at = p
          BY <4>2, <2>1 DEF Emptied
        <5>2. j # 1
          BY <5>1, <3>4, <1>2
        <5>3. j - 1 \in DOMAIN todo' /\ todo'[j - 1].at = p
          BY <5>1, <5>2, Rest
        <5>4. QED
          BY <5>3, <3>2
      <4>3. QED
        BY <4>1, <4>2
    <3>5. QED
      BY <3>3, <3>4
  <2>2. QED
    BY <2>1 DEF Emptied
<1>14. Clear'
  <2>1. \A t \in Threads : \A i \in 1..StackSize[t] : i > depth'[t] => Emptied(Data(t, i))'
    BY <1>1, <1>13, PlaceTypes DEF IInv, Clear, Emptied, Data
  <2>2. \A t \in Threads : \A i \in 1..LocalSize[t] : i > locals'[t] => Emptied(Local(t, i))'
    BY <1>1, <1>13, PlaceTypes DEF IInv, Clear, Emptied, Local
  <2>3. \A t \in Threads : \A i \in 1..CallDepth[t] : i > Len(frames'[t]) => Emptied(Callee(t, i))'
    BY <1>1, <1>13, PlaceTypes DEF IInv, Clear, Emptied, Callee
  <2>4. \A c \in Objects : \A i \in 1..Cells : i > size'[c] => Emptied(In(c, i))'
    BY <1>1, <1>13, PlaceTypes DEF IInv, Clear, Emptied, In
  <2>5. QED
    BY <2>1, <2>2, <2>3, <2>4 DEF Clear, Data, Local, Callee, In
<1>15. CellsLive'
  <2>1. Allocated' = Allocated
    BY <1>1 DEF Allocated
  <2>2. \A p \in Places : heap'.cell[p] \in Allocated \cup {None}
    BY <1>4, <1>7 DEF IInv, CellsLive
  <2>3. QED
    BY <2>1, <2>2 DEF CellsLive
<1>16. GcSound'
  <2>1. ASSUME NEW x \in ElementsOf(heap'.gc) PROVE heap'.rc[x] = 0 /\ x \in Allocated /\ x # dying
    <3>1. x \in Objects
      BY <1>5 DEF Heaps, ElementsOf
    <3>2. CASE x \in ElementsOf(heap.gc) /\ x # s.v
      <4>1. heap.rc[x] = 0 /\ x \in Allocated /\ x # dying
        BY <3>2, <1>3
      <4>2. x # old
        BY <4>1, <3>1, <1>6
      <4>3. QED
        BY <3>1, <3>2, <4>1, <4>2, <1>5
    <3>3. CASE x = old /\ heap.rc[x] = 1 /\ x # s.v
      <4>1. heap'.rc[x] = 0
        BY <3>1, <3>3, <1>5
      <4>2. dying # x
        BY <3>1, <3>3, <1>6, HeapAssumption DEF IInv, Finalizing
      <4>3. QED
        BY <3>1, <3>3, <4>1, <4>2, <1>6
    <3>4. CASE x = old /\ heap'.rc[x] = 0
      <4>1. dying # x
        BY <3>1, <3>4, <1>6, HeapAssumption DEF IInv, Finalizing
      <4>2. QED
        BY <3>1, <3>4, <4>1, <1>6
    <3>5. QED
      BY <1>5, <3>2, <3>3, <3>4
  <2>2. Allocated' = Allocated /\ dying' = dying
    BY <1>1 DEF Allocated
  <2>3. QED
    BY <2>1, <2>2, <1>5 DEF GcSound, Distinct, ElementsOf
<1>17. GcComplete'
  <2>1. ASSUME NEW o \in Allocated, heap'.rc[o] = 0
        PROVE  o \in ElementsOf(heap'.gc) \/ o = dying \/ \E i \in DOMAIN todo' : todo'[i].v = o
    <3>1. o \in Objects
      BY DEF Allocated
    <3>2. heap.rc[o] = (IF old = o THEN 1 ELSE 0) - (IF s.v = o THEN 1 ELSE 0) /\ heap.rc[o] \in Nat
      BY <3>1, <2>1, <1>5, <1>6
    <3>3. s.v # o
      BY <3>1, <3>2, <1>6
    <3>4. CASE old = o
      <4>1. heap.rc[o] = 1
        BY <3>2, <3>3, <3>4
      <4>2. o \in {x \in Objects : x = old /\ heap.rc[x] = 1} /\ o \in {x \in Objects : x = old /\ heap'.rc[x] = 0}
        BY <3>1, <3>4, <4>1, <2>1
      <4>3. o \in ElementsOf(heap'.gc)
        BY <1>5, <4>2, <3>3
      <4>4. QED
        BY <4>3
    <3>5. CASE old # o
      <4>1. heap.rc[o] = 0
        BY <3>2, <3>3, <3>5
      <4>2. CASE o \in ElementsOf(heap.gc)
        BY <4>2, <1>5, <3>3
      <4>3. CASE o = dying
        BY <4>3
      <4>4. CASE \E i \in DOMAIN todo : todo[i].v = o
        <5>1. PICK i \in DOMAIN todo : todo[i].v = o
          BY <4>4
        <5>2. i # 1
          BY <5>1, <3>3, <1>2
        <5>3. i - 1 \in DOMAIN todo' /\ todo'[i - 1].v = o
          BY <5>1, <5>2, Rest
        <5>4. QED
          BY <5>3
      <4>5. QED
        BY <4>1, <4>2, <4>3, <4>4, <2>1 DEF IInv, GcComplete
    <3>6. QED
      BY <3>4, <3>5
  <2>2. Allocated' = Allocated /\ dying' = dying
    BY <1>1 DEF Allocated
  <2>3. QED
    BY <2>1, <2>2 DEF GcComplete, ElementsOf
<1>18. Finalizing'
  <2>1. phase # "exec"
    BY <1>1 DEF IInv, Finalizing
  <2>2. ASSUME dying # None
        PROVE  /\ dying \in Allocated /\ heap'.rc[dying] = 0
               /\ \A i \in DOMAIN todo' : todo'[i].op = "drop"
               /\ \A i \in 1..Cells : Emptied(In(dying, i))'
    <3>1. /\ dying \in Allocated /\ heap.rc[dying] = 0
          /\ \A i \in DOMAIN todo : todo[i].op = "drop"
          /\ \A i \in 1..Cells : Emptied(In(dying, i))
      BY <2>2 DEF IInv, Finalizing
    <3>2. dying \in Objects
      BY <3>1 DEF Allocated
    <3>3. s.op = "drop" /\ s.v = None
      BY <3>1, <1>2, <1>4
    <3>4. old # dying
      BY <3>1, <3>2, <1>6
    <3>5. heap'.rc[dying] = 0
      BY <3>1, <3>2, <3>3, <3>4, <1>5, <2>2
    <3>6. \A i \in DOMAIN todo' : todo'[i].op = "drop"
      BY <3>1, Rest
    <3>7. \A i \in 1..Cells : Emptied(In(dying, i))'
      BY <1>1, <3>1, <3>2, <1>13, PlaceTypes DEF Emptied, In
    <3>8. QED
      BY <3>1, <3>5, <3>6, <3>7
  <2>3. Allocated' = Allocated /\ dying' = dying /\ phase' = phase
    BY <1>1 DEF Allocated
  <2>4. (\A i \in 1..Cells : Emptied(In(dying, i))') => (\A i \in 1..Cells : Emptied(In(dying, i)))'
    BY <2>3 DEF Emptied, In
  <2>5. QED
    BY <2>1, <2>2, <2>3, <2>4 DEF Finalizing, Emptied, In
<1>19. Bounds'
  BY <1>1 DEF IInv, Bounds
<1>20. QED
  BY <1>9, <1>10, <1>11, <1>12, <1>14, <1>15, <1>16, <1>17, <1>18, <1>19 DEF IInv

\* So does taking an object off the pending list.
LEMMA FinalizeInv ==
    ASSUME IInv, Finalize
    PROVE  IInv'
<1>1. /\ phase = "gc" /\ todo = <<>> /\ dying = None
      /\ kind' = kind /\ size' = size /\ depth' = depth /\ locals' = locals
      /\ frames' = frames /\ alive' = alive
  BY DEF Finalize
<1>2. Allocated' = Allocated
  BY <1>1 DEF Allocated
<1>3. CASE heap.gc = <<>>
  <2>1. heap' = heap /\ todo' = todo /\ dying' = dying /\ phase' = "exec"
    BY <1>3 DEF Finalize
  <2>2. TypeOK' /\ CountsAgree' /\ Bounds'
    BY ZenonT(60), <1>1, <2>1 DEF IInv, TypeOK, CountsAgree, Bounds, Holders
  <2>3. StoresFit' /\ StoresLive'
    BY <1>1, <2>1 DEF StoresFit, StoresLive
  <2>4. Clear'
    BY <1>1, <2>1 DEF IInv, Clear, Emptied, Data, Local, Callee, In
  <2>5. CellsLive' /\ GcSound' /\ GcComplete'
    BY <1>2, <2>1 DEF IInv, CellsLive, GcSound, GcComplete, ElementsOf
  <2>6. Finalizing'
    BY <1>1, <2>1 DEF Finalizing
  <2>7. QED
    BY <2>2, <2>3, <2>4, <2>5, <2>6 DEF IInv
<1>4. CASE heap.gc # <<>>
  <2>0. PICK o \in Objects : o = heap.gc[Len(heap.gc)]
    BY <1>4 DEF IInv, TypeOK
  <2> DEFINE n == Len(heap.gc)
             gc == SubSeq(heap.gc, 1, n - 1)
  <2>1. /\ heap' = [heap EXCEPT !.gc = gc] /\ dying' = o /\ phase' = phase
        /\ todo' = [i \in 1..size[o] |-> Drop(In(o, i))]
    BY <1>4, <2>0 DEF Finalize
  <2>2. heap \in Heaps /\ heap.gc \in Seq(Objects) /\ n \in Nat /\ n > 0 /\ o \in Objects /\ n \in DOMAIN heap.gc
    BY <1>4 DEF IInv, TypeOK, Heaps
  <2>3. /\ gc \in Seq(Objects) /\ Len(gc) = n - 1 /\ DOMAIN gc = 1..(n - 1)
        /\ \A i \in 1..(n - 1) : gc[i] = heap.gc[i] /\ i \in DOMAIN heap.gc
    BY <2>2
  <2>4. o \in Allocated /\ heap.rc[o] = 0
    BY <2>0, <2>2 DEF IInv, GcSound
  <2>5. \A i \in 1..(n - 1) : gc[i] # o
    <3>1. \A i \in 1..(n - 1) : i # n
      BY <2>2
    <3>2. QED
      BY <2>0, <2>2, <2>3, <3>1 DEF IInv, GcSound
  <2>6. /\ size[o] \in 0..Cells /\ Cells \in Nat
        /\ \A i \in 1..size[o] : In(o, i) \in Places /\ Drop(In(o, i)) \in Steps
    BY <2>2, Typing, CellTypes, StepTypes DEF Values
  <2>7. /\ todo' \in Seq(Steps) /\ DOMAIN todo' = 1..size[o]
        /\ \A i \in 1..size[o] : todo'[i].at = In(o, i) /\ todo'[i].op = "drop" /\ todo'[i].v = None
    <3>1. todo' \in Seq(Steps) /\ DOMAIN todo' = 1..size[o]
      BY SMTT(30), <2>1, <2>6
    <3>2. \A i \in 1..size[o] : todo'[i] = Drop(In(o, i))
      BY <2>1, <2>6
    <3>3. \A i : Drop(In(o, i)).at = In(o, i) /\ Drop(In(o, i)).op = "drop" /\ Drop(In(o, i)).v = None
      BY DEF Drop
    <3>4. QED
      BY <3>1, <3>2, <3>3
  <2> HIDE DEF gc, n
  <2>8. heap'.rc = heap.rc /\ heap'.cell = heap.cell /\ heap'.gc = gc /\ heap' \in Heaps
    BY <2>1, <2>2, <2>3 DEF Heaps
  <2>9. TypeOK'
    BY <1>1, <2>1, <2>2, <2>7, <2>8 DEF IInv, TypeOK, Heaps, Values
  <2>10. CountsAgree'
    <3>1. \A x \in Objects : Holders(heap', x) = Holders(heap, x)
      BY <2>8 DEF Holders
    <3>2. QED
      BY <2>8, <3>1 DEF IInv, CountsAgree
  <2>11. StoresFit' /\ StoresLive'
    <3>1. \A i \in DOMAIN todo' : todo'[i].op = "drop" /\ todo'[i].v = None
      BY <2>7
    <3>2. QED
      BY <3>1 DEF StoresFit, StoresLive
  <2>12. \A p : heap.cell[p] = None => Emptied(p)'
    BY <2>7, <2>8 DEF Emptied
  <2>13. Clear'
    <3>1. \A t \in Threads : \A i \in 1..StackSize[t] : i > depth'[t] => Emptied(Data(t, i))'
      BY <1>1, <2>12, AtExec DEF Emptied, Data
    <3>2. \A t \in Threads : \A i \in 1..LocalSize[t] : i > locals'[t] => Emptied(Local(t, i))'
      BY <1>1, <2>12, AtExec DEF Emptied, Local
    <3>3. \A t \in Threads : \A i \in 1..CallDepth[t] : i > Len(frames'[t]) => Emptied(Callee(t, i))'
      BY <1>1, <2>12, AtExec DEF Emptied, Callee
    <3>4. \A c \in Objects : \A i \in 1..Cells : i > size'[c] => Emptied(In(c, i))'
      BY <1>1, <2>12, AtExec DEF Emptied, In
    <3>5. QED
      BY <3>1, <3>2, <3>3, <3>4 DEF Clear, Data, Local, Callee, In
  <2>14. CellsLive'
    BY <1>2, <2>8 DEF IInv, CellsLive
  <2>15. GcSound'
    <3>1. \A i, j \in DOMAIN gc : gc[i] = gc[j] => i = j
      BY <2>3 DEF IInv, GcSound
    <3>2. \A i \in DOMAIN gc : gc[i] \in Allocated /\ heap.rc[gc[i]] = 0
      BY <2>3 DEF IInv, GcSound
    <3>3. QED
      BY <1>2, <2>1, <2>3, <2>5, <2>8, <3>1, <3>2 DEF GcSound
  <2>16. GcComplete'
    <3>1. ASSUME NEW x \in Allocated, heap.rc[x] = 0 PROVE x \in ElementsOf(gc) \/ x = o
      <4>1. x # dying /\ ~ \E i \in DOMAIN todo : todo[i].v = x
        BY <1>1, HeapAssumption DEF Allocated
      <4>2. PICK i \in DOMAIN heap.gc : heap.gc[i] = x
        BY <3>1, <4>1 DEF IInv, GcComplete, ElementsOf
      <4>3. CASE i = n
        BY <2>0, <4>2, <4>3 DEF n
      <4>4. CASE i # n
        <5>1. i \in 1..(n - 1)
          BY <4>4, <2>2 DEF n
        <5>2. QED
          BY <5>1, <4>2, <2>3 DEF ElementsOf
      <4>5. QED
        BY <4>3, <4>4
    <3>2. QED
      BY <1>2, <2>1, <2>8, <3>1 DEF GcComplete, ElementsOf
  <2>17. Finalizing'
    <3>1. \A i \in 1..Cells : Emptied(In(o, i))'
      <4>1. ASSUME NEW i \in 1..Cells PROVE Emptied(In(o, i))'
        <5>1. CASE i > size[o]
          BY <5>1, <1>1, <2>2, <2>12, AtExec DEF Emptied, In
        <5>2. CASE ~(i > size[o])
          <6>1. i \in 1..size[o]
            BY <5>2, <2>6
          <6>2. (\E j \in DOMAIN todo' : todo'[j].at = In(o, i)) /\ \A j \in DOMAIN todo' : todo'[j].op = "drop"
            BY <6>1, <2>7
          <6>3. QED
            BY <6>2, <2>1 DEF Emptied, In
        <5>3. QED
          BY <5>1, <5>2
      <4>2. QED
        BY <4>1 DEF Emptied, In
    <3>2. dying' \in Allocated' /\ heap'.rc[dying'] = 0
      BY <1>2, <2>1, <2>4, <2>8
    <3>3. \A i \in DOMAIN todo' : todo'[i].op = "drop"
      BY <2>7
    <3>4. phase' # "exec"
      BY <1>1, <2>1
    <3>5. (\A i \in 1..Cells : Emptied(In(dying, i)))'
      BY <3>1, <2>1 DEF Emptied, In
    <3>6. QED
      BY <3>2, <3>3, <3>4, <3>5 DEF Finalizing
  <2>18. Bounds'
    BY <1>1 DEF IInv, Bounds
  <2>19. QED
    BY <2>9, <2>10, <2>11, <2>13, <2>14, <2>15, <2>16, <2>17, <2>18 DEF IInv
<1>5. QED
  BY <1>3, <1>4

\* So does giving its memory back.
LEMMA FreeInv ==
    ASSUME IInv, Free
    PROVE  IInv'
<1>1. /\ todo = <<>> /\ todo' = todo /\ dying # None /\ dying' = None /\ phase' = "exec"
      /\ heap' = heap /\ depth' = depth /\ locals' = locals /\ frames' = frames /\ alive' = alive
      /\ kind' = [kind EXCEPT ![dying] = "free"] /\ size' = [size EXCEPT ![dying] = 0]
  BY DEF Free
<1>2. /\ dying \in Allocated /\ dying \in Objects /\ heap.rc[dying] = 0
      /\ \A i \in 1..Cells : heap.cell[In(dying, i)] = None
  BY <1>1 DEF IInv, Finalizing, Emptied, Allocated
<1>3. /\ kind \in [Objects -> Kinds \cup {"free"}] /\ size \in [Objects -> 0..Cells] /\ Cells \in Nat
  BY Typing DEF IInv, TypeOK
<1>4. /\ \A o \in Objects : kind'[o] = IF o = dying THEN "free" ELSE kind[o]
      /\ \A o \in Objects : size'[o] = IF o = dying THEN 0 ELSE size[o]
  BY <1>1, <1>3
<1>5. Allocated' = Allocated \ {dying}
  BY <1>4 DEF Allocated
<1>6. \A p \in Places : heap.cell[p] # dying
  BY <1>2, HeldCounted
<1>7. TypeOK'
  BY <1>1, <1>3, <1>2 DEF IInv, TypeOK, Values
<1>8. CountsAgree'
  BY <1>1 DEF IInv, CountsAgree, Holders
<1>9. StoresFit' /\ StoresLive'
  BY <1>1 DEF StoresFit, StoresLive
<1>10. Clear'
  <2>1. \A p : heap.cell[p] = None => Emptied(p)'
    BY <1>1 DEF Emptied
  <2>2. \A t \in Threads : \A i \in 1..StackSize[t] : i > depth'[t] => Emptied(Data(t, i))'
    BY <1>1, <2>1, AtExec DEF Emptied, Data
  <2>3. \A t \in Threads : \A i \in 1..LocalSize[t] : i > locals'[t] => Emptied(Local(t, i))'
    BY <1>1, <2>1, AtExec DEF Emptied, Local
  <2>4. \A t \in Threads : \A i \in 1..CallDepth[t] : i > Len(frames'[t]) => Emptied(Callee(t, i))'
    BY <1>1, <2>1, AtExec DEF Emptied, Callee
  <2>5. \A c \in Objects : \A i \in 1..Cells : i > size'[c] => heap.cell[In(c, i)] = None
    BY <1>1, <1>2, <1>4, AtExec
  <2>6. \A c \in Objects : \A i \in 1..Cells : i > size'[c] => Emptied(In(c, i))'
    BY <2>1, <2>5 DEF Emptied, In
  <2>7. QED
    BY <2>2, <2>3, <2>4, <2>6 DEF Clear, Data, Local, Callee, In
<1>11. CellsLive'
  BY <1>1, <1>5, <1>6 DEF IInv, CellsLive
<1>12. GcSound'
  <2>1. \A i, j \in DOMAIN heap.gc : heap.gc[i] = heap.gc[j] => i = j
    BY DEF IInv, GcSound
  <2>2. \A i \in DOMAIN heap.gc : heap.gc[i] \in Allocated /\ heap.rc[heap.gc[i]] = 0 /\ heap.gc[i] # dying
    BY DEF IInv, GcSound
  <2>3. None \notin Allocated
    BY HeapAssumption DEF Allocated
  <2>4. QED
    BY <1>1, <1>5, <2>1, <2>2, <2>3 DEF GcSound
<1>13. GcComplete'
  <2>1. \A o \in Allocated \ {dying} : heap.rc[o] = 0 => o \in ElementsOf(heap.gc)
    <3>1. ~ \E i \in DOMAIN todo : TRUE
      BY <1>1
    <3>2. QED
      BY <3>1 DEF IInv, GcComplete
  <2>2. QED
    BY <1>1, <1>5, <2>1 DEF GcComplete, ElementsOf
<1>14. Finalizing'
  BY <1>1 DEF Finalizing
<1>15. Bounds'
  <2>1. \A o \in Objects : kind'[o] = "free" => size'[o] = 0
    BY <1>4 DEF IInv, Bounds
  <2>2. \A o \in Objects : kind'[o] = "Fun" => size'[o] <= 1
    BY <1>4 DEF IInv, Bounds
  <2>3. \A t \in Threads : Len(frames'[t]) <= CallDepth[t]
    BY <1>1 DEF IInv, Bounds
  <2>4. QED
    BY <2>1, <2>2, <2>3 DEF Bounds
<1>16. QED
  BY <1>7, <1>8, <1>9, <1>10, <1>11, <1>12, <1>13, <1>14, <1>15 DEF IInv

--------------------------------------------------------------------------------
(* The theorems                                                             *)

\* Nothing is held at first.
LEMMA InitInv == Init => IInv
<1> SUFFICES ASSUME Init PROVE IInv
  OBVIOUS
<1>1. /\ heap = [rc |-> [o \in Objects |-> 0], gc |-> <<>>, cell |-> [p \in Places |-> None]]
      /\ kind = [o \in Objects |-> "free"] /\ size = [o \in Objects |-> 0]
      /\ depth = [t \in Threads |-> 0] /\ locals = [t \in Threads |-> 0]
      /\ frames = [t \in Threads |-> <<>>]
      /\ alive = {Main} /\ todo = <<>> /\ dying = None /\ phase = "exec"
  BY DEF Init
<1>2. None \in Values /\ Main \in Threads /\ Cells \in Nat
  BY HeapAssumption DEF Values
<1>3. \A t \in Threads : StackSize[t] \in Nat /\ LocalSize[t] \in Nat /\ CallDepth[t] \in Nat
  BY HeapAssumption
<1>4. TypeOK
  BY <1>1, <1>2, <1>3 DEF TypeOK
<1>5. CountsAgree
  <2>1. \A o \in Objects : Holders(heap, o) = {}
    BY <1>1, HeapAssumption DEF Holders
  <2>2. Cardinality({}) = 0
    BY FS_EmptySet
  <2>3. QED
    BY <1>1, <2>1, <2>2 DEF CountsAgree
<1>6. StoresFit /\ StoresLive
  BY <1>1 DEF StoresFit, StoresLive
<1>7. Clear
  <2>1. \A p \in Places : Emptied(p)
    BY <1>1 DEF Emptied
  <2>2. QED
    BY <2>1, PlaceTypes DEF Clear
<1>8. CellsLive /\ GcSound /\ GcComplete
  BY <1>1 DEF CellsLive, GcSound, GcComplete, Allocated, ElementsOf
<1>9. Finalizing /\ Bounds
  BY <1>1, <1>3 DEF Finalizing, Bounds
<1>10. QED
  BY <1>4, <1>5, <1>6, <1>7, <1>8, <1>9 DEF IInv

\* Every step keeps the invariant.
LEMMA NextInv == IInv /\ [Next]_vars => IInv'
<1> SUFFICES ASSUME IInv, [Next]_vars PROVE IInv'
  OBVIOUS
<1>1. ASSUME NEW t \in Threads, Opcode(t) PROVE IInv'
  <2>1. CASE Swap(t)
    BY <2>1, SwapInv
  <2>2. CASE ~Swap(t)
    BY <1>1, <2>2, OpcodeInv
  <2>3. QED
    BY <2>1, <2>2
<1>2. CASE Step
  BY <1>2, StepInv
<1>3. CASE Finalize
  BY <1>3, FinalizeInv
<1>4. CASE Free
  BY <1>4, FreeInv
<1>5. CASE UNCHANGED vars
  <2>1. /\ TypeOK' /\ CountsAgree' /\ StoresFit' /\ StoresLive'
    BY <1>5 DEF vars, IInv, TypeOK, CountsAgree, StoresFit, StoresLive, Holders, Allocated
  <2>2. Clear' /\ Finalizing' /\ Bounds'
    BY <1>5 DEF vars, IInv, Clear, Finalizing, Bounds, Emptied, Allocated, Data, Local, Callee, In
  <2>3. CellsLive' /\ GcSound' /\ GcComplete'
    BY <1>5 DEF vars, IInv, CellsLive, GcSound, GcComplete, Allocated, ElementsOf
  <2>4. QED
    BY <2>1, <2>2, <2>3 DEF IInv
<1>6. QED
  BY <1>1, <1>2, <1>3, <1>4, <1>5 DEF Next

\* The invariant holds of Init and is kept by every step.
THEOREM RefInvariance == Spec => []IInv
BY InitInv, NextInv, PTL DEF Spec

\* The variables keep their types.
THEOREM TypeCorrect == Spec => []TypeOK
<1>1. IInv => TypeOK
  BY DEF IInv
<1>2. QED
  BY <1>1, RefInvariance, PTL

\* Every count is the number of places that hold the object: object.h and the
\* opcodes take and drop one reference for each place they fill and empty.
THEOREM CountsRight == Spec => []CountsAgree
<1>1. IInv => CountsAgree
  BY DEF IInv
<1>2. QED
  BY <1>1, RefInvariance, PTL

\* When an opcode starts, vm->gc_pending holds the dead objects, each once.
THEOREM PendingRight == Spec => []PendingAgrees
<1>1. IInv => PendingAgrees
  <2> SUFFICES ASSUME IInv PROVE PendingAgrees
    OBVIOUS
  <2>1. \A i, j \in DOMAIN heap.gc : heap.gc[i] = heap.gc[j] => i = j
    BY DEF IInv, GcSound
  <2>2. \A o \in ElementsOf(heap.gc) : o \in Allocated /\ heap.rc[o] = 0
    BY DEF IInv, GcSound, ElementsOf
  <2>3. ASSUME phase = "exec", NEW o \in Allocated, heap.rc[o] = 0 PROVE o \in ElementsOf(heap.gc)
    <3>1. todo = <<>> /\ dying = None /\ o # None
      BY <2>3, HeapAssumption DEF IInv, Finalizing, Allocated
    <3>2. QED
      BY <2>3, <3>1 DEF IInv, GcComplete
  <2>4. QED
    BY <2>1, <2>2, <2>3 DEF PendingAgrees
<1>2. QED
  BY <1>1, RefInvariance, PTL

\* No place and no step under way holds an object that was given back.
THEOREM NothingDangles == Spec => []NoDangling
<1>1. IInv => NoDangling
  BY DEF IInv, NoDangling, CellsLive, StoresLive
<1>2. QED
  BY <1>1, RefInvariance, PTL

--------------------------------------------------------------------------------
(* The closures of calls under way.  A frame holds the function it runs; it *)
(* only borrows the array of closures, which the function holds as long as  *)
(* it lives.  call_vc takes its array from the data stack instead.          *)

IsArray(v) == v \in Objects /\ kind[v] = "Array"

\* What a function holds, or is about to hold, is an array.
FunsClosed ==
    \A f \in Objects : kind[f] = "Fun" =>
        /\ At(In(f, 1)) = None \/ IsArray(At(In(f, 1)))
        /\ \A i \in DOMAIN todo : todo[i].at = In(f, 1) => todo[i].v = None \/ IsArray(todo[i].v)

\* Place p holds f for good, or is about to.
Keeps(p, f) ==
    \/ At(p) = f /\ \A j \in DOMAIN todo : todo[j].at # p
    \/ \E j \in DOMAIN todo : /\ todo[j] = Store(p, f)
                              /\ \A k \in DOMAIN todo : todo[k].at = p => k = j

\* Place p holds a function whose closure is c.
HeldAt(p, c) ==
    \E f \in Objects : /\ kind[f] = "Fun" /\ At(In(f, 1)) = c
                       /\ \A j \in DOMAIN todo : todo[j].at # In(f, 1)
                       /\ Keeps(p, f)

\* A frame with a closure holds the function that has it.
FramesHeld ==
    \A t \in Threads : \A i \in DOMAIN frames[t] :
        frames[t][i] # None => HeldAt(Callee(t, i), frames[t][i])

CInv == IInv /\ FunsClosed /\ FramesHeld

\* Place p is none of a frame, nor of a function.
Aside(p) == p \notin CalleePlaces /\ \A f \in Objects : kind'[f] = "Fun" => p # In(f, 1)

\* Stacks, locals, registers and the data segment are aside, and so are the cells
\* of any object but a function.
LEMMA AsidePlaces ==
    ASSUME IInv, NEW t \in Threads, Opcode(t), ~Swap(t)
    PROVE  /\ \A u, i : Aside(Data(u, i)) /\ Aside(Local(u, i)) /\ Aside(Reg(u, i))
           /\ \A p \in MemPlaces : Aside(p)
           /\ \A i : \A o \in Objects : kind'[o] # "Fun" => Aside(In(o, i))
           /\ \A i, k : \A o \in Objects : IsA(o, k) /\ k # "Fun" /\ k # "free" => Aside(In(o, i))
<1>1. \A p \in CalleePlaces : \E u \in Threads : \E i \in 1..CallDepth[u] : p = Callee(u, i)
  BY DEF CalleePlaces
<1>2. \A u, i : Aside(Data(u, i)) /\ Aside(Local(u, i)) /\ Aside(Reg(u, i))
  BY <1>1, PlaceNames DEF Aside
<1>3. \A p \in MemPlaces : Aside(p)
  BY <1>1, PlaceNames DEF Aside
<1>4. \A i : \A o \in Objects : kind'[o] # "Fun" => Aside(In(o, i))
  BY <1>1, PlaceNames DEF Aside
<1>5. \A k : \A o \in Objects : IsA(o, k) /\ k # "free" => kind'[o] = k
  BY OpcodeGrows DEF IsA
<1>6. QED
  BY <1>2, <1>3, <1>4, <1>5

\* The closure of a call is an array, so that setClosure writes no function.
LEMMA ClosureIsArray ==
    ASSUME CInv, NEW t \in Threads
    PROVE  Closure(t) = None \/ IsArray(Closure(t))
<1> DEFINE with == {i \in DOMAIN frames[t] : frames[t][i] # None}
           last == {i \in with : \A j \in with : j <= i}
<1>1. CASE last = {}
  BY <1>1 DEF Closure
<1>2. CASE last # {}
  <2>1. PICK i \in last : Closure(t) = frames[t][i]
    BY <1>2 DEF Closure
  <2>2. HeldAt(Callee(t, i), frames[t][i])
    BY <2>1 DEF CInv, FramesHeld
  <2>3. PICK f \in Objects : kind[f] = "Fun" /\ At(In(f, 1)) = frames[t][i]
    BY <2>2 DEF HeldAt
  <2>4. QED
    BY <2>1, <2>3 DEF CInv, FunsClosed
<1>3. QED
  BY <1>1, <1>2

\* What setmem, regSet and setClosure write is aside.
LEMMA AssignableAside ==
    ASSUME CInv, NEW t \in Threads, NEW u \in Threads, Opcode(u), ~Swap(u), NEW p \in Assignable(t)
    PROVE  Aside(p)
<1>1. IInv
  BY DEF CInv
<1>2. Closure(t) # None => \A q \in CellsOf(Closure(t)) : Aside(q)
  <2>1. Closure(t) # None => Closure(t) \in Objects /\ IsA(Closure(t), "Array")
    BY ClosureIsArray, <1>1, Typing DEF IsArray, IsA
  <2>2. QED
    BY <1>1, <2>1, AsidePlaces DEF CellsOf
<1>3. QED
  BY <1>1, <1>2, AsidePlaces DEF Assignable

\* Most opcodes touch neither the frames nor what functions hold.
LEMMA OpcodeAside ==
    ASSUME CInv, NEW t \in Threads, Opcode(t), ~Swap(t), ~FirstClosure(t),
           ~Call(t), ~CallVC(t), ~CallLabel(t), ~Ret(t), ~RetVal(t), ~Throw(t)
    PROVE  frames' = frames /\ \A j \in DOMAIN todo' : Aside(todo'[j].at)
<1>0. IInv
  BY DEF CInv
<1> USE DEF Does, Drop, Store, Put, RefPut, SameFrames
<1>1. CASE Load(t)
  BY <1>0, <1>1, AsidePlaces DEF Load, Top
<1>2. CASE Pop(t)
  BY <1>0, <1>2, AsidePlaces DEF Pop, Top
<1>3. CASE Save(t)
  BY <1>0, <1>3, AsidePlaces, AssignableAside DEF Save, Top
<1>4. CASE EnvSave(t)
  BY <1>0, <1>4, AsidePlaces DEF EnvSave, Top
<1>5. CASE Enter(t)
  BY <1>0, <1>5, AsidePlaces DEF Enter, Top
<1>6. CASE Leave(t)
  BY <1>0, <1>6, AsidePlaces DEF Leave, Top
<1>7. CASE Create(t)
  BY <1>0, <1>7, AsidePlaces DEF Create, Top
<1>8. CASE CreateVObj(t)
  <2>1. PICK o \in Objects, m \in Objects : o # m /\ kind' = [kind EXCEPT ![o] = "VObj", ![m] = "Array"] /\ todo' = <<Store(In(o, 1), m), Store(Data(t, depth[t] + 1), o)>>
    BY <1>8 DEF CreateVObj
  <2>2. kind'[o] = "VObj"
    BY <1>0, <2>1 DEF IInv, TypeOK
  <2>3. Aside(In(o, 1)) /\ Aside(Data(t, depth[t] + 1))
    BY <1>0, <2>2, AsidePlaces
  <2>4. QED
    BY <1>8, <2>1, <2>3 DEF CreateVObj
<1>9. CASE Convert(t)
  BY <1>0, <1>9, AsidePlaces DEF Convert, Top
<1>10. CASE Combine(t)
  BY <1>0, <1>10, AsidePlaces DEF Combine, Top
<1>11. CASE Clone(t)
  BY <1>0, <1>11, AsidePlaces DEF Clone, Top
<1>12. CASE CloneVObj(t)
  <2>1. PICK c \in Objects : /\ kind' = [kind EXCEPT ![c] = "VObj"]
                            /\ todo' = <<Drop(Top(t, 0)), Store(In(c, 1), At(In(At(Top(t, 0)), 1))), Store(Top(t, 0), c)>>
    BY <1>12 DEF CloneVObj, New
  <2>2. kind'[c] = "VObj"
    BY <1>0, <2>1 DEF IInv, TypeOK
  <2>3. Aside(In(c, 1)) /\ Aside(Top(t, 0))
    BY <1>0, <2>2, AsidePlaces DEF Top
  <2>4. QED
    BY <1>12, <2>1, <2>3 DEF CloneVObj
<1>13. CASE Get(t)
  BY <1>0, <1>13, AsidePlaces DEF Get, Top
<1>14. CASE ArraySet(t)
  <2> DEFINE a == At(Top(t, 1))
  <2>1. PICK i \in 1..Cells : todo' = <<Drop(Top(t, 0)), Put(In(a, i), At(Top(t, 0)))>> /\ IsA(a, "Array")
    BY <1>14 DEF ArraySet
  <2>2. a \in Objects
    BY <1>14, <1>0, <2>1, TopTypes DEF ArraySet, IsA, Values
  <2> HIDE DEF a
  <2>3. Aside(In(a, i)) /\ Aside(Top(t, 0))
    BY <1>0, <2>1, <2>2, AsidePlaces DEF Top
  <2>4. QED
    BY <1>14, <2>1, <2>3 DEF ArraySet
<1>15. CASE MapSet(t)
  <2> DEFINE e == At(Top(t, 0))
  <2>1. PICK i \in 1..Cells : todo' = <<Drop(Top(t, 0)), Drop(Top(t, 1)), Store(In(e, i), At(Top(t, 1)))>> /\ IsA(e, "Env")
    BY <1>15 DEF MapSet
  <2>2. e \in Objects
    <3>1. depth[t] > 0
      BY <1>15, <1>0, Typing DEF MapSet
    <3>2. QED
      BY <1>0, <2>1, <3>1, TopTypes DEF IsA, Values
  <2> HIDE DEF e
  <2>3. Aside(In(e, i)) /\ Aside(Top(t, 0)) /\ Aside(Top(t, 1))
    BY <1>0, <2>1, <2>2, AsidePlaces DEF Top
  <2>4. QED
    BY <1>15, <2>1, <2>3 DEF MapSet
<1>16. CASE StackPush(t)
  <2> DEFINE s == At(Top(t, 1))
  <2>1. todo' = <<Drop(Top(t, 0)), Drop(Top(t, 1)), Store(In(s, size[s] + 1), At(Top(t, 0)))>> /\ IsA(s, "Stack")
    BY <1>16 DEF StackPush
  <2>2. s \in Objects
    BY <1>16, <1>0, <2>1, TopTypes DEF StackPush, IsA, Values
  <2> HIDE DEF s
  <2>3. Aside(In(s, size[s] + 1)) /\ Aside(Top(t, 0)) /\ Aside(Top(t, 1))
    BY <1>0, <2>1, <2>2, AsidePlaces DEF Top
  <2>4. QED
    BY <1>16, <2>1, <2>3 DEF StackPush
<1>17. CASE StackPop(t)
  <2> DEFINE s == At(Top(t, 0))
  <2>1. todo' = <<Drop(Top(t, 0)), Drop(In(s, size[s]))>> /\ IsA(s, "Stack")
    BY <1>17 DEF StackPop
  <2>2. s \in Objects
    BY <1>17, <1>0, <2>1, TopTypes DEF StackPop, IsA, Values
  <2> HIDE DEF s
  <2>3. Aside(In(s, size[s])) /\ Aside(Top(t, 0))
    BY <1>0, <2>1, <2>2, AsidePlaces DEF Top
  <2>4. QED
    BY <1>17, <2>1, <2>3 DEF StackPop
<1>18. CASE AddClosure(t)
  <2> DEFINE f == At(Top(t, 1))
             a == At(In(f, 1))
  <2>1. PICK c \in Values : todo' = <<Drop(Top(t, 0)), Store(In(a, size[a] + 1), c)>> /\ IsA(f, "Fun") /\ IsA(a, "Array")
    BY <1>18 DEF AddClosure
  <2>2. f \in Objects
    BY <1>18, <1>0, <2>1, TopTypes DEF AddClosure, IsA, Values
  <2> HIDE DEF f
  <2>3. a \in Objects
    BY <1>0, <2>1, <2>2, CellTypes DEF IsA, Values
  <2> HIDE DEF a
  <2>4. Aside(In(a, size[a] + 1)) /\ Aside(Top(t, 0))
    BY <1>0, <2>1, <2>3, AsidePlaces DEF Top
  <2>5. QED
    BY <1>18, <2>1, <2>4 DEF AddClosure
<1>19. CASE NewThread(t)
  BY <1>0, <1>19, AsidePlaces DEF NewThread, Top
<1>20. CASE Exit(t)
  <2> DEFINE a == [i \in 1..locals[t] |-> Drop(Local(t, i))]
             b == [i \in 1..depth[t] |-> Drop(Data(t, i))]
  <2>1. locals[t] \in Nat /\ depth[t] \in Nat
    BY <1>0, Typing
  <2>2. \A p \in {Local(t, i) : i \in 1..locals[t]} \cup {Data(t, i) : i \in 1..depth[t]} : Aside(p)
    BY <1>0, AsidePlaces
  <2>3. ASSUME NEW j \in DOMAIN (a \o b)
        PROVE  (a \o b)[j].at \in {Local(t, i) : i \in 1..locals[t]} \cup {Data(t, i) : i \in 1..depth[t]}
    <3>1. Len(a) = locals[t] /\ Len(b) = depth[t]
      BY <2>1
    <3>2. DOMAIN (a \o b) = 1..(locals[t] + depth[t])
      BY <2>1
    <3>3. CASE j <= locals[t]
      <4>1. j \in 1..locals[t] /\ (a \o b)[j] = a[j]
        BY <2>1, <3>1, <3>2, <3>3
      <4>2. a[j].at = Local(t, j)
        BY <4>1
      <4>3. QED
        BY <4>1, <4>2
    <3>4. CASE j > locals[t]
      <4>1. j - locals[t] \in 1..depth[t] /\ (a \o b)[j] = b[j - locals[t]]
        BY <2>1, <3>1, <3>2, <3>4
      <4>2. b[j - locals[t]].at = Data(t, j - locals[t])
        BY <4>1
      <4>3. QED
        BY <4>1, <4>2
    <3>5. QED
      BY <2>1, <3>2, <3>3, <3>4
  <2>4. todo' = a \o b /\ frames' = frames
    BY <1>20 DEF Exit
  <2> HIDE DEF a, b
  <2>5. QED
    BY <2>2, <2>3, <2>4
<1>21. QED
  BY <1>1, <1>2, <1>3, <1>4, <1>5, <1>6, <1>7, <1>8, <1>9, <1>10, <1>11, <1>12, <1>13, <1>14, <1>15, <1>16, <1>17, <1>18, <1>19, <1>20 DEF Opcode

\* What functions hold stays arrays if what an opcode stores there is.
LEMMA FunsStayClosed ==
    ASSUME CInv, NEW t \in Threads, Opcode(t), ~Swap(t),
           \A j \in DOMAIN todo' : \A f \in Objects : todo'[j].at = In(f, 1) /\ kind'[f] = "Fun" =>
              todo'[j].v = None \/ (todo'[j].v \in Objects /\ kind'[todo'[j].v] = "Array")
    PROVE  FunsClosed'
<1>0. IInv
  BY DEF CInv
<1>1. heap' = heap /\ todo = <<>>
  BY <1>0, OpcodeShape
<1>2. ASSUME NEW f \in Objects, kind'[f] = "Fun"
      PROVE  At(In(f, 1)) = None \/ (At(In(f, 1)) \in Objects /\ kind'[At(In(f, 1))] = "Array")
  <2>1. kind[f] # "free" => kind[f] = "Fun"
    BY <1>0, <1>2, OpcodeGrows
  <2>2. CASE kind[f] = "free"
    <3>1. size[f] = 0 /\ 1 \in 1..Cells
      BY <1>0, <2>2, Typing DEF IInv, Bounds
    <3>2. QED
      BY <1>0, <1>1, <3>1, AtExec DEF At
  <2>3. CASE kind[f] = "Fun"
    <3>1. At(In(f, 1)) = None \/ IsArray(At(In(f, 1)))
      BY <2>3 DEF CInv, FunsClosed
    <3>2. \A v \in Objects : kind[v] = "Array" => kind'[v] = "Array"
      BY <1>0, OpcodeGrows
    <3>3. QED
      BY <3>1, <3>2 DEF IsArray
  <2>4. QED
    BY <2>1, <2>2, <2>3
<1>3. QED
  BY <1>1, <1>2 DEF FunsClosed, IsArray, At

\* A frame keeps its function if an opcode leaves alone its place and the
\* functions that have a closure.
LEMMA FrameStaysHeld ==
    ASSUME CInv, NEW t \in Threads, Opcode(t), ~Swap(t), NEW p, NEW c, c # None, HeldAt(p, c),
           \A j \in DOMAIN todo' : todo'[j].at # p,
           \A j \in DOMAIN todo' : \A f \in Objects :
              todo'[j].at = In(f, 1) => kind[f] # "Fun" \/ At(In(f, 1)) = None
    PROVE  HeldAt(p, c)'
<1>0. IInv
  BY DEF CInv
<1>1. heap' = heap /\ todo = <<>>
  BY <1>0, OpcodeShape
<1>2. PICK f \in Objects : kind[f] = "Fun" /\ At(In(f, 1)) = c /\ Keeps(p, f)
  BY DEF HeldAt
<1>3. At(p) = f
  BY <1>1, <1>2 DEF Keeps
<1>4. kind'[f] = "Fun"
  BY <1>0, <1>2, OpcodeGrows
<1>5. \A j \in DOMAIN todo' : todo'[j].at # In(f, 1)
  BY <1>2
<1>6. QED
  BY <1>1, <1>2, <1>3, <1>4, <1>5 DEF HeldAt, Keeps, At

\* The opcodes that touch neither.
LEMMA AsideKeeps ==
    ASSUME CInv, NEW t \in Threads, Opcode(t), ~Swap(t), frames' = frames,
           \A j \in DOMAIN todo' : Aside(todo'[j].at)
    PROVE  FunsClosed' /\ FramesHeld'
<1>0. IInv
  BY DEF CInv
<1>1. FunsClosed'
  BY FunsStayClosed DEF Aside
<1>2. \A f \in Objects : kind[f] = "Fun" => kind'[f] = "Fun"
  BY <1>0, OpcodeGrows
<1>3. ASSUME NEW u \in Threads, NEW i \in DOMAIN frames[u], frames[u][i] # None
      PROVE  HeldAt(Callee(u, i), frames[u][i])'
  <2> DEFINE p == Callee(u, i)
  <2>1. PICK c : c = frames[u][i]
    OBVIOUS
  <2>2. c # None /\ HeldAt(p, c)
    BY <1>3, <2>1 DEF CInv, FramesHeld
  <2>3. \A j \in DOMAIN todo' : todo'[j].at # p
    <3>1. i \in 1..CallDepth[u]
      BY <1>0, Typing DEF IInv, TypeOK
    <3>2. p \in CalleePlaces
      BY <3>1 DEF CalleePlaces
    <3>3. QED
      BY <3>2 DEF Aside
  <2> HIDE DEF p
  <2>4. HeldAt(p, c)'
    BY <1>2, <2>2, <2>3, FrameStaysHeld DEF Aside
  <2>5. QED
    BY <2>1, <2>4 DEF p
<1>4. FramesHeld'
  BY <1>3 DEF FramesHeld
<1>5. QED
  BY <1>1, <1>4

\* dynFunAddClosure gives a function without a closure its array.
LEMMA FirstClosureKeeps ==
    ASSUME CInv, NEW t \in Threads, Opcode(t), FirstClosure(t), ~Swap(t)
    PROVE  FunsClosed' /\ FramesHeld'
<1>0. IInv
  BY DEF CInv
<1> DEFINE f == At(Top(t, 1))
<1>1. PICK a \in Objects, c \in Values :
        /\ kind[a] = "free" /\ a # c
        /\ \/ kind' = [kind EXCEPT ![c] = "Str", ![a] = "Array"]
           \/ kind' = [kind EXCEPT ![a] = "Array"]
        /\ todo' = <<Drop(Top(t, 0)), Store(In(f, 1), a), Store(In(a, 1), c)>>
  BY DEF FirstClosure, Does
<1>2. IsA(f, "Fun") /\ At(In(f, 1)) = None /\ frames' = frames
  BY DEF FirstClosure, SameFrames
<1> HIDE DEF f
<1>3. kind'[a] = "Array"
  BY <1>0, <1>1 DEF IInv, TypeOK
<1>4. /\ DOMAIN todo' = {1, 2, 3} /\ todo'[1].at = Data(t, depth[t] - 0)
      /\ todo'[2].at = In(f, 1) /\ todo'[2].v = a /\ todo'[3].at = In(a, 1)
  BY <1>1 DEF Drop, Store, Top
<1>5. FunsClosed'
  <2>1. ASSUME NEW j \in DOMAIN todo', NEW g \in Objects, todo'[j].at = In(g, 1), kind'[g] = "Fun"
        PROVE  todo'[j].v \in Objects /\ kind'[todo'[j].v] = "Array"
    <3>1. j = 2
      BY <1>3, <1>4, <2>1, PlaceNames
    <3>2. QED
      BY <1>3, <1>4, <3>1
  <2>2. QED
    BY <2>1, FunsStayClosed
<1>6. \A j \in DOMAIN todo' : \A g \in Objects :
        todo'[j].at = In(g, 1) => kind[g] # "Fun" \/ At(In(g, 1)) = None
  <2>1. ASSUME NEW j \in DOMAIN todo', NEW g \in Objects, todo'[j].at = In(g, 1)
        PROVE  g = f \/ g = a
    BY <1>4, <2>1, PlaceNames
  <2>2. QED
    BY <1>1, <1>2, <2>1
<1>7. \A j \in DOMAIN todo' : \A u, i : todo'[j].at # Callee(u, i)
  BY <1>4, PlaceNames
<1>8. ASSUME NEW u \in Threads, NEW i \in DOMAIN frames[u], frames[u][i] # None
      PROVE  HeldAt(Callee(u, i), frames[u][i])'
  <2>1. PICK p, x : p = Callee(u, i) /\ x = frames[u][i]
    OBVIOUS
  <2>2. x # None /\ HeldAt(p, x)
    BY <1>8, <2>1 DEF CInv, FramesHeld
  <2>3. \A j \in DOMAIN todo' : todo'[j].at # p
    BY <1>7, <2>1
  <2>4. HeldAt(p, x)'
    BY <1>6, <2>2, <2>3, FrameStaysHeld
  <2>5. QED
    BY <1>2, <2>1, <2>4
<1>9. FramesHeld'
  BY <1>2, <1>8 DEF FramesHeld
<1>10. QED
  BY <1>5, <1>9

\* vm_pop_caller lets go of the functions of the frames that go.
LEMMA LeavesKeeps ==
    ASSUME CInv, NEW t \in Threads, Opcode(t), ~Swap(t), NEW k \in 0..Len(frames[t]), Leaves(t, k),
           \A j \in DOMAIN todo' : \/ Aside(todo'[j].at)
                                   \/ \E n \in (k + 1)..Len(frames[t]) : todo'[j].at = Callee(t, n)
    PROVE  FunsClosed' /\ FramesHeld'
<1>0. IInv
  BY DEF CInv
<1>7. \A j \in DOMAIN todo' : Aside(todo'[j].at) \/ \A f : todo'[j].at # In(f, 1)
  <2>1. ASSUME NEW j \in DOMAIN todo', ~Aside(todo'[j].at) PROVE \A f : todo'[j].at # In(f, 1)
    <3>1. PICK n \in (k + 1)..Len(frames[t]) : todo'[j].at = Callee(t, n)
      BY <2>1
    <3>2. QED
      BY <3>1, PlaceNames
  <2>2. QED
    BY <2>1
<1>1. FunsClosed'
  <2>1. \A j \in DOMAIN todo' : \A f \in Objects : ~(todo'[j].at = In(f, 1) /\ kind'[f] = "Fun")
    BY <1>7 DEF Aside
  <2>2. QED
    BY <2>1, FunsStayClosed
<1>2. \A f \in Objects : kind[f] = "Fun" => kind'[f] = "Fun"
  BY <1>0, OpcodeGrows
<1>3. \A j \in DOMAIN todo' : \A f \in Objects : todo'[j].at = In(f, 1) => kind[f] # "Fun"
  BY <1>2, <1>7 DEF Aside
<1>4. ASSUME NEW u \in Threads, NEW i \in DOMAIN frames'[u], frames'[u][i] # None
      PROVE  HeldAt(Callee(u, i), frames[u][i])'
  <2>1. /\ frames[t] \in Seq(Values) /\ k \in Nat /\ k <= Len(frames[t]) /\ Len(frames[t]) \in Nat
        /\ frames \in [Threads -> Seq(Values)]
    BY <1>0, Typing DEF IInv, TypeOK
  <2>2. frames'[t] = SubSeq(frames[t], 1, k) /\ \A v \in Threads : v # t => frames'[v] = frames[v]
    BY <2>1 DEF Leaves
  <2>3. DOMAIN frames'[t] = 1..k /\ \A n \in 1..k : n \in DOMAIN frames[t] /\ frames'[t][n] = frames[t][n]
    BY <2>1, <2>2
  <2>4. i \in DOMAIN frames[u] /\ frames'[u][i] = frames[u][i] /\ (u = t => i \in 1..k)
    BY <2>2, <2>3
  <2>5. i \in 1..CallDepth[u]
    BY <1>0, <2>1, <2>4, Typing
  <2>6. PICK p, x : p = Callee(u, i) /\ x = frames[u][i]
    OBVIOUS
  <2>7. x # None /\ HeldAt(p, x)
    BY <1>4, <2>4, <2>6 DEF CInv, FramesHeld
  <2>8. ASSUME NEW j \in DOMAIN todo' PROVE todo'[j].at # p
    <3>1. CASE Aside(todo'[j].at)
      BY <2>5, <2>6, <3>1 DEF Aside, CalleePlaces
    <3>2. CASE \E n \in (k + 1)..Len(frames[t]) : todo'[j].at = Callee(t, n)
      <4>1. PICK n \in (k + 1)..Len(frames[t]) : todo'[j].at = Callee(t, n)
        BY <3>2
      <4>2. u = t => n # i
        BY <2>1, <2>4, <4>1
      <4>3. QED
        BY <2>6, <4>1, <4>2, PlaceNames
    <3>3. QED
      BY <3>1, <3>2
  <2>9. HeldAt(p, x)'
    BY <1>3, <2>7, <2>8, FrameStaysHeld
  <2>10. QED
    BY <2>4, <2>6, <2>9
<1>5. FramesHeld'
  BY <1>4 DEF FramesHeld
<1>6. QED
  BY <1>1, <1>5

\* What the opcodes that return let go.
LEMMA RetKeeps ==
    ASSUME CInv, NEW t \in Threads, Opcode(t), Ret(t), ~Swap(t)
    PROVE  FunsClosed' /\ FramesHeld'
<1>0. IInv
  BY DEF CInv
<1> DEFINE n == Len(frames[t])
<1>1. n \in Nat /\ n > 0
  BY <1>0, Typing, TopTypes DEF Ret
<1>2. Leaves(t, n - 1)
  BY DEF Ret
<1>3. \A j \in DOMAIN todo' : todo'[j].at = Data(t, depth[t] - 0) \/ todo'[j].at = Callee(t, n)
  BY DEF Ret, Does, Drop, Top
<1>4. n - 1 \in 0..n /\ n \in (n - 1 + 1)..n
  BY <1>1
<1>5. \A j \in DOMAIN todo' : \/ Aside(todo'[j].at)
                              \/ \E m \in (n - 1 + 1)..n : todo'[j].at = Callee(t, m)
  BY <1>0, <1>3, <1>4, AsidePlaces
<1>6. QED
  BY <1>2, <1>4, <1>5, LeavesKeeps

\* retval, likewise.
LEMMA RetValKeeps ==
    ASSUME CInv, NEW t \in Threads, Opcode(t), RetVal(t), ~Swap(t)
    PROVE  FunsClosed' /\ FramesHeld'
<1>0. IInv
  BY DEF CInv
<1> DEFINE n == Len(frames[t])
<1>1. n \in Nat /\ n > 0
  BY <1>0, Typing, TopTypes DEF RetVal
<1>2. Leaves(t, n - 1)
  BY DEF RetVal
<1>3. \A j \in DOMAIN todo' : \/ todo'[j].at = Data(t, depth[t] - 0)
                              \/ todo'[j].at = Data(t, depth[t] - 1)
                              \/ todo'[j].at = Callee(t, n)
  BY DEF RetVal, Does, Drop, Put, Top
<1>4. n - 1 \in 0..n /\ n \in (n - 1 + 1)..n
  BY <1>1
<1>5. \A j \in DOMAIN todo' : \/ Aside(todo'[j].at)
                              \/ \E m \in (n - 1 + 1)..n : todo'[j].at = Callee(t, m)
  BY <1>0, <1>3, <1>4, AsidePlaces
<1>6. QED
  BY <1>2, <1>4, <1>5, LeavesKeeps

\* An exception unwinds the frames above the catcher's only.
LEMMA ThrowKeeps ==
    ASSUME CInv, NEW t \in Threads, Opcode(t), Throw(t), ~Swap(t)
    PROVE  FunsClosed' /\ FramesHeld'
<1>0. IInv
  BY DEF CInv
<1> DEFINE n == Len(frames[t])
<1>1. PICK k \in 0..n :
        /\ Leaves(t, k)
        /\ todo' = <<Drop(Top(t, 0))>> \o [i \in 1..(n - k) |-> Drop(Callee(t, n + 1 - i))]
  BY DEF Throw, Does
<1>2. n \in Nat /\ k \in Nat /\ n - k \in Nat
  BY <1>0, <1>1, Typing
<1> DEFINE one == <<Drop(Top(t, 0))>>
           rest == [i \in 1..(n - k) |-> Drop(Callee(t, n + 1 - i))]
<1>3. DOMAIN (one \o rest) = 1..(1 + (n - k))
  BY <1>2
<1>4. ASSUME NEW j \in DOMAIN todo'
      PROVE  todo'[j].at = Data(t, depth[t] - 0) \/ \E m \in (k + 1)..n : todo'[j].at = Callee(t, m)
  <2>1. CASE j = 1
    <3>1. todo'[1] = Drop(Top(t, 0))
      BY <1>1, <1>2
    <3>2. QED
      BY <2>1, <3>1 DEF Drop, Top
  <2>2. CASE j # 1
    <3>1. j \in 2..(1 + (n - k))
      BY <1>1, <1>3, <2>2
    <3>2. j - 1 \in 1..(n - k) /\ n + 1 - (j - 1) \in (k + 1)..n
      BY <1>2, <3>1
    <3>3. (one \o rest)[j] = rest[j - 1]
      BY <1>2, <3>1, <3>2
    <3>4. rest[j - 1].at = Callee(t, n + 1 - (j - 1))
      BY <3>2 DEF Drop
    <3>5. todo'[j].at = Callee(t, n + 1 - (j - 1))
      BY <1>1, <3>3, <3>4
    <3>6. QED
      BY <3>2, <3>5
  <2>3. QED
    BY <2>1, <2>2
<1>5. \A j \in DOMAIN todo' : Aside(todo'[j].at) \/ \E m \in (k + 1)..n : todo'[j].at = Callee(t, m)
  BY <1>0, <1>4, AsidePlaces
<1>6. QED
  BY <1>1, <1>5, LeavesKeeps

\* vm_push_caller: the new frame holds the function whose closure it borrows.
LEMMA EntersKeeps ==
    ASSUME CInv, NEW t \in Threads, Opcode(t), ~Swap(t), NEW c \in Values, Enters(t, c),
           NEW p, p = Callee(t, Len(frames[t]) + 1),
           \A j \in DOMAIN todo' : (\E i : todo'[j].at = Data(t, i)) \/ todo'[j].at = p,
           c # None => HeldAt(p, c)'
    PROVE  FunsClosed' /\ FramesHeld'
<1>0. IInv
  BY DEF CInv
<1>1. \A j \in DOMAIN todo' : \A f : todo'[j].at # In(f, 1)
  BY PlaceNames
<1>2. FunsClosed'
  BY <1>1, FunsStayClosed
<1>3. ASSUME NEW u \in Threads, NEW i \in DOMAIN frames'[u], frames'[u][i] # None
      PROVE  HeldAt(Callee(u, i), frames[u][i])'
  <2> DEFINE n == Len(frames[t])
  <2>1. frames[t] \in Seq(Values) /\ n \in Nat /\ frames \in [Threads -> Seq(Values)]
    BY <1>0, Typing DEF IInv, TypeOK
  <2>2. frames'[t] = Append(frames[t], c) /\ \A v \in Threads : v # t => frames'[v] = frames[v]
    BY <2>1 DEF Enters
  <2>3. /\ DOMAIN frames'[t] = 1..(n + 1) /\ frames'[t][n + 1] = c
        /\ \A m \in 1..n : m \in DOMAIN frames[t] /\ frames'[t][m] = frames[t][m]
    BY <2>1, <2>2
  <2>4. CASE u = t /\ i = n + 1
    <3>1. frames'[u][i] = c /\ Callee(u, i) = Callee(t, n + 1) /\ c # None
      BY <1>3, <2>3, <2>4
    <3>2. HeldAt(p, c)' /\ p = Callee(u, i)
      BY <3>1
    <3>3. QED
      BY <3>1, <3>2
  <2>5. CASE ~(u = t /\ i = n + 1)
    <3>1. i \in DOMAIN frames[u] /\ frames'[u][i] = frames[u][i] /\ (u = t => i # n + 1)
      BY <2>1, <2>2, <2>3, <2>5
    <3>2. PICK q, x : q = Callee(u, i) /\ x = frames[u][i]
      OBVIOUS
    <3>3. x # None /\ HeldAt(q, x)
      BY <1>3, <3>1, <3>2 DEF CInv, FramesHeld
    <3>4. \A j \in DOMAIN todo' : todo'[j].at # q
      BY <3>1, <3>2, PlaceNames
    <3>5. HeldAt(q, x)'
      BY <1>1, <3>3, <3>4, FrameStaysHeld
    <3>6. QED
      BY <3>1, <3>2, <3>5
  <2>6. QED
    BY <2>4, <2>5
<1>4. FramesHeld'
  BY <1>3 DEF FramesHeld
<1>5. QED
  BY <1>2, <1>4

\* The calls of a program that does not use call_vc.
LEMMA CallKeeps ==
    ASSUME CInv, NEW t \in Threads, Opcode(t), Call(t), ~Swap(t)
    PROVE  FunsClosed' /\ FramesHeld'
<1>0. IInv
  BY DEF CInv
<1>8. PICK f : f = At(Top(t, 0))
  OBVIOUS
<1>1. PICK p : p = Callee(t, Len(frames[t]) + 1)
  OBVIOUS
<1>2. /\ IsA(f, "Fun") /\ Enters(t, At(In(f, 1)))
      /\ todo' = <<Drop(Top(t, 0)), Store(p, f)>>
  BY <1>1, <1>8 DEF Call, Does
<1>3. f \in Objects /\ kind[f] = "Fun"
  BY <1>0, <1>2, <1>8, TopTypes DEF Call, IsA, Values
<1>4. PICK c \in Values : c = At(In(f, 1))
  BY <1>0, <1>3, CellTypes
<1>5. /\ DOMAIN todo' = {1, 2} /\ todo'[1].at = Data(t, depth[t] - 0)
      /\ todo'[2] = Store(p, f) /\ todo'[2].at = p
  BY <1>2 DEF Drop, Store, Top
<1>6. HeldAt(p, c)'
  <2>1. heap' = heap /\ kind'[f] = "Fun"
    BY <1>0, <1>3, OpcodeShape, OpcodeGrows
  <2>2. \A j \in DOMAIN todo' : todo'[j].at # In(f, 1)
    BY SMTT(30), <1>1, <1>5, PlaceNames
  <2>3. todo'[1].at # p
    BY <1>1, <1>5, PlaceNames
  <2>4. Keeps(p, f)'
    BY <1>5, <2>3 DEF Keeps
  <2>5. At(In(f, 1))' = c
    BY <1>4, <2>1 DEF At
  <2>6. QED
    BY <1>3, <2>1, <2>2, <2>4, <2>5 DEF HeldAt
<1>7. QED
  BY <1>1, <1>2, <1>4, <1>5, <1>6, EntersKeeps

\* A call of a label borrows no closure.
LEMMA CallLabelKeeps ==
    ASSUME CInv, NEW t \in Threads, Opcode(t), CallLabel(t), ~Swap(t)
    PROVE  FunsClosed' /\ FramesHeld'
<1>1. PICK p : p = Callee(t, Len(frames[t]) + 1)
  OBVIOUS
<1>2. Enters(t, None) /\ DOMAIN todo' = {} /\ None \in Values
  BY DEF CallLabel, Does, Values
<1>3. QED
  BY <1>1, <1>2, EntersKeeps

\* No opcode takes from a frame the function it needs.
LEMMA OpcodeKeeps ==
    ASSUME CInv, ~VirtualClosures, NEW t \in Threads, Opcode(t), ~Swap(t)
    PROVE  FunsClosed' /\ FramesHeld'
<1>1. CASE FirstClosure(t)
  BY <1>1, FirstClosureKeeps
<1>2. CASE Call(t)
  BY <1>2, CallKeeps
<1>3. CASE CallLabel(t)
  BY <1>3, CallLabelKeeps
<1>4. CASE Ret(t)
  BY <1>4, RetKeeps
<1>5. CASE RetVal(t)
  BY <1>5, RetValKeeps
<1>6. CASE Throw(t)
  BY <1>6, ThrowKeeps
<1>7. ~CallVC(t)
  BY DEF CallVC
<1>8. QED
  BY <1>1, <1>2, <1>3, <1>4, <1>5, <1>6, <1>7, OpcodeAside, AsideKeeps

\* swap moves values of the data stack only.
LEMMA SwapKeeps ==
    ASSUME CInv, NEW t \in Threads, Swap(t)
    PROVE  FunsClosed' /\ FramesHeld'
<1>0. IInv
  BY DEF CInv
<1>1. /\ todo = <<>> /\ todo' = todo /\ kind' = kind /\ frames' = frames
      /\ \E i \in 1..(depth[t] - 1) :
            heap' = [heap EXCEPT !.cell[Top(t, 0)] = At(Data(t, i)),
                                 !.cell[Data(t, i)] = At(Top(t, 0))]
  BY DEF Swap, SameHeap, SameFrames
<1>2. \A p \in Places : (\A i : p # Data(t, i)) => At(p)' = At(p)
  BY <1>0, <1>1, Typing DEF At, Top, IInv, TypeOK
<1>3. \A f \in Objects : At(In(f, 1))' = At(In(f, 1))
  BY <1>0, <1>2, CellTypes, PlaceNames
<1>4. FunsClosed'
  BY <1>1, <1>3 DEF CInv, FunsClosed, IsArray
<1>5. ASSUME NEW u \in Threads, NEW i \in DOMAIN frames[u], frames[u][i] # None
      PROVE  HeldAt(Callee(u, i), frames[u][i])'
  <2>1. Callee(u, i) \in Places
    BY <1>0, Typing, TopTypes DEF IInv, TypeOK
  <2>2. PICK p, x : p = Callee(u, i) /\ x = frames[u][i]
    OBVIOUS
  <2>3. HeldAt(p, x) /\ At(p)' = At(p)
    BY <1>2, <1>5, <2>1, <2>2, PlaceNames DEF CInv, FramesHeld
  <2>4. HeldAt(p, x)'
    BY <1>1, <1>3, <2>3 DEF HeldAt, Keeps
  <2>5. QED
    BY <1>1, <2>2, <2>4
<1>6. QED
  BY <1>1, <1>4, <1>5 DEF FramesHeld

\* A step of an opcode writes one place.
LEMMA StepWrites ==
    ASSUME IInv, Step
    PROVE  heap'.cell = [heap.cell EXCEPT ![todo[1].at] = todo[1].v]
<1>1. heap \in Heaps /\ todo[1] \in Steps /\ 1 \in DOMAIN todo /\ heap' = Done(heap, todo[1])
  BY Rest DEF Step, IInv, TypeOK, Heaps
<1>2. Distinct(heap.gc) /\ \A x \in ElementsOf(heap.gc) : heap.rc[x] = 0
  BY DEF IInv, GcSound, Distinct, ElementsOf
<1>3. \A o \in Objects : heap.rc[o] = Cardinality(Holders(heap, o))
  BY DEF IInv, CountsAgree
<1>4. /\ todo[1].op = "store" => heap.cell[todo[1].at] = None
      /\ todo[1].op = "drop" => todo[1].v = None
  BY <1>1 DEF IInv, StoresFit, StoresLive
<1>5. Done(heap, todo[1]).cell = [heap.cell EXCEPT ![todo[1].at] = todo[1].v]
  BY <1>1, <1>2, <1>3, <1>4, DoneEffect
<1>6. QED
  BY <1>1, <1>5

\* A step of an opcode fills and empties no place a frame relies on.
LEMMA StepKeeps ==
    ASSUME CInv, Step
    PROVE  FunsClosed' /\ FramesHeld'
<1>0. IInv
  BY DEF CInv
<1> DEFINE s == todo[1]
<1>1. /\ 1 \in DOMAIN todo /\ s \in Steps /\ kind' = kind /\ frames' = frames
      /\ \A i \in DOMAIN todo' : i + 1 \in DOMAIN todo /\ todo'[i] = todo[i + 1] /\ i + 1 # 1
      /\ \A i \in DOMAIN todo : i # 1 => i - 1 \in DOMAIN todo' /\ todo'[i - 1] = todo[i]
  <2>1. todo \in Seq(Steps) /\ todo' \in Seq(Steps)
    BY <1>0, Rest DEF IInv, TypeOK
  <2>2. \A i \in DOMAIN todo' : i + 1 # 1
    BY <2>1
  <2>3. QED
    BY <1>0, <2>2, Rest DEF Step
<1>2. \A p \in Places : At(p)' = IF p = s.at THEN s.v ELSE At(p)
  BY <1>0, StepWrites, Typing DEF At
<1>3. FunsClosed'
  <2>1. ASSUME NEW f \in Objects, kind[f] = "Fun"
        PROVE  /\ At(In(f, 1))' = None \/ IsArray(At(In(f, 1))')
               /\ \A i \in DOMAIN todo' : todo'[i].at = In(f, 1) => todo'[i].v = None \/ IsArray(todo'[i].v)
    <3>1. /\ At(In(f, 1)) = None \/ IsArray(At(In(f, 1)))
          /\ \A i \in DOMAIN todo : todo[i].at = In(f, 1) => todo[i].v = None \/ IsArray(todo[i].v)
      BY <2>1 DEF CInv, FunsClosed
    <3>2. (At(In(f, 1))' = s.v /\ s.at = In(f, 1)) \/ At(In(f, 1))' = At(In(f, 1))
      BY <1>0, <1>2, CellTypes
    <3>3. At(In(f, 1))' = None \/ IsArray(At(In(f, 1))')
      BY <1>1, <3>1, <3>2
    <3>4. QED
      BY <1>1, <3>1, <3>3
  <2>2. QED
    BY <1>1, <2>1 DEF FunsClosed, IsArray
<1>4. ASSUME NEW u \in Threads, NEW i \in DOMAIN frames[u], frames[u][i] # None
      PROVE  HeldAt(Callee(u, i), frames[u][i])'
  <2>1. Callee(u, i) \in Places
    BY <1>0, Typing, TopTypes DEF IInv, TypeOK
  <2>2. PICK p, x : p = Callee(u, i) /\ x = frames[u][i]
    OBVIOUS
  <2>3. HeldAt(p, x) /\ p \in Places
    BY <1>4, <2>1, <2>2 DEF CInv, FramesHeld
  <2>4. PICK f \in Objects : /\ kind[f] = "Fun" /\ At(In(f, 1)) = x
                             /\ \A j \in DOMAIN todo : todo[j].at # In(f, 1)
                             /\ Keeps(p, f)
    BY <2>3 DEF HeldAt
  <2>5. At(In(f, 1))' = x /\ \A j \in DOMAIN todo' : todo'[j].at # In(f, 1)
    BY <1>0, <1>1, <1>2, <2>4, CellTypes
  <2>6. Keeps(p, f)'
    <3>1. CASE At(p) = f /\ \A j \in DOMAIN todo : todo[j].at # p
      <4>1. At(p)' = f /\ \A j \in DOMAIN todo' : todo'[j].at # p
        BY <1>1, <1>2, <2>3, <3>1
      <4>2. QED
        BY <4>1 DEF Keeps
    <3>2. ASSUME NEW j \in DOMAIN todo, todo[j] = Store(p, f),
                 \A k \in DOMAIN todo : todo[k].at = p => k = j
          PROVE  Keeps(p, f)'
      <4>1. todo[j].at = p /\ todo[j].v = f
        BY <3>2 DEF Store
      <4>2. CASE j = 1
        <5>1. At(p)' = f
          BY <1>2, <2>3, <4>1, <4>2
        <5>2. \A k \in DOMAIN todo' : todo'[k].at # p
          BY <1>1, <3>2, <4>2
        <5>3. QED
          BY <5>1, <5>2 DEF Keeps
      <4>3. CASE j # 1
        <5>1. j - 1 \in DOMAIN todo' /\ todo'[j - 1] = Store(p, f)
          BY <1>1, <3>2, <4>3
        <5>2. ASSUME NEW k \in DOMAIN todo', todo'[k].at = p PROVE k = j - 1
          <6>1. k + 1 = j
            BY <1>1, <3>2, <5>2
          <6>2. k \in Nat
            BY <1>0, Rest
          <6>3. QED
            BY <6>1, <6>2
        <5>3. QED
          BY <5>1, <5>2 DEF Keeps
      <4>4. QED
        BY <4>2, <4>3
    <3>3. QED
      BY <2>4, <3>1, <3>2 DEF Keeps
  <2>7. HeldAt(p, x)'
    BY <1>1, <2>4, <2>5, <2>6 DEF HeldAt
  <2>8. QED
    BY <1>1, <2>2, <2>7
<1>5. QED
  BY <1>1, <1>3, <1>4 DEF FramesHeld

\* What a place holds is not about to be finalized.
LEMMA HeldNotPending ==
    ASSUME IInv, NEW p \in Places, NEW o \in Objects, At(p) = o
    PROVE  o # dying /\ \A i \in DOMAIN heap.gc : heap.gc[i] # o
<1>1. heap.rc[o] # 0
  BY HeldCounted DEF At
<1>2. QED
  BY <1>1, Typing DEF IInv, GcSound, Finalizing

\* The finalized object is no function a frame holds.
LEMMA FinalizeKeeps ==
    ASSUME CInv, Finalize
    PROVE  FunsClosed' /\ FramesHeld'
<1>0. IInv
  BY DEF CInv
<1>1. /\ todo = <<>> /\ kind' = kind /\ frames' = frames
      /\ heap'.cell = heap.cell
      /\ \/ todo' = <<>>
         \/ \E i \in DOMAIN heap.gc : todo' = [j \in 1..size[heap.gc[i]] |-> Drop(In(heap.gc[i], j))]
  <2>1. heap \in Heaps
    BY <1>0 DEF IInv, TypeOK, Heaps
  <2>2. CASE heap.gc = <<>>
    BY <2>2 DEF Finalize
  <2>3. CASE heap.gc # <<>>
    <3>1. Len(heap.gc) \in DOMAIN heap.gc
      BY <2>1, <2>3 DEF Heaps
    <3>2. [heap EXCEPT !.gc = SubSeq(@, 1, Len(@) - 1)].cell = heap.cell
      BY <2>1 DEF Heaps
    <3>3. QED
      BY <2>3, <3>1, <3>2 DEF Finalize
  <2>4. QED
    BY <2>2, <2>3
<1>2. \A j \in DOMAIN todo' : todo'[j].v = None
                              /\ \E i \in DOMAIN heap.gc, k \in Nat : todo'[j].at = In(heap.gc[i], k)
  <2>1. CASE todo' = <<>>
    BY <2>1
  <2>2. CASE \E i \in DOMAIN heap.gc : todo' = [j \in 1..size[heap.gc[i]] |-> Drop(In(heap.gc[i], j))]
    <3>1. PICK i \in DOMAIN heap.gc : todo' = [j \in 1..size[heap.gc[i]] |-> Drop(In(heap.gc[i], j))]
      BY <2>2
    <3>2. \A j \in DOMAIN todo' : j \in Nat /\ todo'[j].v = None /\ todo'[j].at = In(heap.gc[i], j)
      BY <3>1 DEF Drop
    <3>3. QED
      BY <3>2
  <2>3. QED
    BY <1>1, <2>1, <2>2
<1>3. FunsClosed'
  BY <1>1, <1>2 DEF CInv, FunsClosed, IsArray, At
<1>4. ASSUME NEW u \in Threads, NEW i \in DOMAIN frames[u], frames[u][i] # None
      PROVE  HeldAt(Callee(u, i), frames[u][i])'
  <2>1. Callee(u, i) \in Places
    BY <1>0, Typing, TopTypes DEF IInv, TypeOK
  <2>2. PICK p, x : p = Callee(u, i) /\ x = frames[u][i]
    OBVIOUS
  <2>3. PICK f \in Objects : kind[f] = "Fun" /\ At(In(f, 1)) = x /\ At(p) = f
    BY <1>1, <1>4, <2>2 DEF CInv, FramesHeld, HeldAt, Keeps
  <2>4. \A k \in DOMAIN heap.gc : heap.gc[k] # f
    BY <1>0, <2>1, <2>2, <2>3, HeldNotPending
  <2>5. \A j \in DOMAIN todo' : todo'[j].at # In(f, 1) /\ todo'[j].at # p
    BY <1>2, <2>2, <2>4, PlaceNames
  <2>6. HeldAt(p, x)'
    BY <1>1, <2>3, <2>5 DEF HeldAt, Keeps, At
  <2>7. QED
    BY <1>1, <2>2, <2>6
<1>5. QED
  BY <1>1, <1>3, <1>4 DEF FramesHeld

\* Nor is the object whose memory is given back.
LEMMA FreeKeeps ==
    ASSUME CInv, Free
    PROVE  FunsClosed' /\ FramesHeld'
<1>0. IInv
  BY DEF CInv
<1>1. /\ todo = <<>> /\ todo' = todo /\ heap' = heap /\ frames' = frames
      /\ kind' = [kind EXCEPT ![dying] = "free"]
  BY DEF Free
<1>2. \A o \in Objects : (kind'[o] # "free" => kind'[o] = kind[o]) /\ (o # dying => kind'[o] = kind[o])
  BY <1>0, <1>1 DEF IInv, TypeOK
<1>3. \A f \in Objects : At(In(f, 1)) \in Objects => At(In(f, 1)) # dying
  BY <1>0, CellTypes, HeldNotPending
<1>4. FunsClosed'
  <2>1. ASSUME NEW f \in Objects, kind'[f] = "Fun"
        PROVE  At(In(f, 1)) = None \/ (At(In(f, 1)) \in Objects /\ kind'[At(In(f, 1))] = "Array")
    <3>1. At(In(f, 1)) = None \/ IsArray(At(In(f, 1)))
      BY <1>2, <2>1 DEF CInv, FunsClosed
    <3>2. QED
      BY <1>2, <1>3, <3>1 DEF IsArray
  <2>2. QED
    BY <1>1, <2>1 DEF FunsClosed, IsArray, At
<1>5. ASSUME NEW u \in Threads, NEW i \in DOMAIN frames[u], frames[u][i] # None
      PROVE  HeldAt(Callee(u, i), frames[u][i])'
  <2>1. Callee(u, i) \in Places
    BY <1>0, Typing, TopTypes DEF IInv, TypeOK
  <2>2. PICK p, x : p = Callee(u, i) /\ x = frames[u][i]
    OBVIOUS
  <2>3. PICK f \in Objects : kind[f] = "Fun" /\ At(In(f, 1)) = x /\ At(p) = f
    BY <1>1, <1>5, <2>2 DEF CInv, FramesHeld, HeldAt, Keeps
  <2>4. f # dying
    BY <1>0, <2>1, <2>2, <2>3, HeldNotPending
  <2>5. HeldAt(p, x)'
    BY <1>1, <1>2, <2>3, <2>4 DEF HeldAt, Keeps, At
  <2>6. QED
    BY <1>1, <2>2, <2>5
<1>6. QED
  BY <1>1, <1>4, <1>5 DEF FramesHeld

\* As long as no program uses call_vc, each frame with a closure holds the
\* function the closure belongs to.
THEOREM FramesHoldFunctions ==
    ASSUME ~VirtualClosures
    PROVE  Spec => []CInv
<1>1. Init => CInv
  <2> SUFFICES ASSUME Init PROVE FunsClosed /\ FramesHeld
    BY InitInv DEF CInv
  <2>1. kind = [o \in Objects |-> "free"] /\ frames = [t \in Threads |-> <<>>]
    BY DEF Init
  <2>2. QED
    BY <2>1 DEF FunsClosed, FramesHeld
<1>2. CInv /\ [Next]_vars => CInv'
  <2> SUFFICES ASSUME CInv, [Next]_vars PROVE FunsClosed' /\ FramesHeld'
    BY NextInv DEF CInv
  <2>2. ASSUME NEW t \in Threads, Opcode(t) PROVE FunsClosed' /\ FramesHeld'
    BY <2>2, SwapKeeps, OpcodeKeeps
  <2>3. CASE Step
    BY <2>3, StepKeeps
  <2>4. CASE Finalize
    BY <2>4, FinalizeKeeps
  <2>5. CASE Free
    BY <2>5, FreeKeeps
  <2>6. CASE UNCHANGED vars
    <3>1. UNCHANGED <<heap, kind, frames, todo>>
      BY <2>6 DEF vars
    <3>2. FunsClosed'
      BY <3>1 DEF CInv, FunsClosed, IsArray, At
    <3>3. \A p, c : HeldAt(p, c) => HeldAt(p, c)'
      BY <3>1 DEF HeldAt, Keeps, At
    <3>4. FramesHeld'
      BY <3>1, <3>3 DEF CInv, FramesHeld
    <3>5. QED
      BY <3>2, <3>4
  <2>7. QED
    BY <2>2, <2>3, <2>4, <2>5, <2>6 DEF Next
<1>3. QED
  BY <1>1, <1>2, PTL DEF Spec

\* The array of closures that a frame borrows is alive and not being finalized
\* until the call is over (vm_push_caller, bml_vm.c).
THEOREM ClosuresOutliveCalls ==
    ASSUME ~VirtualClosures
    PROVE  Spec => []ClosuresLive
<1>1. CInv => ClosuresLive
  <2> SUFFICES ASSUME CInv, NEW t \in alive, NEW i \in DOMAIN frames[t], frames[t][i] # None
               PROVE  frames[t][i] \in Allocated /\ frames[t][i] # dying
    BY DEF ClosuresLive
  <2>1. t \in Threads /\ frames[t][i] \in Objects
    BY Typing DEF CInv, IInv, TypeOK, Values
  <2>2. PICK f \in Objects : At(In(f, 1)) = frames[t][i]
    BY <2>1 DEF CInv, FramesHeld, HeldAt
  <2>3. In(f, 1) \in Places
    BY CellTypes DEF CInv
  <2>4. frames[t][i] # dying
    BY <2>1, <2>2, <2>3, HeldNotPending DEF CInv
  <2>5. frames[t][i] \in Allocated
    BY <2>1, <2>2, <2>3, Typing DEF CInv, IInv, CellsLive, At
  <2>6. QED
    BY <2>4, <2>5
<1>2. QED
  BY <1>1, FramesHoldFunctions, PTL

================================================================================
