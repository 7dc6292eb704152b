---------------------------- MODULE CompilerProofs ----------------------------
(***************************************************************************)
(* RunOnce, for any files, images and bounds.                              *)
(*                                                                         *)
(* A file is remembered as required when its program has run, a library as *)
(* loaded when it is compiled, so a file that requires itself on the way   *)
(* is compiled again while it is under way.  It runs once all the same,    *)
(* for the inner compilation never gets to its end: it has to walk past    *)
(* the very node that the outer one waits at.  The inductive invariant     *)
(* says what the nodes that were walked have left behind (Answered), and   *)
(* that the last one of every call but the newest is what the call above   *)
(* it is for (Linked).                                                     *)
(***************************************************************************)
EXTENDS Compiler, WellFoundedInduction, TLAPS

IsSeq(s) == s \in Seq({s[i] : i \in DOMAIN s})

\* What a call asks for with its node or entry j.
LibEntry(f, j) == [k |-> "loadlib", n |-> disk[f.name].libs[j]]
ReqEntry(f, j) == [k |-> "require", n |-> disk[f.name].reqs[j]]
Asked(f) ==
  IF f.what = "image"
  THEN {LibEntry(f, j) : j \in 1 .. f.lib - 1} \cup {ReqEntry(f, j) : j \in 1 .. f.req - 1}
  ELSE {src[f.name][j] : j \in 1 .. f.at - 1}
LastAsked(f) ==
  IF f.what = "image"
  THEN IF f.req = 1 THEN LibEntry(f, f.lib - 1) ELSE ReqEntry(f, f.req - 1)
  ELSE src[f.name][f.at - 1]

\* What a node asked for is there: the program has run or was not found, the
\* library is loaded or not there, the included file was walked (W: such files).
Answer(x, W) ==
  /\ x.k = "require" => x.n \in required \/ ~ (IsSource(x.n) \/ IsImage(x.n))
  /\ x.k = "loadlib" => x.n \in loadlibs \/ x.n \notin Libs
  /\ x.k = "include" => x.n \in W \/ ~ IsSource(x.n)
Settled(W) == \A f \in W : \A j \in DOMAIN src[f] : Answer(src[f][j], W)

\* Call f is what node x asks for.
For(x, f) ==
  /\ x.n = f.name
  /\ IF f.what = "include" THEN x.k = "include" ELSE x.k = f.why /\ f.why \in {"require", "loadlib"}

CallOK(f) ==
  /\ {"what", "name"} \subseteq DOMAIN f
  /\ f.what \in {"file", "include", "image"}
  /\ f.what # "image" =>
       /\ "at" \in DOMAIN f /\ f.at \in Nat \ {0}
       /\ \A j \in 1 .. f.at - 1 : j \in DOMAIN src[f.name]
  /\ f.what = "image" =>
       /\ {"lib", "req"} \subseteq DOMAIN f /\ f.lib \in Nat \ {0} /\ f.req \in Nat \ {0}
       /\ \A j \in 1 .. f.lib - 1 : j \in DOMAIN disk[f.name].libs
       /\ \A j \in 1 .. f.req - 1 : j \in DOMAIN disk[f.name].reqs
       /\ f.req # 1 => f.lib \notin DOMAIN disk[f.name].libs
       /\ IsImage(f.name) /\ f.why \in {"top", "require"}
  /\ f.what # "include" => "why" \in DOMAIN f
  /\ f.what = "file" /\ f.why = "loadlib" => f.name \in Libs
  /\ f.what = "include" \/ (f.what = "file" /\ f.why = "require") => IsSource(f.name)

\* What a call is for has not been done yet.
Pending(f) ==
  f.what # "include" =>
    /\ f.why = "require" => f.name \notin required
    /\ f.why = "loadlib" => f.name \notin loadlibs

Calls == IsSeq(calls) /\ \A i \in DOMAIN calls : CallOK(calls[i]) /\ Pending(calls[i])

Linked == \A i \in DOMAIN calls : i # Len(calls) =>
  /\ LastAsked(calls[i]) \in Asked(calls[i])
  /\ For(LastAsked(calls[i]), calls[i + 1])

AnsweredIn(W) ==
  /\ Settled(W)
  /\ \A i \in DOMAIN calls : \A x \in Asked(calls[i]) :
       Answer(x, W) \/ (i # Len(calls) /\ x = LastAsked(calls[i]))
Answered == \E W \in SUBSET DOMAIN src : AnsweredIn(W)

Remembered ==
  /\ src \in Sources /\ DOMAIN disk \subseteq Saved
  /\ loadlibs \subseteq Libs /\ required \cap Libs = {}
  /\ IsSeq(ran) /\ {ran[i] : i \in DOMAIN ran} = required \cup loadlibs

Inv == Calls /\ Linked /\ Answered /\ Remembered /\ RunOnce

-----------------------------------------------------------------------------
(* Sequences. *)

LEMMA SeqDomain ==
  ASSUME NEW s, IsSeq(s)
  PROVE  Len(s) \in Nat /\ DOMAIN s = 1 .. Len(s)
BY DEF IsSeq

LEMMA SeqEmpty == IsSeq(<<>>) /\ DOMAIN <<>> = {} /\ Len(<<>>) = 0
BY DEF IsSeq

LEMMA SeqAppend ==
  ASSUME NEW s, IsSeq(s), NEW x
  PROVE  /\ IsSeq(Append(s, x))
         /\ Len(Append(s, x)) = Len(s) + 1
         /\ \A i \in DOMAIN s : Append(s, x)[i] = s[i]
         /\ Append(s, x)[Len(s) + 1] = x
<1> DEFINE S == {s[i] : i \in DOMAIN s} \cup {x}
           r == Append(s, x)
<1>1. s \in Seq(S)
  BY DEF IsSeq
<1>2. /\ Len(r) = Len(s) + 1 /\ r \in Seq(S)
      /\ \A i \in DOMAIN s : r[i] = s[i]
      /\ r[Len(s) + 1] = x
  BY <1>1
<1>3. r \in Seq({r[i] : i \in DOMAIN r})
  BY <1>2
<1>4. QED
  BY <1>2, <1>3 DEF IsSeq

\* A function on 1 .. n is a sequence.
LEMMA SeqFunction ==
  ASSUME NEW n \in Nat, NEW f, f = [i \in 1 .. n |-> f[i]]
  PROVE  IsSeq(f) /\ DOMAIN f = 1 .. n /\ Len(f) = n
<1> DEFINE R == {f[i] : i \in DOMAIN f}
<1>1. DOMAIN f = 1 .. n /\ \A i \in 1 .. n : f[i] \in R
  OBVIOUS
<1>2. f \in [1 .. n -> R]
  BY <1>1, Zenon
<1>3. f \in Seq(R) /\ Len(f) = n
  <2> HIDE DEF R
  <2> QED BY <1>2
<1>4. QED
  BY <1>1, <1>3 DEF IsSeq

LEMMA SeqFront ==
  ASSUME NEW s, IsSeq(s), s # <<>>
  PROVE  /\ IsSeq(Front(s))
         /\ Len(s) \in Nat \ {0}
         /\ Len(Front(s)) = Len(s) - 1
         /\ \A i \in DOMAIN Front(s) : i \in DOMAIN s /\ i # Len(s) /\ Front(s)[i] = s[i]
<1> DEFINE r == Front(s)
<1>1. s \in Seq({s[i] : i \in DOMAIN s})
  BY DEF IsSeq
<1>2. Len(s) \in Nat \ {0}
  BY <1>1
<1> DEFINE n == Len(s) - 1
<1>6. n \in Nat /\ r = SubSeq(s, 1, n) /\ 1 .. n \subseteq 1 .. Len(s)
  BY <1>2 DEF Front
<1>7. r = [i \in 1 .. n |-> s[i]]
  BY <1>1, <1>6
<1>8. \A i \in 1 .. n : i \in DOMAIN s /\ i # Len(s)
  BY <1>1, <1>6
<1>3. r = [i \in 1 .. n |-> r[i]]
  <2> HIDE DEF r
  <2> QED BY <1>7
<1>4. IsSeq(r) /\ DOMAIN r = 1 .. n /\ Len(r) = n
  <2> HIDE DEF r
  <2> QED BY <1>3, <1>6, SeqFunction
<1>5. \A i \in DOMAIN r : r[i] = s[i]
  BY <1>4, <1>7
<1>9. QED
  BY <1>2, <1>4, <1>5, <1>8

\* One field of the last record of a sequence counts one up.
LEMMA SeqUpdate ==
  ASSUME NEW s, IsSeq(s), s # <<>>, NEW x
  PROVE  LET r == [s EXCEPT ![Len(s)] = x]
         IN  /\ IsSeq(r) /\ Len(r) = Len(s) /\ r # <<>>
             /\ \A i \in DOMAIN s : i # Len(s) => r[i] = s[i]
             /\ r[Len(s)] = x
<1> DEFINE S == {s[i] : i \in DOMAIN s} \cup {x}
           r == [s EXCEPT ![Len(s)] = x]
<1>1. s \in Seq(S)
  BY DEF IsSeq
<1>2. Len(s) \in Nat \ {0} /\ Len(s) \in DOMAIN s
  BY <1>1
<1>3. /\ Len(r) = Len(s) /\ r \in Seq(S) /\ r # <<>>
      /\ \A i \in DOMAIN s : i # Len(s) => r[i] = s[i]
      /\ r[Len(s)] = x
  BY <1>1, <1>2
<1>4. r = [i \in 1 .. Len(s) |-> r[i]]
  BY <1>1
<1>5. IsSeq(r)
  <2> HIDE DEF r
  <2> QED BY <1>2, <1>4, SeqFunction
<1>6. QED
  BY <1>3, <1>5

\* A set of numbers has a least one.
LEMMA Least ==
  ASSUME NEW T, T \subseteq Nat, T # {}
  PROVE  \E x \in T : \A y \in T : x <= y
<1>1. PICK x \in T : \A y \in T : <<y, x>> \notin OpToRel(<, Nat)
  BY NatLessThanWellFounded, WFMin
<1>2. ASSUME NEW y \in T PROVE ~ (y < x)
  BY <1>1, <1>2 DEF OpToRel
<1>3. QED
  BY <1>2

-----------------------------------------------------------------------------
(* The newest call goes on to its next node or entry. *)

Same == UNCHANGED <<src, disk, required, loadlibs, ran>>

\* In s, the newest call has gone on to node x.
Onward(s, x) ==
  /\ calls # <<>> /\ IsSeq(s) /\ Len(s) = Len(calls)
  /\ \A i \in DOMAIN calls : i # Len(calls) => s[i] = calls[i]
  /\ CallOK(s[Len(s)])
  /\ s[Len(s)].what = Frame.what /\ s[Len(s)].name = Frame.name
  /\ Frame.what # "include" => s[Len(s)].why = Frame.why
  /\ LastAsked(s[Len(s)]) = x
  /\ Asked(s[Len(s)]) = Asked(Frame) \cup {x}

LEMMA NewestCall ==
  ASSUME Calls, calls # <<>>
  PROVE  /\ Len(calls) \in Nat \ {0} /\ DOMAIN calls = 1 .. Len(calls)
         /\ Frame = calls[Len(calls)] /\ CallOK(Frame) /\ Pending(Frame)
<1>1. Len(calls) \in Nat \ {0}
  BY SeqFront DEF Calls
<1>2. DOMAIN calls = 1 .. Len(calls)
  BY SeqDomain DEF Calls
<1>3. Frame = calls[Len(calls)]
  BY DEF Frame, Last
<1>4. QED
  BY <1>1, <1>2, <1>3 DEF Calls

LEMMA OnwardNode ==
  ASSUME Calls, NEW k, Walking(k)
  PROVE  Onward(Advanced, Node)
<1> DEFINE f == [Frame EXCEPT !.at = @ + 1]
           s == [calls EXCEPT ![Len(calls)] = f]
<1>1. calls # <<>> /\ Frame.what \in {"file", "include"} /\ Frame.at \in DOMAIN src[Frame.name]
  BY DEF Walking
<1>2. /\ Frame = calls[Len(calls)] /\ CallOK(Frame)
  BY <1>1, NewestCall
<1>3. Advanced = s
  BY <1>2 DEF Advanced
<1>4. /\ IsSeq(s) /\ Len(s) = Len(calls) /\ s[Len(calls)] = f
      /\ \A i \in DOMAIN calls : i # Len(calls) => s[i] = calls[i]
  <2> HIDE DEF f
  <2> QED BY <1>1, SeqUpdate DEF Calls
<1>5. /\ DOMAIN f = DOMAIN Frame /\ f.at = Frame.at + 1
      /\ f.what = Frame.what /\ f.name = Frame.name
      /\ Frame.what # "include" => f.why = Frame.why
  BY <1>1, <1>2 DEF CallOK
<1>6. Frame.at \in Nat \ {0} /\ \A j \in 1 .. Frame.at - 1 : j \in DOMAIN src[Frame.name]
  BY <1>1, <1>2 DEF CallOK
<1>7. 1 .. f.at - 1 = (1 .. Frame.at - 1) \cup {Frame.at} /\ f.at \in Nat \ {0} /\ f.at - 1 = Frame.at
  BY <1>5, <1>6
<1>8. CallOK(f)
  <2>1. \A j \in 1 .. f.at - 1 : j \in DOMAIN src[f.name]
    BY <1>1, <1>5, <1>6, <1>7
  <2>2. QED
    <3> HIDE DEF f
    <3> QED BY <1>1, <1>2, <1>5, <1>7, <2>1 DEF CallOK
<1>9. LastAsked(f) = Node
  <2> HIDE DEF f
  <2> QED BY <1>1, <1>5, <1>7 DEF LastAsked, Node
<1>10. Asked(f) = Asked(Frame) \cup {Node}
  <2> HIDE DEF f
  <2> QED BY <1>1, <1>5, <1>7 DEF Asked, Node
<1>11. QED
  <2> HIDE DEF f, s
  <2> QED BY <1>1, <1>3, <1>4, <1>5, <1>8, <1>9, <1>10 DEF Onward

LEMMA OnwardLib ==
  ASSUME Calls, calls # <<>>, Frame.what = "image", LibsLeft
  PROVE  Onward([calls EXCEPT ![Len(calls)].lib = @ + 1], LibEntry(Frame, Frame.lib))
<1> DEFINE f == [Frame EXCEPT !.lib = @ + 1]
           s == [calls EXCEPT ![Len(calls)] = f]
<1>2. /\ Frame = calls[Len(calls)] /\ CallOK(Frame)
  BY NewestCall
<1>3. [calls EXCEPT ![Len(calls)].lib = @ + 1] = s
  BY <1>2
<1>4. /\ IsSeq(s) /\ Len(s) = Len(calls) /\ s[Len(calls)] = f
      /\ \A i \in DOMAIN calls : i # Len(calls) => s[i] = calls[i]
  <2> HIDE DEF f
  <2> QED BY SeqUpdate DEF Calls
<1>5. /\ DOMAIN f = DOMAIN Frame /\ f.lib = Frame.lib + 1 /\ f.req = Frame.req
      /\ f.what = Frame.what /\ f.name = Frame.name /\ f.why = Frame.why
  BY <1>2 DEF CallOK
<1>6. /\ Frame.lib \in Nat \ {0} /\ Frame.req = 1 /\ Frame.lib \in DOMAIN disk[Frame.name].libs
      /\ \A j \in 1 .. Frame.lib - 1 : j \in DOMAIN disk[Frame.name].libs
  BY <1>2 DEF CallOK, LibsLeft
<1>7. 1 .. f.lib - 1 = (1 .. Frame.lib - 1) \cup {Frame.lib} /\ f.lib \in Nat \ {0} /\ f.lib - 1 = Frame.lib
  BY <1>5, <1>6
<1>8. CallOK(f)
  <2>1. \A j \in 1 .. f.lib - 1 : j \in DOMAIN disk[f.name].libs
    BY <1>5, <1>6, <1>7
  <2>2. QED
    <3> HIDE DEF f
    <3> QED BY <1>2, <1>5, <1>6, <1>7, <2>1 DEF CallOK
<1>9. LastAsked(f) = LibEntry(Frame, Frame.lib)
  <2> HIDE DEF f
  <2> QED BY <1>5, <1>6, <1>7 DEF LastAsked, LibEntry
<1>10. Asked(f) = Asked(Frame) \cup {LibEntry(Frame, Frame.lib)}
  <2> HIDE DEF f
  <2>1. \A j : LibEntry(f, j) = LibEntry(Frame, j) /\ ReqEntry(f, j) = ReqEntry(Frame, j)
    BY <1>5 DEF LibEntry, ReqEntry
  <2>2. {LibEntry(f, j) : j \in 1 .. f.lib - 1}
          = {LibEntry(Frame, j) : j \in 1 .. Frame.lib - 1} \cup {LibEntry(Frame, Frame.lib)}
    BY <1>7, <2>1
  <2>3. {ReqEntry(f, j) : j \in 1 .. f.req - 1} = {ReqEntry(Frame, j) : j \in 1 .. Frame.req - 1}
    BY <1>5, <2>1
  <2>4. QED
    BY <1>5, <2>2, <2>3 DEF Asked
<1>11. QED
  <2> HIDE DEF f, s
  <2> QED BY <1>3, <1>4, <1>5, <1>8, <1>9, <1>10 DEF Onward

LEMMA OnwardRequire ==
  ASSUME Calls, calls # <<>>, Frame.what = "image", ~ LibsLeft, ReqsLeft
  PROVE  Onward([calls EXCEPT ![Len(calls)].req = @ + 1], ReqEntry(Frame, Frame.req))
<1> DEFINE f == [Frame EXCEPT !.req = @ + 1]
           s == [calls EXCEPT ![Len(calls)] = f]
<1>2. /\ Frame = calls[Len(calls)] /\ CallOK(Frame)
  BY NewestCall
<1>3. [calls EXCEPT ![Len(calls)].req = @ + 1] = s
  BY <1>2
<1>4. /\ IsSeq(s) /\ Len(s) = Len(calls) /\ s[Len(calls)] = f
      /\ \A i \in DOMAIN calls : i # Len(calls) => s[i] = calls[i]
  <2> HIDE DEF f
  <2> QED BY SeqUpdate DEF Calls
<1>5. /\ DOMAIN f = DOMAIN Frame /\ f.req = Frame.req + 1 /\ f.lib = Frame.lib
      /\ f.what = Frame.what /\ f.name = Frame.name /\ f.why = Frame.why
  BY <1>2 DEF CallOK
<1>6. /\ Frame.req \in Nat \ {0} /\ Frame.req \in DOMAIN disk[Frame.name].reqs
      /\ Frame.lib \notin DOMAIN disk[Frame.name].libs
      /\ \A j \in 1 .. Frame.req - 1 : j \in DOMAIN disk[Frame.name].reqs
  BY <1>2 DEF CallOK, LibsLeft, ReqsLeft
<1>7. /\ 1 .. f.req - 1 = (1 .. Frame.req - 1) \cup {Frame.req}
      /\ f.req \in Nat \ {0} /\ f.req # 1 /\ f.req - 1 = Frame.req
  BY <1>5, <1>6
<1>8. CallOK(f)
  <2>1. \A j \in 1 .. f.req - 1 : j \in DOMAIN disk[f.name].reqs
    BY <1>5, <1>6, <1>7
  <2>2. QED
    <3> HIDE DEF f
    <3> QED BY <1>2, <1>5, <1>6, <1>7, <2>1 DEF CallOK
<1>9. LastAsked(f) = ReqEntry(Frame, Frame.req)
  <2> HIDE DEF f
  <2> QED BY <1>5, <1>6, <1>7 DEF LastAsked, ReqEntry
<1>10. Asked(f) = Asked(Frame) \cup {ReqEntry(Frame, Frame.req)}
  <2> HIDE DEF f
  <2>1. \A j : LibEntry(f, j) = LibEntry(Frame, j) /\ ReqEntry(f, j) = ReqEntry(Frame, j)
    BY <1>5 DEF LibEntry, ReqEntry
  <2>2. {ReqEntry(f, j) : j \in 1 .. f.req - 1}
          = {ReqEntry(Frame, j) : j \in 1 .. Frame.req - 1} \cup {ReqEntry(Frame, Frame.req)}
    BY <1>7, <2>1
  <2>3. {LibEntry(f, j) : j \in 1 .. f.lib - 1} = {LibEntry(Frame, j) : j \in 1 .. Frame.lib - 1}
    BY <1>5, <2>1
  <2>4. QED
    BY <1>5, <2>2, <2>3 DEF Asked
<1>11. QED
  <2> HIDE DEF f, s
  <2> QED BY <1>3, <1>4, <1>5, <1>8, <1>9, <1>10 DEF Onward

-----------------------------------------------------------------------------
(* What steps leave alone. *)

LEMMA CallKept ==
  ASSUME UNCHANGED <<src, disk>>, NEW i, NEW f, calls'[i] = f
  PROVE  /\ CallOK(f) => CallOK(calls[i])'
         /\ Asked(calls[i])' = Asked(f)
         /\ LastAsked(calls[i])' = LastAsked(f)
<1>1. CallOK(f) => CallOK(calls[i])'
  BY DEF CallOK, IsSource, IsImage
<1>2. Asked(calls[i])' = Asked(f)
  BY DEF Asked, LibEntry, ReqEntry
<1>3. LastAsked(calls[i])' = LastAsked(f)
  BY DEF LastAsked, LibEntry, ReqEntry
<1>4. QED
  BY <1>1, <1>2, <1>3

LEMMA PendingKept ==
  ASSUME UNCHANGED <<required, loadlibs>>, NEW i, NEW f, calls'[i] = f, Pending(f)
  PROVE  Pending(calls[i])'
BY DEF Pending

\* An answer stays one.
LEMMA AnswerKept ==
  ASSUME UNCHANGED <<src, disk>>, required \subseteq required', loadlibs \subseteq loadlibs',
         NEW W, NEW V, W \subseteq V, NEW x, Answer(x, W)
  PROVE  Answer(x, V)'
BY DEF Answer, IsSource, IsImage

LEMMA SettledKept ==
  ASSUME UNCHANGED <<src, disk>>, required \subseteq required', loadlibs \subseteq loadlibs',
         NEW W, Settled(W)
  PROVE  Settled(W)'
<1> SUFFICES ASSUME NEW f \in W, NEW j \in DOMAIN src[f]
             PROVE  Answer(src[f][j], W)'
  BY DEF Settled
<1>1. Answer(src[f][j], W)
  BY DEF Settled
<1>2. \A x : Answer(x, W) => Answer(x, W)'
  BY AnswerKept
<1>3. QED
  BY <1>1, <1>2 DEF Answer, IsSource, IsImage

LEMMA RememberedKept ==
  ASSUME Remembered, RunOnce, Same
  PROVE  Remembered' /\ RunOnce'
BY DEF Remembered, RunOnce, Same, Saved

\* The newest call goes on past a node that has its answer.
LEMMA Stays ==
  ASSUME Inv, Same, NEW s, NEW x, Onward(s, x), calls' = s, Answer(x, {})
  PROVE  Inv'
<1> DEFINE n == Len(calls)
<1>1. n \in Nat \ {0} /\ DOMAIN calls = 1 .. n /\ Frame = calls[n]
  BY NewestCall DEF Inv, Onward
<1>2. IsSeq(s) /\ Len(s) = n /\ DOMAIN s = 1 .. n
  BY SeqDomain DEF Onward
<1>3. \A i \in 1 .. n : i # n => s[i] = calls[i]
  BY <1>1 DEF Onward
<1>4. /\ CallOK(s[n]) /\ LastAsked(s[n]) = x /\ Asked(s[n]) = Asked(calls[n]) \cup {x}
      /\ s[n].what = calls[n].what /\ s[n].name = calls[n].name
      /\ calls[n].what # "include" => s[n].why = calls[n].why
  BY <1>1, <1>2 DEF Onward
<1>5. \A i \in 1 .. n : CallOK(calls[i]) /\ Pending(calls[i])
  BY <1>1 DEF Inv, Calls
<1>6. \A i \in 1 .. n : CallOK(s[i]) /\ Pending(s[i])
  <2>1. Pending(s[n])
    BY <1>1, <1>4, <1>5 DEF Pending
  <2>2. QED
    BY <1>3, <1>4, <1>5, <2>1
<1>7. Calls'
  <2>1. \A i \in 1 .. n : CallOK(calls[i])' /\ Pending(calls[i])'
    BY <1>6, CallKept, PendingKept DEF Same
  <2>2. QED
    BY <1>2, <2>1 DEF Calls, IsSeq
<1>8. Linked'
  <2> SUFFICES ASSUME NEW i \in 1 .. n, i # n
               PROVE  /\ LastAsked(calls[i])' \in Asked(calls[i])'
                      /\ For(LastAsked(calls[i])', calls'[i + 1])
    BY <1>2 DEF Linked, For
  <2>1. LastAsked(calls[i]) \in Asked(calls[i]) /\ For(LastAsked(calls[i]), calls[i + 1])
    BY <1>1 DEF Inv, Linked
  <2>2. s[i] = calls[i] /\ LastAsked(calls[i])' = LastAsked(s[i]) /\ Asked(calls[i])' = Asked(s[i])
    BY <1>3, CallKept DEF Same
  <2>3. For(LastAsked(calls[i]), s[i + 1])
    <3>1. i + 1 \in 1 .. n
      <4>1. n \in Nat
        BY <1>1
      <4>2. QED
        <5> HIDE DEF n
        <5> QED BY <4>1
    <3>2. \A j \in 1 .. n : /\ s[j].what = calls[j].what /\ s[j].name = calls[j].name
                            /\ calls[j].what # "include" => s[j].why = calls[j].why
      BY <1>3, <1>4
    <3>3. QED
      BY <2>1, <3>1, <3>2 DEF For
  <2>4. QED
    BY <2>1, <2>2, <2>3
<1>9. Answered'
  <2>1. PICK W \in SUBSET DOMAIN src : AnsweredIn(W)
    BY DEF Inv, Answered
  <2>2. Settled(W)'
    BY <2>1, SettledKept DEF AnsweredIn, Same
  <2>3. ASSUME NEW i \in 1 .. n, NEW y \in Asked(calls[i])'
        PROVE  Answer(y, W)' \/ (i # n /\ y = LastAsked(calls[i])')
    <3>1. Asked(calls[i])' = Asked(s[i]) /\ LastAsked(calls[i])' = LastAsked(s[i])
      BY CallKept DEF Same
    <3>2. Answer(y, W) \/ (i # n /\ y = LastAsked(s[i]))
      <4>1. CASE i = n
        <5>1. y \in Asked(calls[n]) \/ y = x
          BY <1>4, <2>3, <3>1, <4>1
        <5>2. y \in Asked(calls[n]) => Answer(y, W)
          BY <1>1, <2>1 DEF AnsweredIn
        <5>3. Answer(x, W)
          BY DEF Answer
        <5>4. QED
          BY <4>1, <5>1, <5>2, <5>3
      <4>2. CASE i # n
        BY <1>1, <1>3, <2>1, <2>3, <3>1, <4>2 DEF AnsweredIn
      <4>3. QED
        BY <4>1, <4>2
    <3>3. Answer(y, W) => Answer(y, W)'
      BY AnswerKept DEF Same
    <3>4. QED
      BY <3>1, <3>2, <3>3
  <2>4. AnsweredIn(W)'
    BY <1>2, <2>2, <2>3 DEF AnsweredIn
  <2>5. QED
    BY <2>4 DEF Answered, Same
<1>10. QED
  BY <1>7, <1>8, <1>9, RememberedKept DEF Inv

\* The newest call goes on to a node that needs a call of its own.
LEMMA Goes ==
  ASSUME Inv, Same, NEW s, NEW x, Onward(s, x), NEW f, calls' = Append(s, f),
         CallOK(f), Pending(f), Asked(f) = {}, For(x, f)
  PROVE  Inv'
<1> DEFINE n == Len(calls)
           c == Append(s, f)
<1>1. n \in Nat \ {0} /\ DOMAIN calls = 1 .. n /\ Frame = calls[n]
  BY NewestCall DEF Inv, Onward
<1>2. IsSeq(s) /\ Len(s) = n /\ DOMAIN s = 1 .. n
  BY SeqDomain DEF Onward
<1>3. \A i \in 1 .. n : i # n => s[i] = calls[i]
  BY <1>1 DEF Onward
<1>4. /\ CallOK(s[n]) /\ LastAsked(s[n]) = x /\ Asked(s[n]) = Asked(calls[n]) \cup {x}
      /\ s[n].what = calls[n].what /\ s[n].name = calls[n].name
      /\ calls[n].what # "include" => s[n].why = calls[n].why
  BY <1>1, <1>2 DEF Onward
<1>5. \A i \in 1 .. n : CallOK(calls[i]) /\ Pending(calls[i])
  BY <1>1 DEF Inv, Calls
<1>6. \A i \in 1 .. n : CallOK(s[i]) /\ Pending(s[i])
  <2>1. Pending(s[n])
    BY <1>1, <1>4, <1>5 DEF Pending
  <2>2. QED
    BY <1>3, <1>4, <1>5, <2>1
<1>11. /\ IsSeq(c) /\ Len(c) = n + 1 /\ c[n + 1] = f
       /\ \A i \in 1 .. n : c[i] = s[i]
  BY <1>2, SeqAppend
<1>12. DOMAIN c = 1 .. n + 1 /\ 1 .. n + 1 = (1 .. n) \cup {n + 1}
  BY <1>1, <1>11, SeqDomain
<1>13. calls' = c
  OBVIOUS
<1> HIDE DEF c
<1>7. Calls'
  <2>1. \A i \in 1 .. n + 1 : CallOK(c[i]) /\ Pending(c[i])
    BY <1>6, <1>11, <1>12
  <2>2. \A i \in 1 .. n + 1 : CallOK(calls[i])' /\ Pending(calls[i])'
    BY <1>13, <2>1, CallKept, PendingKept DEF Same
  <2>3. QED
    BY <1>11, <1>12, <1>13, <2>2 DEF Calls, IsSeq
<1>14. \A i \in 1 .. n + 1 : LastAsked(calls[i])' = LastAsked(c[i]) /\ Asked(calls[i])' = Asked(c[i])
  BY <1>13, CallKept DEF Same
<1>8. Linked'
  <2> SUFFICES ASSUME NEW i \in 1 .. n
               PROVE  /\ LastAsked(calls[i])' \in Asked(calls[i])'
                      /\ For(LastAsked(calls[i])', calls'[i + 1])
    BY <1>11, <1>12, <1>13 DEF Linked, For
  <2>1. LastAsked(s[i]) \in Asked(s[i]) /\ For(LastAsked(s[i]), c[i + 1])
    <3>1. CASE i = n
      BY <1>4, <1>11, <3>1
    <3>2. CASE i # n
      <4>1. LastAsked(calls[i]) \in Asked(calls[i]) /\ For(LastAsked(calls[i]), calls[i + 1])
        BY <1>1, <3>2 DEF Inv, Linked
      <4>2. \A y : For(y, calls[n]) => For(y, s[n])
        BY <1>4 DEF For
      <4>3. i + 1 \in 1 .. n /\ c[i + 1] = s[i + 1] /\ s[i] = calls[i]
        BY <1>1, <1>3, <1>11, <3>2
      <4>4. For(LastAsked(calls[i]), s[i + 1])
        <5>1. CASE i + 1 = n
          BY <4>1, <4>2, <5>1
        <5>2. CASE i + 1 # n
          BY <1>3, <4>1, <4>3, <5>2
        <5>3. QED
          BY <5>1, <5>2
      <4>5. QED
        BY <4>1, <4>3, <4>4
    <3>3. QED
      BY <3>1, <3>2
  <2>2. QED
    BY <1>11, <1>12, <1>13, <1>14, <2>1
<1>9. Answered'
  <2>1. PICK W \in SUBSET DOMAIN src : AnsweredIn(W)
    BY DEF Inv, Answered
  <2>2. Settled(W)'
    BY <2>1, SettledKept DEF AnsweredIn, Same
  <2>3. ASSUME NEW i \in 1 .. n + 1, NEW y \in Asked(calls[i])'
        PROVE  Answer(y, W)' \/ (i # n + 1 /\ y = LastAsked(calls[i])')
    <3>1. Asked(calls[i])' = Asked(c[i]) /\ LastAsked(calls[i])' = LastAsked(c[i])
      BY <1>14
    <3>2. i # n + 1
      BY <1>11, <2>3, <3>1
    <3>3. i \in 1 .. n /\ c[i] = s[i]
      BY <1>11, <1>12, <3>2
    <3>4. Answer(y, W) \/ y = LastAsked(s[i])
      <4>1. CASE i = n
        <5>1. y \in Asked(calls[n]) \/ y = x
          BY <1>4, <2>3, <3>1, <3>3, <4>1
        <5>2. y \in Asked(calls[n]) => Answer(y, W)
          BY <1>1, <2>1 DEF AnsweredIn
        <5>3. QED
          BY <1>4, <4>1, <5>1, <5>2
      <4>2. CASE i # n
        BY <1>1, <1>3, <2>1, <2>3, <3>1, <3>3, <4>2 DEF AnsweredIn
      <4>3. QED
        BY <4>1, <4>2
    <3>5. Answer(y, W) => Answer(y, W)'
      BY AnswerKept DEF Same
    <3>6. QED
      BY <3>1, <3>2, <3>3, <3>4, <3>5
  <2>4. AnsweredIn(W)'
    BY <1>11, <1>12, <1>13, <2>2, <2>3 DEF AnsweredIn
  <2>5. QED
    BY <2>4 DEF Answered, Same
<1>10. QED
  BY <1>7, <1>8, <1>9, RememberedKept DEF Inv

\* The command line calls.
LEMMA Starts ==
  ASSUME Inv, Same, calls = <<>>, NEW f, calls' = Append(<<>>, f),
         CallOK(f), Pending(f), Asked(f) = {}
  PROVE  Inv'
<1> DEFINE c == Append(<<>>, f)
<1>1. IsSeq(c) /\ Len(c) = 1 /\ c[1] = f
  <2>1. IsSeq(c) /\ Len(c) = Len(<<>>) + 1 /\ c[Len(<<>>) + 1] = f
    BY SeqEmpty, SeqAppend
  <2>2. Len(<<>>) + 1 = 1
    BY SeqEmpty
  <2>3. QED
    BY <2>1, <2>2
<1>2. DOMAIN c = {1}
  BY <1>1, SeqDomain
<1>3. calls' = c
  OBVIOUS
<1> HIDE DEF c
<1>4. Calls'
  <2>1. CallOK(calls[1])' /\ Pending(calls[1])'
    BY <1>1, <1>3, CallKept, PendingKept DEF Same
  <2>2. QED
    BY <1>1, <1>2, <1>3, <2>1 DEF Calls, IsSeq
<1>5. Linked'
  BY <1>1, <1>2, <1>3 DEF Linked
<1>6. Answered'
  <2>1. PICK W \in SUBSET DOMAIN src : AnsweredIn(W)
    BY DEF Inv, Answered
  <2>2. Settled(W)'
    BY <2>1, SettledKept DEF AnsweredIn, Same
  <2>3. Asked(calls[1])' = {}
    BY <1>1, <1>3, CallKept DEF Same
  <2>4. AnsweredIn(W)'
    BY <1>2, <1>3, <2>2, <2>3 DEF AnsweredIn
  <2>5. QED
    BY <2>4 DEF Answered, Same
<1>7. QED
  BY <1>4, <1>5, <1>6, RememberedKept DEF Inv

-----------------------------------------------------------------------------
(* The end of a call. *)

Finished == IF Frame.what = "image" THEN ~ LibsLeft /\ ~ ReqsLeft ELSE Walked

\* The entries before number k are there, the one with number m is not.
LEMMA Before ==
  ASSUME NEW D, NEW k \in Nat, NEW m \in Nat \ {0}, \A j \in 1 .. k - 1 : j \in D, m \notin D
  PROVE  1 .. k - 1 \subseteq 1 .. m - 1
OBVIOUS

\* A call that is finished has asked for what any other call of its file or
\* image has asked for.
LEMMA FinishedAskedAll ==
  ASSUME CallOK(Frame), Finished, NEW f, CallOK(f), f.what = Frame.what, f.name = Frame.name
  PROVE  Asked(f) \subseteq Asked(Frame)
<1>1. CASE Frame.what # "image"
  <2>1. 1 .. f.at - 1 \subseteq 1 .. Frame.at - 1
    BY <1>1, Before DEF CallOK, Finished, Walked
  <2>2. QED
    BY <1>1, <2>1 DEF Asked
<1>2. CASE Frame.what = "image"
  <2>1. 1 .. f.lib - 1 \subseteq 1 .. Frame.lib - 1
    BY <1>2, Before DEF CallOK, Finished, LibsLeft
  <2>2. 1 .. f.req - 1 \subseteq 1 .. Frame.req - 1
    BY <1>2, Before DEF CallOK, Finished, ReqsLeft
  <2>3. \A j : LibEntry(f, j) = LibEntry(Frame, j) /\ ReqEntry(f, j) = ReqEntry(Frame, j)
    BY DEF LibEntry, ReqEntry
  <2>4. QED
    BY <1>2, <2>1, <2>2, <2>3 DEF Asked
<1>3. QED
  BY <1>1, <1>2

\* What a call is for has no answer, unless the call is the walk of an included
\* file that was walked before.
LEMMA Unanswered ==
  ASSUME NEW f, CallOK(f), Pending(f), NEW x, For(x, f), NEW W, Answer(x, W)
  PROVE  f.what = "include" /\ f.name \in W
<1>1. CASE f.what = "include"
  BY <1>1 DEF CallOK, For, Answer
<1>2. CASE f.what # "include" /\ f.why = "require"
  BY <1>2 DEF CallOK, For, Answer, Pending
<1>3. CASE f.what # "include" /\ f.why = "loadlib"
  BY <1>3 DEF CallOK, For, Answer, Pending
<1>4. QED
  BY <1>1, <1>2, <1>3 DEF For

\* A required file or a library whose call is finished has no other call below.
LEMMA NoCycle ==
  ASSUME Inv, calls # <<>>, Frame.what # "include", Finished, Frame.why \in {"require", "loadlib"},
         NEW d \in DOMAIN calls, d # Len(calls), calls[d].what # "include",
         calls[d].name = Frame.name, calls[d].why = Frame.why
  PROVE  FALSE
<1> DEFINE n == Len(calls)
<1>1. n \in Nat \ {0} /\ Frame = calls[n] /\ CallOK(Frame) /\ Pending(Frame)
  BY NewestCall DEF Inv
<1>2. DOMAIN calls = 1 .. n
  BY NewestCall DEF Inv
<1>3. \A i \in 1 .. n : CallOK(calls[i]) /\ Pending(calls[i])
  BY <1>2 DEF Inv, Calls
<1>4. PICK W \in SUBSET DOMAIN src : AnsweredIn(W)
  BY DEF Inv, Answered
<1>5. calls[d].what = Frame.what
  <2>1. src \in Sources /\ DOMAIN disk \subseteq Saved
    BY DEF Inv, Remembered
  <2>2. Saved \cap DOMAIN src = {}
    BY <2>1, FilesAssumption
  <2>3. CallOK(calls[d])
    BY <1>2, <1>3
  <2>4. CASE Frame.why = "loadlib"
    BY <1>1, <2>3, <2>4 DEF CallOK
  <2>5. CASE Frame.why = "require"
    BY <1>1, <2>1, <2>2, <2>3, <2>5 DEF CallOK, IsSource, IsImage
  <2>6. QED
    BY <2>4, <2>5
<1>6. Asked(calls[d]) \subseteq Asked(Frame)
  BY <1>1, <1>2, <1>3, <1>5, FinishedAskedAll
<1>7. \A x \in Asked(Frame) : Answer(x, W)
  BY <1>1, <1>2, <1>4 DEF AnsweredIn
<1>8. \A i \in 1 .. n : i # n => /\ LastAsked(calls[i]) \in Asked(calls[i])
                                 /\ For(LastAsked(calls[i]), calls[i + 1])
  BY <1>2 DEF Inv, Linked
<1>9. Answer(LastAsked(calls[d]), W)
  BY <1>2, <1>6, <1>7, <1>8
<1> DEFINE T == {k \in Nat : n - k \in 1 .. n - 1 /\ Answer(LastAsked(calls[n - k]), W)}
<1>10. n - d \in T
  <2>1. d \in 1 .. n /\ d # n
    BY <1>2
  <2>2. n - d \in Nat /\ n - (n - d) = d /\ d \in 1 .. n - 1
    <3> HIDE DEF n
    <3> QED BY <1>1, <2>1
  <2>3. QED
    BY <1>9, <2>2
<1>11. PICK k \in T : \A y \in T : k <= y
  <2> HIDE DEF T
  <2>1. T \subseteq Nat
    BY DEF T
  <2>2. QED
    BY <1>10, <2>1, Least
<1> DEFINE i == n - k
<1>12. /\ k \in Nat /\ i \in 1 .. n - 1 /\ Answer(LastAsked(calls[i]), W)
  BY <1>11
<1>13. i \in 1 .. n /\ i # n /\ i + 1 \in 1 .. n
  <2> HIDE DEF n, i
  <2> QED BY <1>1, <1>12
<1> DEFINE g == calls[i + 1]
<1>14. g.what = "include" /\ g.name \in W /\ CallOK(g)
  <2>1. CallOK(g) /\ Pending(g) /\ For(LastAsked(calls[i]), g)
    BY <1>3, <1>8, <1>13
  <2>2. QED
    <3> HIDE DEF g, i
    <3> QED BY <1>12, <2>1, Unanswered
<1>15. i + 1 # n
  BY <1>1, <1>14
<1>16. Answer(LastAsked(g), W)
  <2>1. LastAsked(g) \in Asked(g)
    BY <1>8, <1>13, <1>15
  <2> HIDE DEF g, i
  <2>2. PICK j \in 1 .. g.at - 1 : LastAsked(g) = src[g.name][j]
    BY <1>14, <2>1 DEF Asked
  <2>3. j \in DOMAIN src[g.name]
    BY <1>14, <2>2 DEF CallOK
  <2>4. QED
    BY <1>4, <1>14, <2>2, <2>3 DEF AnsweredIn, Settled
<1>17. k - 1 \in T
  <2>1. k - 1 \in Nat /\ n - (k - 1) = i + 1 /\ i + 1 \in 1 .. n - 1
    <3>1. n \in Nat /\ k \in Nat /\ n - k + 1 # n /\ n - k + 1 \in 1 .. n
      BY <1>1, <1>12, <1>13, <1>15
    <3> HIDE DEF n
    <3> QED BY <3>1
  <2>2. QED
    BY <1>16, <2>1
<1>18. k <= k - 1
  BY <1>11, <1>17
<1>19. QED
  BY <1>12, <1>18

LEMMA PendingStill ==
  ASSUME NEW i, calls'[i] = calls[i],
         calls[i].what # "include" => /\ calls[i].why = "require" => calls[i].name \notin required'
                                      /\ calls[i].why = "loadlib" => calls[i].name \notin loadlibs'
  PROVE  Pending(calls[i])'
BY DEF Pending

\* The newest call returns: what it was for has its answer, and nothing that
\* the calls below are for has happened.
LEMMA Returns ==
  ASSUME Inv, calls # <<>>, UNCHANGED <<src, disk>>, calls' = Front(calls),
         required \subseteq required', loadlibs \subseteq loadlibs',
         \A i \in DOMAIN calls : i # Len(calls) /\ calls[i].what # "include" =>
           /\ calls[i].why = "require" => calls[i].name \notin required'
           /\ calls[i].why = "loadlib" => calls[i].name \notin loadlibs',
         NEW W, AnsweredIn(W), NEW V, V \subseteq DOMAIN src, W \subseteq V, Settled(V)',
         \A x : For(x, Frame) => Answer(x, V)'
  PROVE  Calls' /\ Linked' /\ Answered'
<1> DEFINE n == Len(calls)
           c == Front(calls)
<1>1. n \in Nat \ {0} /\ Frame = calls[n]
  BY NewestCall DEF Inv
<1>2. DOMAIN calls = 1 .. n
  BY NewestCall DEF Inv
<1>3. /\ IsSeq(c) /\ Len(c) = n - 1
      /\ \A i \in DOMAIN c : i \in DOMAIN calls /\ i # n /\ c[i] = calls[i]
  BY SeqFront DEF Inv, Calls
<1>4. DOMAIN c = 1 .. n - 1
  BY <1>3, SeqDomain
<1>5. calls' = c
  OBVIOUS
<1> HIDE DEF c
<1>6. \A i \in 1 .. n - 1 : i \in 1 .. n /\ i # n /\ calls'[i] = calls[i] /\ i + 1 \in 1 .. n
  <2>1. \A i \in 1 .. n - 1 : i \in 1 .. n /\ i # n /\ calls'[i] = calls[i]
    BY <1>2, <1>3, <1>4, <1>5
  <2>2. \A i \in 1 .. n - 1 : i + 1 \in 1 .. n
    <3> HIDE DEF n
    <3> QED BY <1>1
  <2>3. QED
    BY <2>1, <2>2
<1>7. \A i \in 1 .. n - 1 : LastAsked(calls[i])' = LastAsked(calls[i]) /\ Asked(calls[i])' = Asked(calls[i])
  BY <1>6, CallKept
<1>8. Calls'
  <2>1. \A i \in 1 .. n - 1 : CallOK(calls[i])
    BY <1>2, <1>6 DEF Inv, Calls
  <2>2. \A i \in 1 .. n - 1 : CallOK(calls[i])'
    BY <1>6, <2>1, CallKept
  <2>3. ASSUME NEW i \in 1 .. n - 1 PROVE Pending(calls[i])'
    <3>1. calls'[i] = calls[i]
      BY <1>6
    <3>2. calls[i].what # "include" => /\ calls[i].why = "require" => calls[i].name \notin required'
                                       /\ calls[i].why = "loadlib" => calls[i].name \notin loadlibs'
      BY <1>2, <1>6
    <3>3. QED
      BY <3>1, <3>2, PendingStill
  <2>4. QED
    BY <1>3, <1>4, <1>5, <2>2, <2>3 DEF Calls, IsSeq
<1>9. \A i \in 1 .. n - 1 : LastAsked(calls[i]) \in Asked(calls[i]) /\ For(LastAsked(calls[i]), calls[i + 1])
  BY <1>2, <1>6 DEF Inv, Linked
<1>10. Linked'
  <2> SUFFICES ASSUME NEW i \in 1 .. n - 1, i # n - 1
               PROVE  /\ LastAsked(calls[i])' \in Asked(calls[i])'
                      /\ For(LastAsked(calls[i])', calls'[i + 1])
    BY <1>3, <1>4, <1>5 DEF Linked, For
  <2>1. i + 1 \in 1 .. n - 1
    <3> HIDE DEF n
    <3> QED BY <1>1
  <2>2. calls'[i + 1] = calls[i + 1]
    BY <1>6, <2>1
  <2>3. QED
    BY <1>7, <1>9, <2>2
<1>11. Answered'
  <2>1. ASSUME NEW i \in 1 .. n - 1, NEW y \in Asked(calls[i])'
        PROVE  Answer(y, V)' \/ (i # n - 1 /\ y = LastAsked(calls[i])')
    <3>1. y \in Asked(calls[i])
      BY <1>7, <2>1
    <3>2. Answer(y, W) \/ y = LastAsked(calls[i])
      BY <1>2, <1>6, <3>1 DEF AnsweredIn
    <3>3. Answer(y, W) => Answer(y, V)'
      BY AnswerKept
    <3>4. CASE i = n - 1 /\ y = LastAsked(calls[i])
      <4>1. calls[i + 1] = Frame
        BY <1>1, <3>4
      <4>2. For(y, Frame)
        BY <1>9, <3>4, <4>1
      <4>3. QED
        BY <4>2
    <3>5. QED
      BY <1>7, <3>2, <3>3, <3>4
  <2>2. AnsweredIn(V)'
    BY <1>3, <1>4, <1>5, <2>1 DEF AnsweredIn
  <2>3. QED
    BY <2>2 DEF Answered
<1>12. QED
  BY <1>8, <1>10, <1>11

LEMMA EndsInclude ==
  ASSUME Inv, calls # <<>>, Frame.what = "include", Walked, calls' = Front(calls), Same
  PROVE  Inv'
<1>1. /\ Len(calls) \in Nat \ {0} /\ DOMAIN calls = 1 .. Len(calls)
      /\ Frame = calls[Len(calls)] /\ CallOK(Frame)
  BY NewestCall DEF Inv
<1>2. PICK W \in SUBSET DOMAIN src : AnsweredIn(W)
  BY DEF Inv, Answered
<1>14. PICK V : V = W \cup {Frame.name}
  OBVIOUS
<1>3. Frame.name \in DOMAIN src
  BY <1>1 DEF CallOK, IsSource
<1>4. \A j \in DOMAIN src[Frame.name] : j \in 1 .. Frame.at - 1
  <2>1. src[Frame.name] \in Seq({src[Frame.name][i] : i \in DOMAIN src[Frame.name]})
    BY <1>3, FilesAssumption DEF Inv, Remembered
  <2>2. PICK m \in Nat : DOMAIN src[Frame.name] = 1 .. m
    BY <2>1
  <2>3. Frame.at \in Nat \ {0} /\ Frame.at \notin 1 .. m
    BY <1>1, <2>2 DEF CallOK, Walked
  <2>4. QED
    BY <2>2, <2>3
<1>5. \A x \in Asked(Frame) : Answer(x, W)
  BY <1>1, <1>2 DEF AnsweredIn
<1>6. \A j \in DOMAIN src[Frame.name] : Answer(src[Frame.name][j], W)
  BY <1>4, <1>5 DEF Asked
<1>7. Settled(V)
  <2>1. \A f \in V : \A j \in DOMAIN src[f] : Answer(src[f][j], W)
    BY <1>2, <1>6, <1>14 DEF AnsweredIn, Settled
  <2>2. QED
    BY <1>14, <2>1 DEF Settled, Answer
<1>8. Settled(V)'
  BY <1>7, SettledKept DEF Same
<1>9. \A x : For(x, Frame) => Answer(x, V)'
  BY <1>14 DEF For, Answer
<1>10. \A i \in DOMAIN calls : i # Len(calls) /\ calls[i].what # "include" =>
           /\ calls[i].why = "require" => calls[i].name \notin required'
           /\ calls[i].why = "loadlib" => calls[i].name \notin loadlibs'
  BY DEF Inv, Calls, Pending, Same
<1>11. V \subseteq DOMAIN src /\ W \subseteq V
  BY <1>3, <1>14
<1>12. Calls' /\ Linked' /\ Answered'
  BY <1>2, <1>8, <1>9, <1>10, <1>11, Returns DEF Same
<1>13. QED
  BY <1>12, RememberedKept DEF Inv

\* Of a required file or a library, the program has run.
LEMMA Ends ==
  ASSUME Inv, calls # <<>>, Frame.what # "include", Finished, calls' = Front(calls),
         UNCHANGED <<src, disk>>, required' = NowRequired(Frame),
         loadlibs' = IF Frame.why = "loadlib" THEN loadlibs \cup {Frame.name} ELSE loadlibs,
         ran' = IF Frame.why \in {"require", "loadlib"} THEN Append(ran, Frame.name) ELSE ran
  PROVE  Inv'
<1>1. /\ Len(calls) \in Nat \ {0} /\ DOMAIN calls = 1 .. Len(calls)
      /\ Frame = calls[Len(calls)] /\ CallOK(Frame) /\ Pending(Frame)
  BY NewestCall DEF Inv
<1>2. PICK W \in SUBSET DOMAIN src : AnsweredIn(W)
  BY DEF Inv, Answered
<1>3. /\ required' = IF Frame.why = "require" THEN required \cup {Frame.name} ELSE required
      /\ required \subseteq required' /\ loadlibs \subseteq loadlibs'
  BY DEF NowRequired
<1>4. \A i \in DOMAIN calls : i # Len(calls) /\ calls[i].what # "include" =>
           /\ calls[i].why = "require" => calls[i].name \notin required'
           /\ calls[i].why = "loadlib" => calls[i].name \notin loadlibs'
  <2> SUFFICES ASSUME NEW i \in DOMAIN calls, i # Len(calls), calls[i].what # "include"
               PROVE  /\ calls[i].why = "require" => calls[i].name \notin required'
                      /\ calls[i].why = "loadlib" => calls[i].name \notin loadlibs'
    OBVIOUS
  <2>1. Pending(calls[i])
    BY DEF Inv, Calls
  <2>2. ~ (Frame.why \in {"require", "loadlib"} /\ calls[i].name = Frame.name /\ calls[i].why = Frame.why)
    BY NoCycle
  <2>3. QED
    BY <1>3, <2>1, <2>2 DEF Pending
<1>5. Settled(W)'
  BY <1>2, <1>3, SettledKept DEF AnsweredIn
<1>6. \A x : For(x, Frame) => Answer(x, W)'
  BY <1>3 DEF For, Answer
<1>7. Calls' /\ Linked' /\ Answered'
  BY <1>2, <1>3, <1>4, <1>5, <1>6, Returns
<1>8. /\ src \in Sources /\ DOMAIN disk \subseteq Saved /\ loadlibs \subseteq Libs /\ required \cap Libs = {}
      /\ IsSeq(ran) /\ {ran[i] : i \in DOMAIN ran} = required \cup loadlibs
  BY DEF Inv, Remembered
<1>9. CASE Frame.why \notin {"require", "loadlib"}
  <2>1. UNCHANGED <<required, loadlibs, ran>>
    BY <1>3, <1>9
  <2>2. QED
    BY <1>7, <2>1, RememberedKept DEF Inv, Same
<1>10. CASE Frame.why \in {"require", "loadlib"}
  <2> DEFINE f == Frame.name
  <2>1. ran' = Append(ran, f) /\ required' \cup loadlibs' = required \cup loadlibs \cup {f}
    BY <1>3, <1>10
  <2>2. f \notin required \cup loadlibs /\ loadlibs' \subseteq Libs /\ required' \cap Libs = {}
    <3>1. CASE Frame.why = "require"
      <4>1. f \notin Libs
        BY <1>1, <1>8, <3>1, FilesAssumption DEF CallOK, IsSource, IsImage
      <4>2. QED
        BY <1>1, <1>3, <1>8, <3>1, <4>1 DEF Pending
    <3>2. CASE Frame.why = "loadlib"
      <4>1. f \in Libs
        BY <1>1, <3>2 DEF CallOK
      <4>2. QED
        BY <1>1, <1>3, <1>8, <3>2, <4>1 DEF Pending
    <3>3. QED
      BY <1>10, <3>1, <3>2
  <2>3. /\ IsSeq(ran') /\ Len(ran') = Len(ran) + 1 /\ ran'[Len(ran) + 1] = f
        /\ \A i \in DOMAIN ran : ran'[i] = ran[i]
    <3> HIDE DEF f
    <3> QED BY <1>8, <2>1, SeqAppend
  <2>4. /\ Len(ran) \in Nat /\ DOMAIN ran = 1 .. Len(ran)
        /\ DOMAIN ran' = (1 .. Len(ran)) \cup {Len(ran) + 1}
    BY <1>8, <2>3, SeqDomain
  <2>5. {ran'[i] : i \in DOMAIN ran'} = {ran[i] : i \in DOMAIN ran} \cup {f}
    BY <2>3, <2>4
  <2>6. Remembered'
    BY <1>8, <2>1, <2>2, <2>3, <2>5 DEF Remembered, IsSeq, Saved
  <2>7. RunOnce'
    <3>1. \A i \in DOMAIN ran : ran[i] # f
      BY <1>8, <2>2
    <3>2. \A i, j \in DOMAIN ran : ran[i] = ran[j] => i = j
      BY DEF Inv, RunOnce
    <3>3. QED
      BY <2>3, <2>4, <3>1, <3>2 DEF RunOnce
  <2>8. QED
    BY <1>7, <2>6, <2>7 DEF Inv
<1>11. QED
  BY <1>9, <1>10

-----------------------------------------------------------------------------
(* The actions. *)

LEMMA NewFile ==
  ASSUME NEW f, NEW why, NEW node, NEW e, NEW r, NEW keep,
         why = "require" => IsSource(f), why = "loadlib" => f \in Libs, NEW c,
         c = [what |-> "file", name |-> f, at |-> 1, why |-> why, node |-> node,
              edit |-> e, reent |-> r, keep |-> keep]
  PROVE  /\ CallOK(c) /\ Asked(c) = {}
         /\ c.what = "file" /\ c.name = f /\ c.why = why
<1>1. /\ DOMAIN c = {"what", "name", "at", "why", "node", "edit", "reent", "keep"}
      /\ c.what = "file" /\ c.name = f /\ c.why = why /\ c.at = 1
  OBVIOUS
<1>2. 1 .. c.at - 1 = {}
  BY <1>1
<1>3. QED
  BY <1>1, <1>2 DEF CallOK, Asked

LEMMA NewImage ==
  ASSUME NEW i, NEW why \in {"top", "require"}, NEW node, NEW id, IsImage(i), NEW c,
         c = [what |-> "image", name |-> i, lib |-> 1, req |-> 1, id |-> id, why |-> why, node |-> node]
  PROVE  /\ CallOK(c) /\ Asked(c) = {}
         /\ c.what = "image" /\ c.name = i /\ c.why = why
<1>1. /\ DOMAIN c = {"what", "name", "lib", "req", "id", "why", "node"}
      /\ c.what = "image" /\ c.name = i /\ c.why = why /\ c.lib = 1 /\ c.req = 1
  OBVIOUS
<1>2. 1 .. c.lib - 1 = {} /\ 1 .. c.req - 1 = {}
  BY <1>1
<1>3. QED
  BY <1>1, <1>2 DEF CallOK, Asked

LEMMA StepNode ==
  ASSUME Inv, NEW k, Walking(k), k \notin {"require", "loadlib", "include"}, calls' = Advanced, Same
  PROVE  Inv'
<1>1. Onward(Advanced, Node)
  BY OnwardNode DEF Inv
<1>2. Answer(Node, {})
  BY DEF Walking, Answer
<1>3. QED
  BY <1>1, <1>2, Stays

LEMMA StepRequire ==
  ASSUME Inv, NEW s, NEW x, Onward(s, x), x.k = "require", NEW node, AddRequire(s, x.n, node),
         UNCHANGED <<src, disk>>
  PROVE  Inv'
<1>1. CASE (x.n \in required \/ ~ (IsSource(x.n) \/ IsImage(x.n))) /\ Nothing(s, node)
  <2>1. Answer(x, {})
    BY <1>1 DEF Answer
  <2>2. calls' = s /\ Same
    BY <1>1 DEF Nothing, session_vars, Same
  <2>3. QED
    BY <2>1, <2>2, Stays
<1>2. ASSUME x.n \notin required, IsSource(x.n), NEW keep, Compile(s, x.n, "require", node, keep)
      PROVE  Inv'
  <2>1. PICK c : /\ c = [what |-> "file", name |-> x.n, at |-> 1, why |-> "require", node |-> node,
                          edit |-> edit, reent |-> reent, keep |-> keep]
                 /\ calls' = Append(s, c)
    BY <1>2 DEF Compile
  <2>2. Same
    BY <1>2 DEF Compile, session_vars, Same
  <2>3. CallOK(c) /\ Asked(c) = {} /\ c.what = "file" /\ c.name = x.n /\ c.why = "require"
    BY <1>2, <2>1, NewFile
  <2>4. Pending(c) /\ For(x, c)
    BY <1>2, <2>3 DEF Pending, For
  <2>5. QED
    BY <2>1, <2>2, <2>3, <2>4, Goes
<1>3. CASE x.n \notin required /\ IsImage(x.n) /\ OpenImage(s, x.n, "require", node)
  <2>1. PICK c : /\ c = [what |-> "image", name |-> x.n, lib |-> 1, req |-> 1,
                          id |-> Len(progs) + 1, why |-> "require", node |-> node]
                 /\ calls' = Append(s, c)
    BY <1>3 DEF OpenImage
  <2>2. Same
    BY <1>3 DEF OpenImage, session_vars, Same
  <2>3. CallOK(c) /\ Asked(c) = {} /\ c.what = "image" /\ c.name = x.n /\ c.why = "require"
    BY <1>3, <2>1, NewImage
  <2>4. Pending(c) /\ For(x, c)
    BY <1>3, <2>3 DEF Pending, For
  <2>5. QED
    BY <2>1, <2>2, <2>3, <2>4, Goes
<1>4. QED
  BY <1>1, <1>2, <1>3 DEF AddRequire

LEMMA StepLoadLib ==
  ASSUME Inv, NEW s, NEW x, Onward(s, x), x.k = "loadlib", NEW node, AddLoadLib(s, x.n, node),
         UNCHANGED <<src, disk>>
  PROVE  Inv'
<1>1. CASE NothingToLoad(x.n) /\ Nothing(s, node)
  <2>1. Answer(x, {})
    BY <1>1 DEF Answer, NothingToLoad
  <2>2. calls' = s /\ Same
    BY <1>1 DEF Nothing, session_vars, Same
  <2>3. QED
    BY <2>1, <2>2, Stays
<1>2. CASE x.n \in Libs \ loadlibs /\ Compile(s, x.n, "loadlib", node, result)
  <2>1. PICK c : /\ c = [what |-> "file", name |-> x.n, at |-> 1, why |-> "loadlib", node |-> node,
                          edit |-> edit, reent |-> reent, keep |-> result]
                 /\ calls' = Append(s, c)
    BY <1>2 DEF Compile
  <2>2. Same
    BY <1>2 DEF Compile, session_vars, Same
  <2>3. CallOK(c) /\ Asked(c) = {} /\ c.what = "file" /\ c.name = x.n /\ c.why = "loadlib"
    BY <1>2, <2>1, NewFile
  <2>4. Pending(c) /\ For(x, c)
    BY <1>2, <2>3 DEF Pending, For
  <2>5. QED
    BY <2>1, <2>2, <2>3, <2>4, Goes
<1>3. QED
  BY <1>1, <1>2 DEF AddLoadLib

LEMMA StepInclude == Inv /\ Include => Inv'
<1> SUFFICES ASSUME Inv, Include PROVE Inv'
  OBVIOUS
<1>1. Walking("include") /\ Same
  BY DEF Include, session_vars, Same
<1>2. Onward(Advanced, Node) /\ Node.k = "include"
  BY <1>1, OnwardNode DEF Inv, Walking
<1>3. CASE ~ IsSource(Node.n) /\ calls' = Advanced
  BY <1>1, <1>2, <1>3, Stays DEF Answer
<1>4. CASE IsSource(Node.n) /\ calls' = Append(Advanced, [what |-> "include", name |-> Node.n, at |-> 1])
  <2>1. PICK c : c = [what |-> "include", name |-> Node.n, at |-> 1]
    OBVIOUS
  <2>2. DOMAIN c = {"what", "name", "at"} /\ c.what = "include" /\ c.name = Node.n /\ c.at = 1 /\ 1 .. c.at - 1 = {}
    BY <2>1
  <2>3. CallOK(c) /\ Asked(c) = {} /\ Pending(c) /\ For(Node, c)
    BY <1>2, <1>4, <2>2 DEF CallOK, Asked, Pending, For
  <2>4. QED
    BY <1>1, <1>2, <1>4, <2>1, <2>3, Goes
<1>5. QED
  BY <1>3, <1>4 DEF Include

LEMMA StepEnded ==
  ASSUME Inv, calls # <<>>, Frame.what # "include", Finished, UNCHANGED <<src, disk>>,
         NEW id, NEW p, NEW ip, NEW keep, Ended(Frame, id, p, ip, keep)
  PROVE  Inv'
<1>1. /\ calls' = Front(calls) /\ required' = NowRequired(Frame)
      /\ loadlibs' = IF Frame.why = "loadlib" THEN loadlibs \cup {Frame.name} ELSE loadlibs
      /\ ran' = IF Frame.why \in {"require", "loadlib"} THEN Append(ran, Frame.name) ELSE ran
  BY DEF Ended
<1>2. QED
  BY <1>1, Ends

\* No node asks for a line of the interactive mode.
LEMMA StepReject == Inv /\ RejectLine => Inv'
<1> SUFFICES ASSUME Inv, RejectLine PROVE Inv'
  OBVIOUS
<1>1. /\ calls # <<>> /\ calls' = Front(calls) /\ Same
      /\ Frame.what = "file" /\ Frame.why = "eval"
  BY DEF RejectLine, Unknown, Walking, Same
<1>2. PICK W \in SUBSET DOMAIN src : AnsweredIn(W)
  BY DEF Inv, Answered
<1>3. Settled(W)'
  BY <1>1, <1>2, SettledKept DEF AnsweredIn, Same
<1>4. \A x : For(x, Frame) => Answer(x, W)'
  BY <1>1 DEF For
<1>5. \A i \in DOMAIN calls : i # Len(calls) /\ calls[i].what # "include" =>
           /\ calls[i].why = "require" => calls[i].name \notin required'
           /\ calls[i].why = "loadlib" => calls[i].name \notin loadlibs'
  BY <1>1 DEF Inv, Calls, Pending, Same
<1>6. Calls' /\ Linked' /\ Answered'
  BY <1>1, <1>2, <1>3, <1>4, <1>5, Returns DEF Same
<1>7. QED
  BY <1>1, <1>6, RememberedKept DEF Inv

\* The command line compiles a file, or loads an image.
LEMMA StepCompile ==
  ASSUME Inv, Idle, NEW f, NEW why \in {"top", "shell", "eval"}, NEW node, NEW keep,
         Compile(<<>>, f, why, node, keep), UNCHANGED <<src, disk>>
  PROVE  Inv'
<1>1. PICK c : /\ c = [what |-> "file", name |-> f, at |-> 1, why |-> why, node |-> node,
                        edit |-> edit, reent |-> reent, keep |-> keep]
               /\ calls' = Append(<<>>, c)
  BY DEF Compile
<1>2. Same
  BY DEF Compile, session_vars, Same
<1>3. why # "require" /\ why # "loadlib"
  OBVIOUS
<1>4. CallOK(c) /\ Asked(c) = {} /\ c.why = why
  BY <1>1, <1>3, NewFile
<1>5. Pending(c)
  BY <1>3, <1>4 DEF Pending
<1>6. QED
  BY <1>1, <1>2, <1>4, <1>5, Starts DEF Idle

LEMMA StepOpen ==
  ASSUME Inv, Idle, NEW i \in DOMAIN disk, OpenImage(<<>>, i, "top", <<>>), UNCHANGED <<src, disk>>
  PROVE  Inv'
<1>1. PICK c : /\ c = [what |-> "image", name |-> i, lib |-> 1, req |-> 1,
                        id |-> Len(progs) + 1, why |-> "top", node |-> <<>>]
               /\ calls' = Append(<<>>, c)
  BY DEF OpenImage
<1>2. Same
  BY DEF OpenImage, session_vars, Same
<1>3. CallOK(c) /\ Asked(c) = {} /\ c.why = "top"
  BY <1>1, NewImage DEF IsImage
<1>4. Pending(c)
  BY <1>3 DEF Pending
<1>5. QED
  BY <1>1, <1>2, <1>3, <1>4, Starts DEF Idle

\* Nothing is under way, before and after.
LEMMA StepEmpty ==
  ASSUME calls' = <<>>, Remembered', RunOnce'
  PROVE  Inv'
<1>1. Calls' /\ Linked'
  BY SeqEmpty DEF Calls, Linked
<1>2. AnsweredIn({})'
  BY SeqEmpty DEF AnsweredIn, Settled
<1>3. Answered'
  BY <1>2 DEF Answered
<1>4. QED
  BY <1>1, <1>3 DEF Inv

LEMMA StepUnchanged ==
  ASSUME Inv, Same, calls' = calls
  PROVE  Inv'
<1>1. \A i \in DOMAIN calls : CallOK(calls[i])' /\ Pending(calls[i])'
  <2>1. \A i \in DOMAIN calls : CallOK(calls[i]) /\ Pending(calls[i]) /\ calls'[i] = calls[i]
    BY DEF Inv, Calls
  <2>2. QED
    BY <2>1, CallKept, PendingKept DEF Same
<1>2. \A i \in DOMAIN calls : Asked(calls[i])' = Asked(calls[i]) /\ LastAsked(calls[i])' = LastAsked(calls[i])
  <2>1. \A i \in DOMAIN calls : calls'[i] = calls[i]
    OBVIOUS
  <2>2. QED
    BY <2>1, CallKept DEF Same
<1>3. Calls'
  BY <1>1 DEF Inv, Calls, IsSeq
<1>4. Linked'
  BY <1>2 DEF Inv, Linked, For
<1>5. PICK W \in SUBSET DOMAIN src : AnsweredIn(W)
  BY DEF Inv, Answered
<1>6. Settled(W)' /\ \A x : Answer(x, W) => Answer(x, W)'
  BY <1>5, SettledKept, AnswerKept DEF AnsweredIn, Same
<1>7. AnsweredIn(W)'
  BY <1>2, <1>5, <1>6 DEF AnsweredIn
<1>8. Answered'
  BY <1>7 DEF Answered, Same
<1>9. QED
  BY <1>3, <1>4, <1>8, RememberedKept DEF Inv

LEMMA StepSave == Inv /\ Save => Inv'
<1> SUFFICES ASSUME Inv, NEW i \in Images, calls = <<>>, DOMAIN disk' = DOMAIN disk \cup {i},
                    UNCHANGED <<src, required, loadlibs, ran, calls>>
             PROVE  Inv'
  BY DEF Save, Idle, session_vars
<1>1. Remembered' /\ RunOnce'
  BY DEF Inv, Remembered, RunOnce, Saved
<1>2. QED
  BY <1>1, StepEmpty

LEMMA StepRestart == Inv /\ Restart => Inv'
<1> SUFFICES ASSUME Inv, Restart PROVE Inv'
  OBVIOUS
<1>1. /\ required' = {} /\ loadlibs' = {} /\ ran' = <<>> /\ calls' = <<>>
      /\ src' = src /\ disk' = disk
  BY DEF Restart
<1>2. Remembered' /\ RunOnce'
  BY <1>1, SeqEmpty DEF Inv, Remembered, RunOnce, Saved
<1>3. QED
  BY <1>1, <1>2, StepEmpty

LEMMA InitInv == Init => Inv
<1> SUFFICES ASSUME Init PROVE Inv
  OBVIOUS
<1>1. /\ required = {} /\ loadlibs = {} /\ ran = <<>> /\ calls = <<>> /\ src \in Sources
      /\ DOMAIN disk = DOMAIN Prebuilt
  BY DEF Init
<1>2. Remembered /\ RunOnce
  BY <1>1, SeqEmpty DEF Remembered, RunOnce, Saved
<1>3. Calls /\ Linked
  BY <1>1, SeqEmpty DEF Calls, Linked
<1>4. AnsweredIn({})
  BY <1>1, SeqEmpty DEF AnsweredIn, Settled
<1>5. Answered
  BY <1>4 DEF Answered
<1>6. QED
  BY <1>2, <1>3, <1>5 DEF Inv

LEMMA StepInv == Inv /\ [Next]_vars => Inv'
<1> SUFFICES ASSUME Inv, [Next]_vars PROVE Inv'
  OBVIOUS
<1>1. ASSUME NEW k \in {"op", "label", "data"}, AddNode(k) PROVE Inv'
  BY <1>1, StepNode DEF AddNode, session_vars, Same
<1>2. CASE AddDataNode
  BY <1>1, <1>2 DEF AddDataNode
<1>3. CASE LibFile
  BY <1>3, StepNode DEF LibFile, Same
<1>4. CASE DeclOpcode
  BY <1>4, StepNode DEF DeclOpcode, Same
<1>5. CASE LangComp
  BY <1>5, StepNode DEF LangComp, session_vars, Same
<1>6. CASE CustomNode
  BY <1>6, StepNode DEF CustomNode, Same
<1>7. CASE Include
  BY <1>7, StepInclude
<1>8. CASE EndInclude
  BY <1>8, EndsInclude DEF EndInclude, session_vars, Same
<1>9. CASE Require
  <2>1. Walking("require") /\ AddRequire(Advanced, Node.n, <<RequireNode(Node.n)>>) /\ UNCHANGED <<src, disk>>
    BY <1>9 DEF Require
  <2>2. Onward(Advanced, Node) /\ Node.k = "require"
    BY <2>1, OnwardNode DEF Inv, Walking
  <2>3. QED
    BY <2>1, <2>2, StepRequire
<1>10. CASE LoadLib
  <2>1. Walking("loadlib") /\ AddLoadLib(Advanced, Node.n, <<LoadLibNode(Node.n)>>) /\ UNCHANGED <<src, disk>>
    BY <1>10 DEF LoadLib
  <2>2. Onward(Advanced, Node) /\ Node.k = "loadlib"
    BY <2>1, OnwardNode DEF Inv, Walking
  <2>3. QED
    BY <2>1, <2>2, StepLoadLib
<1>11. CASE EndFile
  <2>1. /\ calls # <<>> /\ Frame.what = "file" /\ Walked /\ UNCHANGED <<src, disk>>
        /\ Ended(Frame, edit, Serialize(Complete, progs[edit]), 2 * Len(progs[edit].code), Frame.keep)
    BY <1>11 DEF EndFile
  <2>2. QED
    BY <2>1, StepEnded DEF Finished
<1>12. CASE ImageLib
  <2>1. /\ calls # <<>> /\ Frame.what = "image" /\ LibsLeft /\ UNCHANGED <<src, disk>>
        /\ AddLoadLib([calls EXCEPT ![Len(calls)].lib = @ + 1], disk[Frame.name].libs[Frame.lib], <<>>)
    BY <1>12 DEF ImageLib
  <2>2. PICK x : x = LibEntry(Frame, Frame.lib)
    OBVIOUS
  <2>3. x.k = "loadlib" /\ x.n = disk[Frame.name].libs[Frame.lib]
    BY <2>2 DEF LibEntry
  <2>4. Onward([calls EXCEPT ![Len(calls)].lib = @ + 1], x)
    BY <2>1, <2>2, OnwardLib DEF Inv
  <2>5. QED
    BY <2>1, <2>3, <2>4, StepLoadLib
<1>13. CASE ImageRequire
  <2>1. /\ calls # <<>> /\ Frame.what = "image" /\ ~ LibsLeft /\ ReqsLeft /\ UNCHANGED <<src, disk>>
        /\ AddRequire([calls EXCEPT ![Len(calls)].req = @ + 1], disk[Frame.name].reqs[Frame.req], <<>>)
    BY <1>13 DEF ImageRequire
  <2>2. PICK x : x = ReqEntry(Frame, Frame.req)
    OBVIOUS
  <2>3. x.k = "require" /\ x.n = disk[Frame.name].reqs[Frame.req]
    BY <2>2 DEF ReqEntry
  <2>4. Onward([calls EXCEPT ![Len(calls)].req = @ + 1], x)
    BY <2>1, <2>2, OnwardRequire DEF Inv
  <2>5. QED
    BY <2>1, <2>3, <2>4, StepRequire
<1>14. CASE EndImage
  <2>1. /\ calls # <<>> /\ Frame.what = "image" /\ ~ LibsLeft /\ ~ ReqsLeft /\ UNCHANGED <<src, disk>>
        /\ Ended(Frame, Frame.id, Loaded(disk[Frame.name]), 0, result)
    BY <1>14 DEF EndImage
  <2>2. QED
    BY <2>1, StepEnded DEF Finished
<1>15. CASE CompileFile
  BY <1>15, StepCompile DEF CompileFile
<1>16. CASE LoadImage
  BY <1>16, StepOpen DEF LoadImage
<1>17. CASE Save
  BY <1>17, StepSave
<1>18. CASE RunForeground
  BY <1>18, StepUnchanged DEF RunForeground, Same
<1>19. CASE Interactive
  BY <1>19, StepCompile DEF Interactive
<1>20. CASE Evaluate
  BY <1>20, StepCompile DEF Evaluate
<1>21. CASE Fatal
  BY <1>21, StepUnchanged DEF Fatal, session_vars, Same
<1>22. CASE Restart
  BY <1>22, StepRestart
<1>23. CASE RejectLine
  BY <1>23, StepReject
<1>24. CASE UNCHANGED vars
  BY <1>24, StepUnchanged DEF vars, session_vars, Same
<1>25. QED
  BY <1>1, <1>2, <1>3, <1>4, <1>5, <1>6, <1>7, <1>8, <1>9, <1>10, <1>11, <1>12, <1>13,
     <1>14, <1>15, <1>16, <1>17, <1>18, <1>19, <1>20, <1>21, <1>22, <1>23, <1>24 DEF Next

-----------------------------------------------------------------------------

\* The calls under way, what they have asked for and what has run are always as
\* Inv says.
THEOREM CompilerInvariance == Spec => []Inv
<1>1. Init => Inv
  BY InitInv
<1>2. Inv /\ [Next]_vars => Inv'
  BY StepInv
<1>3. QED
  BY <1>1, <1>2, PTL DEF Spec

\* The program of a required file or of a library runs once in a process,
\* whoever asks for it and however the files require each other: vm->required
\* and vm->loadlibs are asked before and set after the program has run.
THEOREM RunsOnce == Spec => []RunOnce
<1>1. Inv => RunOnce
  BY DEF Inv
<1>2. QED
  BY <1>1, CompilerInvariance, PTL
=============================================================================
