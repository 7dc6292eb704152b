---------------------------- MODULE ThreadsProofs ----------------------------
(* Proofs about Threads, for every set of threads, mutexes, blockers and     *)
(* priorities and every set of opcodes.                                      *)
EXTENDS Threads, SequenceTheorems, FiniteSetTheorems, TLAPS

-----------------------------------------------------------------------------
(* Lists of threads: what the list operations do to the set they hold. *)

\* The empty list holds nobody.
LEMMA EmptyLists == <<>> \in Seq(Threads) /\ Lists(<<>>, {}) /\ Range(<<>>) = {}
BY DEF Lists, IsInjective, Range

\* Inserting at the tail a thread that is not in the list.
LEMMA AppendLists ==
  ASSUME NEW q \in Seq(Threads), NEW S, Lists(q, S), NEW t \in Threads, t \notin S
  PROVE  Append(q, t) \in Seq(Threads) /\ Lists(Append(q, t), S \cup {t})
<1>1. /\ Append(q, t) \in Seq(Threads)
      /\ Len(Append(q, t)) = Len(q) + 1
      /\ \A i \in 1 .. Len(q) : Append(q, t)[i] = q[i]
      /\ Append(q, t)[Len(q) + 1] = t
  BY AppendProperties
<1>2. DOMAIN q = 1 .. Len(q) /\ DOMAIN Append(q, t) = 1 .. (Len(q) + 1) /\ Len(q) \in Nat
  BY <1>1, LenProperties
<1>3. Range(q) = S /\ IsInjective(q)
  BY DEF Lists
<1>4. \A i \in 1 .. Len(q) : q[i] \in S
  BY <1>2, <1>3 DEF Range
<1>5. IsInjective(Append(q, t))
  BY <1>1, <1>2, <1>3, <1>4 DEF IsInjective
<1>6. Range(Append(q, t)) = S \cup {t}
  BY <1>1, <1>2, <1>3 DEF Range
<1> QED
  BY <1>1, <1>5, <1>6 DEF Lists

\* Concatenating two lists without a thread in common.
LEMMA ConcatLists ==
  ASSUME NEW q \in Seq(Threads), NEW r \in Seq(Threads), NEW S, NEW T,
         Lists(q, S), Lists(r, T), S \cap T = {}
  PROVE  q \o r \in Seq(Threads) /\ Lists(q \o r, S \cup T)
<1>1. /\ q \o r \in Seq(Threads)
      /\ Len(q \o r) = Len(q) + Len(r)
      /\ \A i \in 1 .. Len(q) + Len(r) :
           (q \o r)[i] = IF i <= Len(q) THEN q[i] ELSE r[i - Len(q)]
  BY ConcatProperties
<1>2. /\ DOMAIN q = 1 .. Len(q) /\ DOMAIN r = 1 .. Len(r)
      /\ DOMAIN (q \o r) = 1 .. (Len(q) + Len(r))
      /\ Len(q) \in Nat /\ Len(r) \in Nat
  BY <1>1, LenProperties
<1>3. \A i \in 1 .. Len(q) : q[i] \in S
  BY <1>2 DEF Lists, Range
<1>4. \A i \in 1 .. Len(r) : r[i] \in T
  BY <1>2 DEF Lists, Range
<1>5. IsInjective(q \o r)
  BY <1>1, <1>2, <1>3, <1>4 DEF Lists, IsInjective
<1>6. Range(q \o r) = S \cup T
  BY RangeConcatenation DEF Lists
<1> QED
  BY <1>1, <1>5, <1>6 DEF Lists

\* Taking the head of a list.
LEMMA HeadTailLists ==
  ASSUME NEW q \in Seq(Threads), NEW S, Lists(q, S), q # <<>>
  PROVE  /\ Head(q) \in S /\ Head(q) \in Threads
         /\ Tail(q) \in Seq(Threads) /\ Lists(Tail(q), S \ {Head(q)})
<1>1. /\ Head(q) = q[1] /\ Head(q) \in Threads
      /\ Tail(q) \in Seq(Threads)
      /\ Len(Tail(q)) = Len(q) - 1
      /\ \A i \in 1 .. Len(Tail(q)) : Tail(q)[i] = q[i + 1]
  BY HeadTailProperties
<1>2. /\ DOMAIN q = 1 .. Len(q) /\ Len(q) \in Nat \ {0}
      /\ DOMAIN Tail(q) = 1 .. (Len(q) - 1)
  BY <1>1, LenProperties, EmptySeq
<1>3. IsInjective(q) /\ Range(q) = S
  BY DEF Lists
<1>4. Head(q) \in S
  BY <1>1, <1>2, <1>3 DEF Range
<1>5. IsInjective(Tail(q))
  BY <1>1, <1>2, <1>3 DEF IsInjective
<1>6. Range(Tail(q)) = S \ {Head(q)}
  <2>1. \A x \in Range(Tail(q)) : x \in S \ {Head(q)}
    BY <1>1, <1>2, <1>3 DEF IsInjective, Range
  <2>2. ASSUME NEW x \in S \ {Head(q)} PROVE x \in Range(Tail(q))
    <3>1. PICK i \in 1 .. Len(q) : q[i] = x
      BY <1>2, <1>3 DEF Range
    <3>2. i - 1 \in 1 .. Len(Tail(q)) /\ Tail(q)[i - 1] = x
      BY <1>1, <1>2, <3>1
    <3> QED
      BY <1>1, <1>2, <3>2 DEF Range
  <2> QED
    BY <2>1, <2>2
<1> QED
  BY <1>1, <1>4, <1>5, <1>6 DEF Lists

\* dlist_remove_no_free takes exactly the thread it is given out of a list.
LEMMA WithoutLists ==
  ASSUME NEW q \in Seq(Threads), NEW S, Lists(q, S), NEW t
  PROVE  Without(q, t) \in Seq(Threads) /\ Lists(Without(q, t), S \ {t})
<1>1. CASE t \notin Range(q)
  BY <1>1 DEF Without, Lists
<1>2. CASE t \in Range(q)
  <2> DEFINE n == Len(q)
             i == CHOOSE k \in DOMAIN q : q[k] = t
             a == SubSeq(q, 1, i - 1)
             b == SubSeq(q, i + 1, n)
             w == a \o b
  <2>1. Without(q, t) = w
    BY <1>2 DEF Without
  <2>2. DOMAIN q = 1 .. n /\ n \in Nat /\ i \in 1 .. n /\ q[i] = t
    BY <1>2, LenProperties DEF Range
  <2> HIDE DEF i, n
  <2>9. \A k \in 1 .. n : q[k] \in Threads
    BY <2>2, ElementOfSeq DEF n
  <2>3. /\ a \in Seq(Threads) /\ Len(a) = i - 1
        /\ \A k \in 1 .. i - 1 : a[k] = q[k]
    <3>1. 1 \in Int /\ i - 1 \in Int /\ \A k \in 1 .. i - 1 : q[k] \in Threads
      BY <2>2, <2>9
    <3>2. /\ a \in Seq(Threads) /\ Len(a) = IF 1 <= i - 1 THEN i - 1 - 1 + 1 ELSE 0
          /\ \A k \in 1 .. i - 1 - 1 + 1 : a[k] = q[1 + k - 1]
      BY <3>1, SubSeqProperties
    <3> QED
      BY <2>2, <3>2
  <2>4. /\ b \in Seq(Threads) /\ Len(b) = n - i
        /\ \A k \in 1 .. n - i : b[k] = q[i + k]
    <3>1. i + 1 \in Int /\ n \in Int /\ \A k \in i + 1 .. n : q[k] \in Threads
      BY <2>2, <2>9
    <3>2. /\ b \in Seq(Threads) /\ Len(b) = IF i + 1 <= n THEN n - (i + 1) + 1 ELSE 0
          /\ \A k \in 1 .. n - (i + 1) + 1 : b[k] = q[i + 1 + k - 1]
      BY <3>1, SubSeqProperties
    <3> QED
      BY <2>2, <3>2
  <2> HIDE DEF a, b
  <2>5. /\ w \in Seq(Threads) /\ Len(w) = n - 1
        /\ \A k \in 1 .. n - 1 : w[k] = IF k < i THEN q[k] ELSE q[k + 1]
    <3>1. /\ w \in Seq(Threads) /\ Len(w) = Len(a) + Len(b)
          /\ \A k \in 1 .. Len(a) + Len(b) : w[k] = IF k <= Len(a) THEN a[k] ELSE b[k - Len(a)]
      BY <2>3, <2>4, ConcatProperties
    <3> HIDE DEF w
    <3>2. Len(a) + Len(b) = n - 1
      BY <2>2, <2>3, <2>4
    <3>3. ASSUME NEW k \in 1 .. n - 1
          PROVE  w[k] = IF k < i THEN q[k] ELSE q[k + 1]
      <4>1. CASE k < i
        <5>1. k \in 1 .. Len(a) + Len(b) /\ k <= Len(a) /\ k \in 1 .. i - 1
          BY <2>2, <2>3, <3>2, <4>1
        <5>2. w[k] = a[k]
          BY <3>1, <5>1
        <5> QED
          BY <2>3, <4>1, <5>1, <5>2
      <4>2. CASE ~(k < i)
        <5>1. k - Len(a) \in 1 .. n - i /\ ~(k <= Len(a)) /\ i + (k - Len(a)) = k + 1
          BY <2>2, <2>3, <4>2
        <5>2. w[k] = b[k - Len(a)]
          BY <3>1, <3>2, <5>1
        <5> QED
          BY <2>4, <4>2, <5>1, <5>2
      <4> QED
        BY <4>1, <4>2
    <3> QED
      BY <3>1, <3>2, <3>3
  <2> HIDE DEF w
  <2>6. DOMAIN w = 1 .. n - 1
    BY <2>2, <2>5, LenProperties
  <2>10. \A j, k \in 1 .. n : q[j] = q[k] => j = k
    BY <2>2 DEF Lists, IsInjective
  <2>11. \A k \in 1 .. n - 1 :
          \E j \in 1 .. n : /\ w[k] = q[j] /\ j # i
                           /\ j = IF k < i THEN k ELSE k + 1
    BY <2>2, <2>5
  <2>7. IsInjective(w)
    <3>1. ASSUME NEW j \in 1 .. n - 1, NEW k \in 1 .. n - 1, w[j] = w[k]
          PROVE  j = k
      <4>1. PICK jj \in 1 .. n : w[j] = q[jj] /\ jj = IF j < i THEN j ELSE j + 1
        BY <2>11
      <4>2. PICK kk \in 1 .. n : w[k] = q[kk] /\ kk = IF k < i THEN k ELSE k + 1
        BY <2>11
      <4>3. jj = kk
        BY <2>10, <3>1, <4>1, <4>2
      <4> QED
        BY <2>2, <4>1, <4>2, <4>3
    <3> QED
      BY <2>6, <3>1 DEF IsInjective
  <2>8. Range(w) = S \ {t}
    <3>1. ASSUME NEW x \in Range(w) PROVE x \in S \ {t}
      <4>1. PICK k \in 1 .. n - 1 : w[k] = x
        BY <2>6 DEF Range
      <4>2. PICK j \in 1 .. n : x = q[j] /\ j # i
        BY <2>11, <4>1
      <4>3. x # t
        BY <2>2, <2>10, <4>2
      <4> QED
        BY <2>2, <4>2, <4>3 DEF Lists, Range
    <3>2. ASSUME NEW x \in S \ {t} PROVE x \in Range(w)
      <4>1. PICK k \in 1 .. n : q[k] = x
        BY <2>2 DEF Lists, Range
      <4>2. CASE k < i
        BY <2>2, <2>5, <2>6, <4>1, <4>2 DEF Range
      <4>3. CASE k > i
        <5>1. k - 1 \in 1 .. n - 1 /\ w[k - 1] = x
          BY <2>2, <2>5, <4>1, <4>3
        <5> QED
          BY <2>6, <5>1 DEF Range
      <4> QED
        BY <2>2, <4>1, <4>2, <4>3
    <3> QED
      BY <3>1, <3>2
  <2> QED
    BY <2>1, <2>5, <2>7, <2>8 DEF Lists
<1> QED
  BY <1>1, <1>2

\* A list of threads holds threads.
LEMMA RangeInThreads ==
  ASSUME NEW q \in Seq(Threads)
  PROVE  Range(q) \subseteq Threads
BY LenProperties, ElementOfSeq DEF Range

\* Inserting at the head a thread that is not in the list.
LEMMA PrependLists ==
  ASSUME NEW q \in Seq(Threads), NEW S, Lists(q, S), NEW t \in Threads, t \notin S
  PROVE  <<t>> \o q \in Seq(Threads) /\ Lists(<<t>> \o q, S \cup {t})
<1>1. <<t>> \in Seq(Threads) /\ Lists(<<t>>, {t})
  BY DEF Lists, IsInjective, Range
<1>2. {t} \cap S = {} /\ {t} \cup S = S \cup {t}
  OBVIOUS
<1>3. <<t>> \o q \in Seq(Threads) /\ Lists(<<t>> \o q, {t} \cup S)
  BY <1>1, <1>2, ConcatLists
<1> QED
  BY <1>2, <1>3

-----------------------------------------------------------------------------
(* The inductive invariant: the invariants hold one another up.  A wake-up   *)
(* keeps the ready list right only if the waiting lists are, a lock keeps    *)
(* the waiting lists right only if what executes is running, and so on.      *)

Inv == /\ TypeOK
       /\ CurrentRuns
       /\ RunListsAgree
       /\ WaitListsAgree
       /\ NoLostWakeup
       /\ JoinMutexHeld
       /\ CountAgrees

\* The ready list rdy agrees with the thread states st.
ReadyListsFor(rdy, st) ==
  \A p \in Prios : Lists(rdy[p], {t \in Threads : st[t] = "Ready" /\ prio[t] = p})

\* Nobody waits for anything at the start.
LEMMA InitInv == Init => Inv
<1> SUFFICES ASSUME Init PROVE Inv
  OBVIOUS
<1>1. NoThreads \in Queues /\ Members(NoThreads) = {}
  BY EmptyLists DEF Queues, NoThreads, Members
<1>2. TypeOK
  BY <1>1, EmptyLists, ConstantsAssumption
     DEF Init, TypeOK, States, Schedulers
<1>3. CurrentRuns
  BY DEF Init, CurrentRuns
<1>4. RunListsAgree
  BY EmptyLists DEF Init, RunListsAgree, NoThreads
<1>5. WaitListsAgree
  <2>1. \A t \in Threads : prio[t] \in Prios /\ tstate[t] = "None"
    BY <1>2 DEF Init, TypeOK
  <2>2. \A x \in WaitPlaces, p \in Prios : pending[x][p] = <<>>
    BY DEF Init, NoThreads
  <2>3. \A x \in WaitPlaces, p \in Prios :
          IsInjective(pending[x][p]) /\ Range(pending[x][p]) = {}
    BY <2>2, EmptyLists DEF Lists
  <2> QED
    BY <2>1, <2>3 DEF WaitListsAgree, WaitsIn
<1>6. NoLostWakeup
  BY <1>1, ConstantsAssumption DEF Init, NoLostWakeup, WaitPlaces
<1>7. JoinMutexHeld
  BY DEF Init, JoinMutexHeld, Live, Locks
<1>8. CountAgrees
  <2>1. Live = {}
    BY DEF Init, Live
  <2> QED
    BY <2>1, FS_EmptySet DEF Init, CountAgrees
<1> QED
  BY <1>2, <1>3, <1>4, <1>5, <1>6, <1>7, <1>8 DEF Inv

\* Blocking the running thread t: it leaves the running list and enters, in
\* the place of its priority, the waiting list of x.
LEMMA BlockLists ==
  ASSUME TypeOK, RunListsAgree, WaitListsAgree,
         NEW t \in Threads, tstate[t] = "Running", NEW x \in WaitPlaces,
         NEW q \in Seq(Threads), Lists(q, Range(pending[x][prio[t]]) \cup {t}),
         tstate' = [tstate EXCEPT ![t] = "Blocked"],
         running' = Without(running, t),
         pending' = [pending EXCEPT ![x][prio[t]] = q],
         UNCHANGED <<ready, prio>>
  PROVE  /\ tstate' \in [Threads -> States] /\ running' \in Seq(Threads)
         /\ pending' \in [WaitPlaces -> Queues]
         /\ RunListsAgree' /\ WaitListsAgree'
<1>1. tstate' \in [Threads -> States] /\ prio[t] \in Prios
  BY DEF TypeOK, States
<1>2. running' \in Seq(Threads) /\ Lists(running', {u \in Threads : tstate[u] = "Running"} \ {t})
  BY WithoutLists DEF TypeOK, RunListsAgree
<1>3. pending' \in [WaitPlaces -> Queues]
  BY <1>1 DEF TypeOK, Queues
<1>4. /\ \A u \in Threads : tstate'[u] = IF u = t THEN "Blocked" ELSE tstate[u]
      /\ \A y \in WaitPlaces, p \in Prios :
           pending'[y][p] = IF y = x /\ p = prio[t] THEN q ELSE pending[y][p]
  BY <1>1 DEF TypeOK, Queues
<1>5. RunListsAgree'
  <2>1. {u \in Threads : tstate'[u] = "Running"} = {u \in Threads : tstate[u] = "Running"} \ {t}
    BY <1>4
  <2>2. \A p \in Prios : {u \in Threads : tstate'[u] = "Ready" /\ prio'[u] = p}
                       = {u \in Threads : tstate[u] = "Ready" /\ prio[u] = p}
    BY <1>4
  <2> QED
    BY <1>2, <2>1, <2>2 DEF RunListsAgree
<1>6. WaitListsAgree'
  <2>1. /\ prio[t] \in Prios /\ pending'[x][prio[t]] = q
        /\ IsInjective(q) /\ Range(q) = Range(pending[x][prio[t]]) \cup {t}
    BY <1>1, <1>4 DEF Lists
  <2>2. ASSUME NEW y \in WaitPlaces, NEW p \in Prios, ~(y = x /\ p = prio[t])
        PROVE  pending'[y][p] = pending[y][p]
    BY <1>4, <2>2
  <2>3. \A y \in WaitPlaces, p \in Prios : IsInjective(pending'[y][p])
    BY <2>1, <2>2 DEF WaitListsAgree
  <2>4. \A y \in WaitPlaces, p \in Prios, u \in Threads :
          u \in Range(pending'[y][p]) <=>
            u \in Range(pending[y][p]) \/ (u = t /\ y = x /\ p = prio[t])
    BY <2>1, <2>2
  <2>5. \A y \in WaitPlaces, p \in Prios : Range(pending'[y][p]) \subseteq Threads
    BY <1>3, RangeInThreads DEF Queues
  <2>6. ASSUME NEW y \in WaitPlaces, NEW p \in Prios, NEW u \in Range(pending'[y][p])
        PROVE  tstate'[u] = "Blocked" /\ prio'[u] = p
    <3>1. u \in Threads
      BY <2>5
    <3>2. CASE u \in Range(pending[y][p])
      BY <1>4, <3>1, <3>2 DEF WaitListsAgree
    <3>3. CASE u = t /\ p = prio[t]
      BY <1>4, <3>3
    <3> QED
      BY <2>4, <3>1, <3>2, <3>3
  <2>7. \A u \in Threads, y \in WaitPlaces :
          WaitsIn(u, y)' <=> WaitsIn(u, y) \/ (u = t /\ y = x)
    BY <2>4 DEF WaitsIn, TypeOK
  <2>8. ~ \E y \in WaitPlaces : WaitsIn(t, y)
    BY <2>1 DEF WaitListsAgree, WaitsIn
  <2>9. \A u \in Threads : tstate'[u] = "Blocked" => \E y \in WaitPlaces : WaitsIn(u, y)'
    BY <1>4, <2>7 DEF WaitListsAgree
  <2>10. \A u \in Threads, y, z \in WaitPlaces : WaitsIn(u, y)' /\ WaitsIn(u, z)' => y = z
    BY <2>7, <2>8 DEF WaitListsAgree
  <2> QED
    BY <2>3, <2>6, <2>9, <2>10 DEF WaitListsAgree
<1> QED
  BY <1>1, <1>2, <1>3, <1>5, <1>6

\* Waking every thread that waits in x: the ready list rdy, which agrees with
\* the thread states st, takes them in, and they wait nowhere any more.
LEMMA WakeLists ==
  ASSUME TypeOK, WaitListsAgree, NEW x \in WaitPlaces,
         NEW st \in [Threads -> States], NEW rdy \in Queues, ReadyListsFor(rdy, st),
         \A u \in Threads : st[u] = "Blocked" <=> tstate[u] = "Blocked",
         tstate' = Woken(pending[x], st), ready' = InsertAll(rdy, pending[x]),
         pending' = [pending EXCEPT ![x] = NoThreads], UNCHANGED prio
  PROVE  /\ tstate' \in [Threads -> States] /\ ready' \in Queues
         /\ pending' \in [WaitPlaces -> Queues]
         /\ ReadyListsFor(ready, tstate)' /\ WaitListsAgree'
         /\ \A u \in Threads : tstate'[u] = st[u] \/ (st[u] = "Blocked" /\ tstate'[u] = "Ready")
<1>1. \A y \in WaitPlaces, p \in Prios :
        /\ pending[y][p] \in Seq(Threads) /\ Range(pending[y][p]) \subseteq Threads
        /\ IsInjective(pending[y][p])
        /\ \A u \in Range(pending[y][p]) : tstate[u] = "Blocked" /\ prio[u] = p
  BY RangeInThreads DEF TypeOK, Queues, WaitListsAgree
<1>2. \A u \in Threads : prio[u] \in Prios /\ (u \in Members(pending[x]) <=> WaitsIn(u, x))
  BY <1>1 DEF TypeOK, Members, WaitsIn
<1>3. \A u \in Threads : tstate'[u] = IF WaitsIn(u, x) THEN "Ready" ELSE st[u]
  BY <1>2 DEF Woken
<1>4. tstate' \in [Threads -> States]
  BY DEF Woken, States
<1>5. \A u \in Threads : WaitsIn(u, x) => tstate[u] = "Blocked" /\ st[u] = "Blocked"
  BY <1>1, <1>2 DEF WaitsIn
<1>6. ASSUME NEW p \in Prios
      PROVE  /\ ready'[p] \in Seq(Threads)
             /\ Lists(ready'[p], {u \in Threads : tstate'[u] = "Ready" /\ prio'[u] = p})
  <2> DEFINE S == {u \in Threads : st[u] = "Ready" /\ prio[u] = p}
             T == Range(pending[x][p])
  <2>1. ready'[p] = rdy[p] \o pending[x][p]
    BY DEF InsertAll
  <2>2. rdy[p] \in Seq(Threads) /\ Lists(rdy[p], S)
    BY DEF Queues, ReadyListsFor
  <2>3. pending[x][p] \in Seq(Threads) /\ Lists(pending[x][p], T)
    BY <1>1 DEF Lists
  <2>4. \A u \in T : u \in Threads /\ st[u] = "Blocked" /\ prio[u] = p /\ WaitsIn(u, x)
    BY <1>1 DEF WaitsIn
  <2>5. S \cap T = {}
    BY <2>4
  <2>6. S \cup T = {u \in Threads : tstate'[u] = "Ready" /\ prio'[u] = p}
    BY <1>3, <2>4 DEF WaitsIn
  <2> HIDE DEF S, T
  <2> QED
    BY <2>1, <2>2, <2>3, <2>5, <2>6, ConcatLists
<1>7. ready' \in Queues
  BY <1>6 DEF InsertAll, Queues
<1>8. /\ \A p \in Prios : pending'[x][p] = <<>>
      /\ \A y \in WaitPlaces : y # x => pending'[y] = pending[y]
  BY DEF TypeOK, NoThreads
<1>9. pending' \in [WaitPlaces -> Queues]
  BY EmptyLists DEF TypeOK, Queues, NoThreads
<1>10. \A u \in Threads, y \in WaitPlaces : WaitsIn(u, y)' <=> WaitsIn(u, y) /\ y # x
  BY <1>2, <1>8, EmptyLists DEF WaitsIn
<1>11. WaitListsAgree'
  <2>1. \A y \in WaitPlaces, p \in Prios :
          /\ IsInjective(pending'[y][p])
          /\ \A u \in Range(pending'[y][p]) : u \in Range(pending[y][p]) /\ y # x
    BY <1>1, <1>8, EmptyLists DEF Lists
  <2>2. \A y \in WaitPlaces, p \in Prios : \A u \in Range(pending'[y][p]) :
          u \in Threads /\ tstate[u] = "Blocked" /\ prio[u] = p /\ y # x /\ WaitsIn(u, y)
    BY <1>1, <2>1 DEF WaitsIn
  <2>3. \A u \in Threads, y \in WaitPlaces :
          WaitsIn(u, y) /\ y # x => ~WaitsIn(u, x)
    BY DEF WaitListsAgree
  <2>4. \A y \in WaitPlaces, p \in Prios : \A u \in Range(pending'[y][p]) :
          tstate'[u] = "Blocked" /\ prio'[u] = p
    BY <1>3, <2>2, <2>3
  <2>5. \A u \in Threads : tstate'[u] = "Blocked" => tstate[u] = "Blocked" /\ ~WaitsIn(u, x)
    BY <1>3
  <2>6. \A u \in Threads : tstate'[u] = "Blocked" => \E y \in WaitPlaces : WaitsIn(u, y)'
    BY <1>10, <2>5 DEF WaitListsAgree
  <2>7. \A u \in Threads, y, z \in WaitPlaces : WaitsIn(u, y)' /\ WaitsIn(u, z)' => y = z
    BY <1>10 DEF WaitListsAgree
  <2> QED
    BY <2>1, <2>4, <2>6, <2>7 DEF WaitListsAgree
<1> QED
  BY <1>3, <1>4, <1>5, <1>6, <1>7, <1>9, <1>11 DEF ReadyListsFor

-----------------------------------------------------------------------------
(* The steps.  First the ones that leave the lists and the locks alone.      *)

\* The thread that _sched_rr turns to is a running one.
LEMMA CandidateRuns ==
  ASSUME TypeOK, RunListsAgree, Candidate # NULL
  PROVE  Candidate \in Threads /\ tstate[Candidate] = "Running"
<1>1. /\ running \in Seq(Threads) /\ DOMAIN running = 1 .. Len(running) /\ Len(running) \in Nat
      /\ \A i \in 1 .. Len(running) : running[i] \in Threads /\ tstate[running[i]] = "Running"
  <2>1. running \in Seq(Threads) /\ Range(running) = {t \in Threads : tstate[t] = "Running"}
    BY DEF TypeOK, RunListsAgree, Lists
  <2>2. DOMAIN running = 1 .. Len(running) /\ Len(running) \in Nat
    BY <2>1, LenProperties
  <2> QED
    BY <2>1, <2>2 DEF Range
<1>2. running # <<>> /\ 1 \in 1 .. Len(running)
  BY <1>1, EmptySeq DEF Candidate
<1>3. CASE current # NULL /\ tstate[current] = "Running"
  <2>1. current \in Range(running)
    BY <1>3 DEF TypeOK, RunListsAgree, Lists
  <2> DEFINE i == CHOOSE k \in DOMAIN running : running[k] = current
  <2>2. i \in 1 .. Len(running)
    BY <1>1, <2>1 DEF Range
  <2>3. Candidate = IF i < Len(running) THEN running[i + 1] ELSE running[1]
    BY <1>2, <1>3 DEF Candidate, Successor
  <2> HIDE DEF i
  <2> QED
    BY <1>1, <1>2, <2>2, <2>3
<1>4. CASE ~(current # NULL /\ tstate[current] = "Running")
  BY <1>1, <1>2, <1>4 DEF Candidate
<1> QED
  BY <1>3, <1>4

\* The invariants of lists and locks depend on these variables only.
LEMMA SameLists ==
  ASSUME Inv, TypeOK', CurrentRuns', UNCHANGED <<threadVars, lockVars, countVars>>
  PROVE  Inv'
<1>1. Live' = Live
  BY DEF Live, threadVars
<1>2. RunListsAgree' /\ WaitListsAgree'
  BY DEF Inv, RunListsAgree, WaitListsAgree, WaitsIn, threadVars, lockVars
<1>3. NoLostWakeup' /\ JoinMutexHeld' /\ CountAgrees'
  BY <1>1 DEF Inv, NoLostWakeup, JoinMutexHeld, CountAgrees, lockVars, countVars
<1> QED
  BY <1>2, <1>3 DEF Inv

LEMMA ScheduleKeepInv == ASSUME Inv, ScheduleKeep PROVE Inv'
<1>1. current \in Threads /\ tstate[current] = "Running"
  BY DEF Inv, TypeOK, ScheduleKeep, Keeps
<1>2. remaining' \in [Threads -> Nat]
  BY <1>1 DEF Inv, TypeOK, ScheduleKeep, OneLess
<1>3. TypeOK'
  BY <1>2 DEF Inv, TypeOK, ScheduleKeep, threadVars, lockVars, countVars, insnVars
<1>4. CurrentRuns'
  BY <1>1 DEF ScheduleKeep, threadVars, CurrentRuns, Keeps
<1> QED
  BY <1>3, <1>4, SameLists DEF ScheduleKeep

LEMMA ScheduleRunningInv == ASSUME Inv, ScheduleRunning PROVE Inv'
<1>1. Candidate \in Threads /\ tstate[Candidate] = "Running" /\ Candidate # NULL
  BY CandidateRuns DEF Inv, ScheduleRunning
<1>2. remaining' \in [Threads -> Nat]
  BY <1>1 DEF Inv, TypeOK, ScheduleRunning, OneLess
<1>3. TypeOK'
  BY <1>1, <1>2 DEF Inv, TypeOK, ScheduleRunning, threadVars, lockVars, countVars, insnVars
<1>4. CurrentRuns'
  BY <1>1 DEF ScheduleRunning, threadVars, CurrentRuns
<1> QED
  BY <1>3, <1>4, SameLists DEF ScheduleRunning

LEMMA ScheduleNoneInv == ASSUME Inv, ScheduleNone PROVE Inv'
<1>1. TypeOK'
  BY DEF Inv, TypeOK, ScheduleNone, threadVars, lockVars, countVars, insnVars
<1>2. CurrentRuns'
  BY DEF ScheduleNone, CurrentRuns, Cycling
<1> QED
  BY <1>1, <1>2, SameLists DEF ScheduleNone

\* What executes is a running thread, and no thread runs in phase "sched".
LEMMA ExecutesRuns ==
  ASSUME Inv, NEW op, Executes(op)
  PROVE  /\ current \in Threads /\ current # NULL /\ tstate[current] = "Running"
         /\ prio[current] \in Prios /\ phase' = "sched"
BY DEF Inv, TypeOK, CurrentRuns, Executes

LEMMA SetTimesliceInv == ASSUME Inv, SetTimeslice PROVE Inv'
<1>1. timeslice' \in Nat \ {0}
  BY ConstantsAssumption DEF Inv, TypeOK, SetTimeslice, Accept
<1>2. TypeOK' /\ CurrentRuns'
  BY <1>1, ExecutesRuns
     DEF Inv, TypeOK, CurrentRuns, SetTimeslice, threadVars, lockVars, countVars, insnVars
<1> QED
  BY <1>2, SameLists DEF SetTimeslice

LEMMA OtherInv == ASSUME Inv, Other PROVE Inv'
<1>1. TypeOK' /\ CurrentRuns'
  BY ExecutesRuns DEF Inv, TypeOK, CurrentRuns, Other, threadVars, schedVars, lockVars,
     countVars, insnVars
<1> QED
  BY <1>1, SameLists DEF Other

-----------------------------------------------------------------------------
(* Locks.                                                                    *)

\* Members of the waiting lists are threads.
LEMMA MembersAreThreads ==
  ASSUME TypeOK, NEW x \in WaitPlaces
  PROVE  Members(pending[x]) \subseteq Threads
BY RangeInThreads DEF TypeOK, Queues, Members

\* A thread that blocks on a lock of somebody else.
LEMMA BlockOnInv ==
  ASSUME Inv, NEW l \in Locks, current \in Threads, current # NULL,
         tstate[current] = "Running", phase' = "sched",
         ~Free(l, current), BlockOn(l, current),
         pending_lock' \in [Threads -> Locks \cup {NULL}],
         insn' \in [Threads -> {"any", "lockMtx", "lockMtx_Int", "joinThread"}],
         UNCHANGED <<remaining, crit, timeslice, countVars>>
  PROVE  Inv'
<1> DEFINE t == current
           Q == pending[l][prio[t]]
           q == Append(Q, t)
<1>1. l \in WaitPlaces /\ prio[t] \in Prios /\ Q \in Seq(Threads)
      /\ IsInjective(Q) /\ t \notin Range(Q)
  BY DEF Inv, TypeOK, WaitPlaces, Queues, WaitListsAgree
<1>2. q \in Seq(Threads) /\ Lists(q, Range(Q) \cup {t})
  <2>1. Lists(Q, Range(Q))
    BY <1>1 DEF Lists
  <2> HIDE DEF Q
  <2> QED
    BY <1>1, <2>1, AppendLists
<1>3. pending' = [pending EXCEPT ![l][prio[t]] = q]
  BY DEF BlockOn, Insert
<1> HIDE DEF q
<1>4. /\ tstate' \in [Threads -> States] /\ running' \in Seq(Threads)
      /\ pending' \in [WaitPlaces -> Queues] /\ RunListsAgree' /\ WaitListsAgree'
  BY <1>1, <1>2, <1>3, BlockLists DEF Inv, BlockOn
<1>5. TypeOK'
  BY <1>4 DEF Inv, TypeOK, BlockOn, countVars
<1>6. CurrentRuns'
  BY DEF BlockOn, CurrentRuns
<1>7. Live' = Live
  BY DEF Inv, TypeOK, BlockOn, Live
<1>8. NoLostWakeup'
  <2>1. \A y \in Locks : y # l => pending'[y] = pending[y]
    BY DEF BlockOn
  <2>2. Members(pending'[l]) \subseteq Members(pending[l]) \cup {t}
    <3>1. \A p \in Prios : Range(pending'[l][p]) \subseteq Range(pending[l][p]) \cup {t}
      BY <1>1, <1>2, <1>3 DEF Inv, TypeOK, Queues, Lists
    <3> QED
      BY <3>1 DEF Members
  <2>3. owner[l] # NULL /\ owner[l] # t /\ UNCHANGED <<owner, count>>
    BY DEF Free, BlockOn
  <2> QED
    BY <2>1, <2>2, <2>3 DEF Inv, NoLostWakeup
<1>9. JoinMutexHeld' /\ CountAgrees'
  BY <1>7 DEF Inv, JoinMutexHeld, CountAgrees, BlockOn, countVars
<1> QED
  BY <1>4, <1>5, <1>6, <1>8, <1>9 DEF Inv

\* A thread that takes a mutex that is free or its own.
LEMMA GrantInv ==
  ASSUME Inv, NEW m \in Mutexes, current \in Threads, current # NULL,
         tstate[current] = "Running", phase' = "sched",
         Free(m, current), Grant(m, current),
         pending_lock' \in [Threads -> Locks \cup {NULL}],
         insn' \in [Threads -> {"any", "lockMtx", "lockMtx_Int", "joinThread"}],
         UNCHANGED <<threadVars, current, remaining, crit, timeslice, countVars>>
  PROVE  Inv'
<1>1. m \in Locks /\ m \notin Threads
  BY ConstantsAssumption DEF Locks
<1>2. /\ \A l \in Locks : owner'[l] = IF l = m THEN current ELSE owner[l]
      /\ \A l \in Locks : count'[l] = IF l = m THEN count[l] + 1 ELSE count[l]
      /\ owner' \in [Locks -> Threads \cup {NULL}] /\ count' \in [Locks -> Nat]
  BY <1>1 DEF Grant, Inv, TypeOK
<1>3. TypeOK'
  BY <1>2 DEF Inv, TypeOK, Grant, threadVars, countVars
<1>4. /\ CurrentRuns' /\ Live' = Live
      /\ RunListsAgree' /\ WaitListsAgree'
  <2>1. CurrentRuns' /\ Live' = Live
    BY DEF CurrentRuns, Live, threadVars
  <2>2. UNCHANGED <<tstate, prio, ready, running, pending>> /\ RunListsAgree /\ WaitListsAgree
    BY DEF Inv, Grant, threadVars
  <2>3. RunListsAgree'
    BY <2>2 DEF RunListsAgree
  <2>4. WaitListsAgree'
    BY <2>2 DEF WaitListsAgree, WaitsIn
  <2> QED
    BY <2>1, <2>3, <2>4
<1>5. NoLostWakeup'
  <2>1. current \notin Members(pending[m])
    BY <1>1 DEF Inv, WaitListsAgree, Members, WaitPlaces
  <2>2. count[m] + 1 # 0
    BY <1>1 DEF Inv, TypeOK
  <2> QED
    BY <1>1, <1>2, <2>1, <2>2 DEF Inv, NoLostWakeup, Grant
<1>6. JoinMutexHeld' /\ CountAgrees'
  BY <1>1, <1>2, <1>4 DEF Inv, JoinMutexHeld, CountAgrees, countVars, Locks
<1> QED
  BY <1>3, <1>4, <1>5, <1>6 DEF Inv

LEMMA LockMtxInv == ASSUME Inv, LockMtx PROVE Inv'
<1>1. current \in Threads /\ current # NULL /\ tstate[current] = "Running" /\ phase' = "sched"
  BY ExecutesRuns DEF LockMtx
<1>2. PICK m \in Mutexes :
        \/ /\ Free(m, current) /\ Grant(m, current)
           /\ pending_lock' = [pending_lock EXCEPT ![current] = NULL]
           /\ Advance
           /\ UNCHANGED <<threadVars, current>>
        \/ /\ ~Free(m, current)
           /\ BlockOn(m, current)
           /\ pending_lock' = [pending_lock EXCEPT ![current] = m]
           /\ insn' = [insn EXCEPT ![current] = "lockMtx"]
  BY DEF LockMtx
<1>3. /\ m \in Locks /\ pending_lock' \in [Threads -> Locks \cup {NULL}]
      /\ insn' \in [Threads -> {"any", "lockMtx", "lockMtx_Int", "joinThread"}]
  <2>1. m \in Locks
    BY DEF Locks
  <2>2. /\ pending_lock \in [Threads -> Locks \cup {NULL}]
        /\ insn \in [Threads -> {"any", "lockMtx", "lockMtx_Int", "joinThread"}]
    BY DEF Inv, TypeOK
  <2>3. \/ pending_lock' = [pending_lock EXCEPT ![current] = NULL]
        \/ pending_lock' = [pending_lock EXCEPT ![current] = m]
    BY <1>2, Zenon
  <2>4. \/ insn' = [insn EXCEPT ![current] = "any"]
        \/ insn' = [insn EXCEPT ![current] = "lockMtx"]
    BY <1>2, Zenon DEF Advance
  <2>5. pending_lock' \in [Threads -> Locks \cup {NULL}]
    BY <2>1, <2>2, <2>3
  <2>6. insn' \in [Threads -> {"any", "lockMtx", "lockMtx_Int", "joinThread"}]
    BY <2>2, <2>4
  <2> QED
    BY <2>1, <2>5, <2>6
<1>4. UNCHANGED <<remaining, crit, timeslice, countVars>>
  BY DEF LockMtx
<1>5. CASE Free(m, current) /\ Grant(m, current) /\ UNCHANGED <<threadVars, current>>
  BY <1>1, <1>3, <1>4, <1>5, GrantInv
<1>6. CASE ~Free(m, current) /\ BlockOn(m, current)
  BY <1>1, <1>3, <1>4, <1>6, BlockOnInv
<1> QED
  BY <1>2, <1>5, <1>6

LEMMA LockMtxIntInv == ASSUME Inv, LockMtxInt PROVE Inv'
<1>1. current \in Threads /\ current # NULL /\ tstate[current] = "Running" /\ phase' = "sched"
  BY ExecutesRuns DEF LockMtxInt
<1>2. PICK m \in Mutexes :
        \/ /\ Free(m, current) /\ Grant(m, current)
           /\ Advance
           /\ UNCHANGED <<threadVars, current>>
        \/ /\ ~Free(m, current)
           /\ BlockOn(m, current)
           /\ insn' = [insn EXCEPT ![current] = "lockMtx_Int"]
  BY DEF LockMtxInt
<1>3. /\ m \in Locks /\ pending_lock' \in [Threads -> Locks \cup {NULL}]
      /\ insn' \in [Threads -> {"any", "lockMtx", "lockMtx_Int", "joinThread"}]
  BY <1>2 DEF LockMtxInt, Locks, Inv, TypeOK, Advance
<1>4. UNCHANGED <<remaining, crit, timeslice, countVars>>
  BY DEF LockMtxInt
<1>5. CASE Free(m, current) /\ Grant(m, current) /\ UNCHANGED <<threadVars, current>>
  BY <1>1, <1>3, <1>4, <1>5, GrantInv
<1>6. CASE ~Free(m, current) /\ BlockOn(m, current)
  BY <1>1, <1>3, <1>4, <1>6, BlockOnInv
<1> QED
  BY <1>2, <1>5, <1>6

\* mutex_unlock: what it leaves in the lists and in the lock, when st and rdy
\* are the thread states and the ready list it starts from.
LEMMA UnlockLists ==
  ASSUME TypeOK, WaitListsAgree, NoLostWakeup, NEW l \in Locks, NEW t \in Threads,
         NEW st \in [Threads -> States], NEW rdy \in Queues, ReadyListsFor(rdy, st),
         \A u \in Threads : st[u] = "Blocked" <=> tstate[u] = "Blocked",
         Unlock(l, t, st, rdy), UNCHANGED prio
  PROVE  /\ tstate' \in [Threads -> States] /\ ready' \in Queues
         /\ pending' \in [WaitPlaces -> Queues]
         /\ owner' \in [Locks -> Threads \cup {NULL}] /\ count' \in [Locks -> Nat]
         /\ remaining' \in [Threads -> Nat]
         /\ ReadyListsFor(ready, tstate)' /\ WaitListsAgree' /\ NoLostWakeup'
         /\ \A u \in Threads : tstate'[u] = st[u] \/ (st[u] = "Blocked" /\ tstate'[u] = "Ready")
         /\ \A k \in Locks : k # l => owner'[k] = owner[k] /\ count'[k] = count[k]
         /\ count[l] <= 1 => owner'[l] = NULL /\ count'[l] = 0
<1>1. l \in WaitPlaces /\ count[l] \in Nat /\ remaining \in [Threads -> Nat]
  BY DEF WaitPlaces, TypeOK
<1>2. CASE count[l] > 1
  <2>1. /\ count' = [count EXCEPT ![l] = count[l] - 1] /\ tstate' = st /\ ready' = rdy
        /\ UNCHANGED <<owner, pending, remaining>>
    BY <1>2 DEF Unlock
  <2>2. count' \in [Locks -> Nat] /\ count[l] - 1 # 0 /\ count[l] # 0
    BY <1>1, <1>2, <2>1 DEF TypeOK
  <2>3. ReadyListsFor(ready, tstate)'
    BY <2>1 DEF ReadyListsFor
  <2>4. WaitListsAgree'
    <3>1. \A u \in Threads : tstate'[u] = "Blocked" <=> tstate[u] = "Blocked"
      BY <2>1
    <3>2. \A x \in WaitPlaces, p \in Prios : Range(pending[x][p]) \subseteq Threads
      BY RangeInThreads DEF TypeOK, Queues
    <3>3. \A u \in Threads, x \in WaitPlaces : WaitsIn(u, x)' <=> WaitsIn(u, x)
      BY <2>1 DEF WaitsIn
    <3>4. \A x \in WaitPlaces, p \in Prios :
            /\ IsInjective(pending'[x][p])
            /\ \A u \in Range(pending'[x][p]) : tstate'[u] = "Blocked" /\ prio'[u] = p
      BY <2>1, <3>1, <3>2 DEF WaitListsAgree
    <3> QED
      BY <3>1, <3>3, <3>4 DEF WaitListsAgree
  <2>5. NoLostWakeup'
    BY <2>1, <2>2 DEF NoLostWakeup, TypeOK
  <2>6. \A k \in Locks : k # l => owner'[k] = owner[k] /\ count'[k] = count[k]
    BY <2>1 DEF TypeOK
  <2>7. /\ tstate' \in [Threads -> States] /\ ready' \in Queues
        /\ pending' \in [WaitPlaces -> Queues] /\ owner' \in [Locks -> Threads \cup {NULL}]
        /\ remaining' \in [Threads -> Nat]
        /\ \A u \in Threads : tstate'[u] = st[u]
        /\ ~(count[l] <= 1)
    BY <1>1, <1>2, <2>1 DEF TypeOK
  <2> QED
    BY <2>2, <2>3, <2>4, <2>5, <2>6, <2>7
<1>3. CASE ~(count[l] > 1)
  <2>1. /\ count' = [count EXCEPT ![l] = 0]
        /\ owner' = [owner EXCEPT ![l] = NULL]
        /\ pending' = [pending EXCEPT ![l] = NoThreads]
        /\ tstate' = Woken(pending[l], st)
        /\ ready' = InsertAll(rdy, pending[l])
        /\ remaining' = CutSlice(pending[l], t)
    BY <1>3 DEF Unlock
  <2>2. /\ tstate' \in [Threads -> States] /\ ready' \in Queues
        /\ pending' \in [WaitPlaces -> Queues]
        /\ ReadyListsFor(ready, tstate)' /\ WaitListsAgree'
        /\ \A u \in Threads : tstate'[u] = st[u] \/ (st[u] = "Blocked" /\ tstate'[u] = "Ready")
    BY <1>1, <2>1, WakeLists
  <2>3. remaining' \in [Threads -> Nat]
    BY <1>1, <2>1 DEF CutSlice
  <2>4. /\ owner' \in [Locks -> Threads \cup {NULL}] /\ count' \in [Locks -> Nat]
        /\ \A k \in Locks : k # l => owner'[k] = owner[k] /\ count'[k] = count[k]
        /\ owner'[l] = NULL /\ count'[l] = 0
    BY <2>1 DEF TypeOK
  <2>5. NoLostWakeup'
    <3>1. Members(NoThreads) = {}
      BY EmptyLists DEF Members, NoThreads
    <3>2. pending'[l] = NoThreads /\ \A k \in Locks : k # l => pending'[k] = pending[k]
      BY <1>1, <2>1 DEF TypeOK, WaitPlaces
    <3>3. ASSUME NEW k \in Locks
          PROVE  /\ owner'[k] = NULL <=> count'[k] = 0
                 /\ owner'[k] = NULL => Members(pending'[k]) = {}
                 /\ owner'[k] \notin Members(pending'[k])
      BY <2>4, <3>1, <3>2 DEF NoLostWakeup
    <3> QED
      BY <3>3 DEF NoLostWakeup
  <2> QED
    BY <2>2, <2>3, <2>4, <2>5
<1> QED
  BY <1>2, <1>3

\* A step that unlocks a mutex, or the join mutex of a thread that is not
\* alive.
LEMMA UnlockInv ==
  ASSUME Inv, NEW l \in Locks, l \notin Live,
         current \in Threads, current # NULL, tstate[current] = "Running",
         phase' = "sched", Unlock(l, current, tstate, ready),
         l \in Threads => count[l] <= 1,
         pending_lock' \in [Threads -> Locks \cup {NULL}],
         insn' \in [Threads -> {"any", "lockMtx", "lockMtx_Int", "joinThread"}],
         UNCHANGED <<prio, running, current, crit, timeslice, countVars>>
  PROVE  Inv'
<1>1. /\ tstate \in [Threads -> States] /\ ready \in Queues /\ ReadyListsFor(ready, tstate)
  BY DEF Inv, TypeOK, RunListsAgree, ReadyListsFor
<1>2. /\ tstate' \in [Threads -> States] /\ ready' \in Queues
      /\ pending' \in [WaitPlaces -> Queues]
      /\ owner' \in [Locks -> Threads \cup {NULL}] /\ count' \in [Locks -> Nat]
      /\ remaining' \in [Threads -> Nat]
      /\ ReadyListsFor(ready, tstate)' /\ WaitListsAgree' /\ NoLostWakeup'
      /\ \A u \in Threads : tstate'[u] = tstate[u] \/ (tstate[u] = "Blocked" /\ tstate'[u] = "Ready")
      /\ \A k \in Locks : k # l => owner'[k] = owner[k] /\ count'[k] = count[k]
      /\ count[l] <= 1 => owner'[l] = NULL /\ count'[l] = 0
  BY <1>1, UnlockLists DEF Inv
<1>3. TypeOK'
  BY <1>2 DEF Inv, TypeOK, countVars
<1>4. CurrentRuns'
  BY <1>2 DEF CurrentRuns
<1>5. RunListsAgree'
  <2>1. {u \in Threads : tstate'[u] = "Running"} = {u \in Threads : tstate[u] = "Running"}
    BY <1>2
  <2> QED
    BY <1>2, <2>1 DEF Inv, RunListsAgree, ReadyListsFor
<1>6. Live' = Live
  BY <1>2 DEF Live
<1>7. JoinMutexHeld'
  BY <1>2, <1>6 DEF Inv, JoinMutexHeld, Locks
<1>8. CountAgrees'
  BY <1>6 DEF Inv, CountAgrees, countVars
<1> QED
  BY <1>2, <1>3, <1>4, <1>5, <1>7, <1>8 DEF Inv

LEMMA JoinThreadInv == ASSUME Inv, JoinThread PROVE Inv'
<1>1. current \in Threads /\ current # NULL /\ tstate[current] = "Running" /\ phase' = "sched"
  BY ExecutesRuns DEF JoinThread
<1>2. PICK j \in Threads :
         \/ /\ owner[j] = NULL
            /\ Unlock(j, current, tstate, ready)
            /\ pending_lock' = [pending_lock EXCEPT ![current] = NULL]
            /\ Advance
            /\ UNCHANGED <<prio, running, current>>
         \/ /\ owner[j] = current
            /\ pending_lock' = [pending_lock EXCEPT ![current] = NULL]
            /\ Advance
            /\ UNCHANGED <<threadVars, lockVars, current, remaining>>
         \/ /\ ~Free(j, current)
            /\ BlockOn(j, current)
            /\ pending_lock' = [pending_lock EXCEPT ![current] = j]
            /\ insn' = [insn EXCEPT ![current] = "joinThread"]
            /\ UNCHANGED remaining
  BY DEF JoinThread
<1>3. /\ j \in Locks /\ pending_lock' \in [Threads -> Locks \cup {NULL}]
      /\ insn' \in [Threads -> {"any", "lockMtx", "lockMtx_Int", "joinThread"}]
  <2>1. j \in Locks
    BY DEF Locks
  <2>2. /\ pending_lock \in [Threads -> Locks \cup {NULL}]
        /\ insn \in [Threads -> {"any", "lockMtx", "lockMtx_Int", "joinThread"}]
    BY DEF Inv, TypeOK
  <2>3. \/ pending_lock' = [pending_lock EXCEPT ![current] = NULL]
        \/ pending_lock' = [pending_lock EXCEPT ![current] = j]
    BY <1>2, Zenon
  <2>4. \/ insn' = [insn EXCEPT ![current] = "any"]
        \/ insn' = [insn EXCEPT ![current] = "joinThread"]
    BY <1>2, Zenon DEF Advance
  <2>5. pending_lock' \in [Threads -> Locks \cup {NULL}]
    BY <2>1, <2>2, <2>3
  <2>6. insn' \in [Threads -> {"any", "lockMtx", "lockMtx_Int", "joinThread"}]
    BY <2>2, <2>4
  <2> QED
    BY <2>1, <2>5, <2>6
<1>4. UNCHANGED <<crit, timeslice, countVars>>
  BY DEF JoinThread
<1>5. CASE /\ owner[j] = NULL /\ Unlock(j, current, tstate, ready)
           /\ UNCHANGED <<prio, running, current>>
  <2>1. j \notin Live /\ count[j] <= 1
    BY <1>5, ConstantsAssumption DEF Inv, JoinMutexHeld, WaitPlaces, Locks
  <2> QED
    BY <1>1, <1>3, <1>4, <1>5, <2>1, UnlockInv
<1>6. CASE UNCHANGED <<threadVars, lockVars, current, remaining>>
  <2>1. TypeOK' /\ CurrentRuns'
    BY <1>1, <1>3, <1>4, <1>6 DEF Inv, TypeOK, CurrentRuns, threadVars, lockVars, countVars
  <2> QED
    BY <1>4, <1>6, <2>1, SameLists
<1>7. CASE ~Free(j, current) /\ BlockOn(j, current) /\ UNCHANGED remaining
  BY <1>1, <1>3, <1>4, <1>7, BlockOnInv
<1> QED
  BY <1>2, <1>5, <1>6, <1>7

-----------------------------------------------------------------------------
(* Birth and death.                                                          *)

\* vm_kill_thread, by the current thread, of a ready or running thread v.
LEMMA KillInv ==
  ASSUME Inv, current \in Threads, current # NULL, tstate[current] = "Running",
         NEW v \in Threads, tstate[v] \in {"Ready", "Running"}, Kill(v),
         phase' = "sched", UNCHANGED <<crit, timeslice, insnVars>>
  PROVE  Inv'
<1> DEFINE st == [tstate EXCEPT ![v] = "Zombie"]
           rdy == IF tstate[v] = "Ready"
                  THEN [ready EXCEPT ![prio[v]] = Without(@, v)] ELSE ready
<1>1. /\ Unlock(v, v, st, rdy) /\ UNCHANGED prio
      /\ threads_count' = threads_count - 1 /\ scheduler' = ModeFor(threads_count - 1)
      /\ current' = IF current = v THEN NULL ELSE current
      /\ running' = IF tstate[v] = "Running" THEN Without(running, v) ELSE running
  BY DEF Kill
<1>2. /\ st \in [Threads -> States] /\ v \in Locks /\ prio[v] \in Prios /\ v # NULL
      /\ \A u \in Threads : st[u] = IF u = v THEN "Zombie" ELSE tstate[u]
  BY ConstantsAssumption DEF Inv, TypeOK, States, Locks, WaitPlaces
<1>3. \A p \in Prios :
        /\ rdy[p] \in Seq(Threads)
        /\ Lists(rdy[p], {u \in Threads : st[u] = "Ready" /\ prio[u] = p})
  <2> TAKE p \in Prios
  <2> DEFINE S == {u \in Threads : tstate[u] = "Ready" /\ prio[u] = p}
  <2>1. ready[p] \in Seq(Threads) /\ Lists(ready[p], S)
    BY DEF Inv, TypeOK, Queues, RunListsAgree
  <2>2. CASE tstate[v] = "Ready" /\ prio[v] = p
    <3>1. rdy[p] = Without(ready[p], v)
      BY <2>2 DEF Inv, TypeOK, Queues
    <3>2. {u \in Threads : st[u] = "Ready" /\ prio[u] = p} = S \ {v}
      BY <1>2
    <3> HIDE DEF rdy, S, st
    <3> QED
      BY <2>1, <3>1, <3>2, WithoutLists
  <2>3. CASE ~(tstate[v] = "Ready" /\ prio[v] = p)
    <3>1. rdy[p] = ready[p]
      BY <2>3 DEF Inv, TypeOK, Queues
    <3>2. {u \in Threads : st[u] = "Ready" /\ prio[u] = p} = S
      BY <1>2, <2>3
    <3> QED
      BY <2>1, <3>1, <3>2
  <2> QED
    BY <2>2, <2>3
<1>4. rdy \in Queues /\ ReadyListsFor(rdy, st)
  <2>1. rdy = [p \in Prios |-> rdy[p]]
    BY DEF Inv, TypeOK, Queues
  <2> HIDE DEF rdy, st
  <2> QED
    BY <1>3, <2>1 DEF Queues, ReadyListsFor
<1>5. \A u \in Threads : st[u] = "Blocked" <=> tstate[u] = "Blocked"
  BY <1>2
<1> HIDE DEF st, rdy
<1>6. /\ tstate' \in [Threads -> States] /\ ready' \in Queues
      /\ pending' \in [WaitPlaces -> Queues]
      /\ owner' \in [Locks -> Threads \cup {NULL}] /\ count' \in [Locks -> Nat]
      /\ remaining' \in [Threads -> Nat]
      /\ ReadyListsFor(ready, tstate)' /\ WaitListsAgree' /\ NoLostWakeup'
      /\ \A u \in Threads : tstate'[u] = st[u] \/ (st[u] = "Blocked" /\ tstate'[u] = "Ready")
      /\ \A k \in Locks : k # v => owner'[k] = owner[k] /\ count'[k] = count[k]
      /\ count[v] <= 1 => owner'[v] = NULL /\ count'[v] = 0
  BY <1>1, <1>2, <1>4, <1>5, UnlockLists DEF Inv
<1>7. running' \in Seq(Threads) /\ Lists(running', {u \in Threads : tstate'[u] = "Running"})
  <2>1. {u \in Threads : tstate'[u] = "Running"} = {u \in Threads : tstate[u] = "Running"} \ {v}
    BY <1>2, <1>6
  <2>2. running \in Seq(Threads) /\ Lists(running, {u \in Threads : tstate[u] = "Running"})
    BY DEF Inv, TypeOK, RunListsAgree
  <2>3. CASE tstate[v] = "Running"
    BY <1>1, <2>1, <2>2, <2>3, WithoutLists
  <2>4. CASE tstate[v] # "Running"
    <3>1. {u \in Threads : tstate[u] = "Running"} \ {v} = {u \in Threads : tstate[u] = "Running"}
      BY <2>4
    <3> QED
      BY <1>1, <2>1, <2>2, <2>4, <3>1
  <2> QED
    BY <2>3, <2>4
<1>8. threads_count' \in Int /\ scheduler' \in Schedulers
  BY <1>1 DEF Inv, TypeOK, ModeFor, Schedulers
<1>9. TypeOK'
  BY <1>1, <1>6, <1>7, <1>8 DEF Inv, TypeOK, insnVars
<1>10. CurrentRuns'
  <2>1. CASE current = v
    BY <1>1, <2>1 DEF CurrentRuns
  <2>2. CASE current # v
    <3>1. current' = current /\ st[current] = "Running"
      BY <1>1, <1>2, <2>2
    <3> QED
      BY <1>6, <3>1 DEF CurrentRuns
  <2> QED
    BY <2>1, <2>2
<1>11. Live' = Live \ {v} /\ v \in Live
  BY <1>2, <1>6 DEF Live
<1>12. JoinMutexHeld'
  <2>1. count[v] = 1
    BY <1>11 DEF Inv, JoinMutexHeld
  <2> QED
    BY <1>2, <1>6, <1>11, <2>1 DEF Inv, JoinMutexHeld, Locks
<1>13. CountAgrees'
  <2>1. IsFiniteSet(Live)
    BY ConstantsAssumption, FS_Subset DEF Live
  <2>2. Cardinality(Live') = Cardinality(Live) - 1 /\ Cardinality(Live) \in Nat
    BY <1>11, <2>1, FS_RemoveElement, FS_CardinalityType
  <2> QED
    BY <1>1, <2>2 DEF Inv, CountAgrees, ModeFor
<1> QED
  BY <1>6, <1>7, <1>9, <1>10, <1>12, <1>13 DEF Inv, RunListsAgree, ReadyListsFor

\* An opcode that kills a ready or running thread.
LEMMA KillStep ==
  ASSUME Inv, NEW op, Executes(op), NEW v \in Threads,
         v = current \/ tstate[v] \in KillStates,
         Kill(v), UNCHANGED <<crit, timeslice, insnVars>>
  PROVE  Inv'
<1>1. /\ current \in Threads /\ current # NULL /\ tstate[current] = "Running" /\ phase' = "sched"
  BY ExecutesRuns
<1>2. tstate[v] \in {"Ready", "Running"}
  BY <1>1, ConstantsAssumption
<1> QED
  BY <1>1, <1>2, KillInv

\* A failed assertion kills the thread that executes.
LEMMA FailStep == ASSUME Inv, NEW op, Executes(op), Fail PROVE Inv'
BY ExecutesRuns, KillStep DEF Fail

LEMMA KillThreadInv == ASSUME Inv, KillThread PROVE Inv'
<1>1. PICK v \in Threads : tstate[v] \in KillStates /\ Kill(v)
  BY DEF KillThread
<1> QED
  BY <1>1, KillStep DEF KillThread

LEMMA EndInv == ASSUME Inv, End PROVE Inv'
BY ExecutesRuns, KillStep DEF End

LEMMA FatalInv == ASSUME Inv, Fatal PROVE Inv'
BY FailStep DEF Fatal

LEMMA UnlockMtxInv == ASSUME Inv, UnlockMtx PROVE Inv'
<1>1. current \in Threads /\ current # NULL /\ tstate[current] = "Running" /\ phase' = "sched"
  BY ExecutesRuns DEF UnlockMtx
<1>2. PICK m \in Mutexes :
        \/ /\ Unlock(m, current, tstate, ready)
           /\ UNCHANGED <<prio, running, current, crit, timeslice, countVars, insnVars>>
        \/ Fail
  BY DEF UnlockMtx
<1>3. CASE Fail
  BY <1>3, FailStep DEF UnlockMtx
<1>4. CASE /\ Unlock(m, current, tstate, ready)
           /\ UNCHANGED <<prio, running, current, crit, timeslice, countVars, insnVars>>
  <2>1. m \in Locks /\ m \notin Threads /\ m \notin Live
    BY ConstantsAssumption DEF Locks, Live
  <2>2. /\ pending_lock' \in [Threads -> Locks \cup {NULL}]
        /\ insn' \in [Threads -> {"any", "lockMtx", "lockMtx_Int", "joinThread"}]
    BY <1>4 DEF Inv, TypeOK, insnVars
  <2> QED
    BY <1>1, <1>4, <2>1, <2>2, UnlockInv
<1> QED
  BY <1>2, <1>3, <1>4

LEMMA CritBeginInv == ASSUME Inv, CritBegin PROVE Inv'
<1>1. current \in Threads /\ phase' = "sched"
  BY ExecutesRuns DEF CritBegin
<1>2. CASE Fail
  BY <1>2, FailStep DEF CritBegin
<1>3. CASE /\ crit' = crit \cup {current}
           /\ UNCHANGED <<threadVars, current, remaining, timeslice, countVars, lockVars, insnVars>>
  <2>1. TypeOK' /\ CurrentRuns'
    BY <1>1, <1>3 DEF Inv, TypeOK, CurrentRuns, threadVars, countVars, lockVars, insnVars
  <2> QED
    BY <1>3, <2>1, SameLists
<1> QED
  BY <1>2, <1>3 DEF CritBegin

LEMMA CritEndInv == ASSUME Inv, CritEnd PROVE Inv'
<1>1. current \in Threads /\ phase' = "sched"
  BY ExecutesRuns DEF CritEnd
<1>2. CASE Fail
  BY <1>2, FailStep DEF CritEnd
<1>3. CASE /\ crit' = crit \ {current}
           /\ UNCHANGED <<threadVars, current, remaining, timeslice, countVars, lockVars, insnVars>>
  <2>1. TypeOK' /\ CurrentRuns'
    BY <1>1, <1>3 DEF Inv, TypeOK, CurrentRuns, threadVars, countVars, lockVars, insnVars
  <2> QED
    BY <1>3, <2>1, SameLists
<1> QED
  BY <1>2, <1>3 DEF CritEnd

\* vm_add_thread: the new thread t owns its join mutex and is ready.
LEMMA AddInv ==
  ASSUME Inv, NEW t \in Threads, NEW p \in Prios, Add(t, p), phase' = "sched",
         UNCHANGED <<schedVars, insnVars>>
  PROVE  Inv'
<1>1. /\ tstate[t] = "None" /\ t \in Locks /\ t # NULL /\ t \notin Live
      /\ owner[t] = NULL /\ count[t] = 0
  BY ConstantsAssumption DEF Add, Locks, WaitPlaces, Live, Inv, JoinMutexHeld
<1>2. /\ \A u \in Threads : prio'[u] = IF u = t THEN p ELSE prio[u]
      /\ \A u \in Threads : tstate'[u] = IF u = t THEN "Ready" ELSE tstate[u]
      /\ \A l \in Locks : owner'[l] = IF l = t THEN t ELSE owner[l]
      /\ \A l \in Locks : count'[l] = IF l = t THEN 1 ELSE count[l]
      /\ UNCHANGED <<running, pending>>
  BY <1>1 DEF Add, LockJoin, Grant, Inv, TypeOK
<1>3. /\ prio' \in [Threads -> Prios] /\ tstate' \in [Threads -> States]
      /\ owner' \in [Locks -> Threads \cup {NULL}] /\ count' \in [Locks -> Nat]
  BY <1>1 DEF Add, LockJoin, Grant, Inv, TypeOK, States
<1>4. ASSUME NEW q \in Prios
      PROVE  /\ ready'[q] \in Seq(Threads)
             /\ Lists(ready'[q], {u \in Threads : tstate'[u] = "Ready" /\ prio'[u] = q})
  <2> DEFINE S == {u \in Threads : tstate[u] = "Ready" /\ prio[u] = q}
  <2>1. ready[q] \in Seq(Threads) /\ Lists(ready[q], S) /\ t \notin S
    BY <1>1 DEF Inv, TypeOK, Queues, RunListsAgree
  <2>2. CASE q = p
    <3>1. ready'[q] = Append(ready[q], t)
      BY <2>2 DEF Add, Insert, Inv, TypeOK, Queues
    <3>2. {u \in Threads : tstate'[u] = "Ready" /\ prio'[u] = q} = S \cup {t}
      BY <1>1, <1>2, <2>2
    <3> HIDE DEF S
    <3> QED
      BY <2>1, <3>1, <3>2, AppendLists
  <2>3. CASE q # p
    <3>1. ready'[q] = ready[q]
      BY <2>3 DEF Add, Insert, Inv, TypeOK, Queues
    <3>2. {u \in Threads : tstate'[u] = "Ready" /\ prio'[u] = q} = S
      BY <1>1, <1>2, <2>3
    <3> QED
      BY <2>1, <3>1, <3>2
  <2> QED
    BY <2>2, <2>3
<1>5. ready' \in Queues
  <2>1. ready' = [q \in Prios |-> ready'[q]]
    BY DEF Add, Insert, Inv, TypeOK, Queues
  <2> QED
    BY <1>4, <2>1 DEF Queues
<1>6. threads_count' = threads_count + 1 /\ threads_count' \in Int
      /\ scheduler' = IF threads_count' = 1 THEN "Mono"
                      ELSE IF threads_count' = 2 THEN "RoundRobin" ELSE scheduler
  BY DEF Add, Inv, TypeOK
<1>7. TypeOK'
  BY <1>2, <1>3, <1>5, <1>6 DEF Inv, TypeOK, schedVars, insnVars, Schedulers
<1>8. CurrentRuns'
  BY <1>1, <1>2 DEF Inv, TypeOK, CurrentRuns, schedVars
<1>9. RunListsAgree'
  <2>1. {u \in Threads : tstate'[u] = "Running"} = {u \in Threads : tstate[u] = "Running"}
    BY <1>1, <1>2
  <2> QED
    BY <1>2, <1>4, <2>1 DEF Inv, RunListsAgree
<1>10. \A x \in WaitPlaces, q \in Prios :
         /\ Range(pending[x][q]) \subseteq Threads /\ t \notin Range(pending[x][q])
         /\ \A u \in Range(pending[x][q]) : u \in Threads /\ u # t
  BY <1>1, RangeInThreads DEF Inv, TypeOK, Queues, WaitListsAgree
<1>11. WaitListsAgree'
  <2>1. \A x \in WaitPlaces, q \in Prios :
          /\ IsInjective(pending'[x][q])
          /\ \A u \in Range(pending'[x][q]) : tstate'[u] = "Blocked" /\ prio'[u] = q
    BY <1>2, <1>10 DEF Inv, WaitListsAgree
  <2>2. \A u \in Threads, x \in WaitPlaces : WaitsIn(u, x)' <=> WaitsIn(u, x)
    BY <1>2, <1>10 DEF WaitsIn, Inv, TypeOK
  <2>3. \A u \in Threads : tstate'[u] = "Blocked" => tstate[u] = "Blocked"
    BY <1>2
  <2> QED
    BY <2>1, <2>2, <2>3 DEF Inv, WaitListsAgree
<1>12. NoLostWakeup'
  <2>1. \A l \in Locks : t \notin Members(pending[l])
    BY <1>10 DEF Members, WaitPlaces
  <2>2. ASSUME NEW l \in Locks
        PROVE  /\ owner'[l] = NULL <=> count'[l] = 0
               /\ owner'[l] = NULL => Members(pending'[l]) = {}
               /\ owner'[l] \notin Members(pending'[l])
    <3>1. Members(pending'[l]) = Members(pending[l])
      BY <1>2 DEF Members
    <3> QED
      BY <1>1, <1>2, <2>1, <3>1 DEF Inv, NoLostWakeup
  <2> QED
    BY <2>2 DEF NoLostWakeup
<1>13. Live' = Live \cup {t}
  BY <1>2 DEF Live
<1>14. JoinMutexHeld'
  BY <1>1, <1>2, <1>13 DEF Inv, JoinMutexHeld, Locks
<1>15. CountAgrees'
  <2>1. IsFiniteSet(Live)
    BY ConstantsAssumption, FS_Subset DEF Live
  <2>2. Cardinality(Live') = Cardinality(Live) + 1 /\ Cardinality(Live) \in Nat
    BY <1>1, <1>13, <2>1, FS_AddElement, FS_CardinalityType
  <2> QED
    BY <1>6, <2>2 DEF Inv, CountAgrees
<1> QED
  BY <1>7, <1>8, <1>9, <1>11, <1>12, <1>14, <1>15 DEF Inv

LEMMA NewThreadInv == ASSUME Inv, NewThread PROVE Inv'
BY ExecutesRuns, AddInv DEF NewThread

LEMMA RunInv == ASSUME Inv, Run PROVE Inv'
BY AddInv DEF Run

-----------------------------------------------------------------------------
(* The other steps that move threads between lists.                          *)

\* A thread that changes between "Ready" and "Running" waits nowhere before
\* and after, and every invariant of the locks is left alone.
LEMMA SameWaits ==
  ASSUME Inv, NEW t \in Threads, tstate[t] \in {"Ready", "Running"}, NEW s,
         s \in {"Ready", "Running"}, tstate' = [tstate EXCEPT ![t] = s],
         UNCHANGED <<prio, lockVars, countVars>>
  PROVE  /\ tstate' \in [Threads -> States]
         /\ WaitListsAgree' /\ NoLostWakeup' /\ JoinMutexHeld' /\ CountAgrees'
<1>1. /\ tstate' \in [Threads -> States]
      /\ \A u \in Threads : tstate'[u] = IF u = t THEN s ELSE tstate[u]
  BY DEF Inv, TypeOK, States
<1>2. \A x \in WaitPlaces, p \in Prios : Range(pending[x][p]) \subseteq Threads
  BY RangeInThreads DEF Inv, TypeOK, Queues
<1>3. /\ \A u \in Threads : tstate'[u] = "Blocked" <=> tstate[u] = "Blocked"
      /\ UNCHANGED <<pending, prio>> /\ Live' = Live
  BY <1>1 DEF lockVars, Live
<1>4. WaitListsAgree'
  <2>1. \A u \in Threads, x \in WaitPlaces : WaitsIn(u, x)' <=> WaitsIn(u, x)
    BY <1>3 DEF WaitsIn
  <2>2. \A x \in WaitPlaces, p \in Prios :
          /\ IsInjective(pending'[x][p])
          /\ \A u \in Range(pending'[x][p]) : tstate'[u] = "Blocked" /\ prio'[u] = p
    BY <1>2, <1>3 DEF Inv, WaitListsAgree
  <2> QED
    BY <1>3, <2>1, <2>2 DEF Inv, WaitListsAgree
<1>5. NoLostWakeup' /\ JoinMutexHeld' /\ CountAgrees'
  BY <1>3 DEF Inv, NoLostWakeup, JoinMutexHeld, CountAgrees, lockVars, countVars
<1> QED
  BY <1>1, <1>4, <1>5

LEMMA ScheduleReadyInv == ASSUME Inv, ScheduleReady PROVE Inv'
<1>1. PICK p \in Prios :
        /\ IsTop(ready, p)
        /\ current' = Head(ready[p])
        /\ tstate' = [tstate EXCEPT ![Head(ready[p])] = "Running"]
        /\ ready' = [ready EXCEPT ![p] = Tail(@)]
        /\ running' = Append(running, Head(ready[p]))
        /\ remaining' = [remaining EXCEPT ![Head(ready[p])] = OneLess(timeslice)]
  BY DEF ScheduleReady
<1> DEFINE t == Head(ready[p])
           S(q) == {u \in Threads : tstate[u] = "Ready" /\ prio[u] = q}
<1>2. \A q \in Prios : ready[q] \in Seq(Threads) /\ Lists(ready[q], S(q))
  BY DEF Inv, TypeOK, Queues, RunListsAgree
<1>3. /\ t \in Threads /\ tstate[t] = "Ready" /\ prio[t] = p
      /\ Tail(ready[p]) \in Seq(Threads) /\ Lists(Tail(ready[p]), S(p) \ {t})
  <2>1. ready[p] # <<>>
    BY <1>1 DEF IsTop
  <2>2. /\ t \in S(p) /\ Tail(ready[p]) \in Seq(Threads)
        /\ Lists(Tail(ready[p]), S(p) \ {t})
    <3> HIDE DEF S
    <3> QED
      BY <1>2, <2>1, HeadTailLists
  <2> QED
    BY <2>2
<1> HIDE DEF t
<1>4. /\ current' = t /\ tstate' = [tstate EXCEPT ![t] = "Running"]
      /\ \A u \in Threads : tstate'[u] = IF u = t THEN "Running" ELSE tstate[u]
      /\ \A q \in Prios : ready'[q] = IF q = p THEN Tail(ready[p]) ELSE ready[q]
      /\ running' = Append(running, t)
      /\ UNCHANGED <<prio, crit, timeslice, countVars, lockVars, insnVars>>
  BY <1>1, <1>3 DEF t, ScheduleReady, Inv, TypeOK, Queues
<1>5. /\ tstate' \in [Threads -> States]
      /\ WaitListsAgree' /\ NoLostWakeup' /\ JoinMutexHeld' /\ CountAgrees'
  BY <1>3, <1>4, SameWaits
<1>6. running' \in Seq(Threads) /\ Lists(running', {u \in Threads : tstate'[u] = "Running"})
  <2>1. /\ running \in Seq(Threads) /\ Lists(running, {u \in Threads : tstate[u] = "Running"})
        /\ t \notin {u \in Threads : tstate[u] = "Running"}
    BY <1>3 DEF Inv, TypeOK, RunListsAgree
  <2>2. {u \in Threads : tstate'[u] = "Running"} = {u \in Threads : tstate[u] = "Running"} \cup {t}
    BY <1>3, <1>4
  <2> QED
    BY <1>3, <1>4, <2>1, <2>2, AppendLists
<1>7. ASSUME NEW q \in Prios
      PROVE  /\ ready'[q] \in Seq(Threads)
             /\ Lists(ready'[q], {u \in Threads : tstate'[u] = "Ready" /\ prio'[u] = q})
  <2>1. CASE q = p
    <3>1. {u \in Threads : tstate'[u] = "Ready" /\ prio'[u] = q} = S(p) \ {t}
      BY <1>3, <1>4, <2>1
    <3> QED
      BY <1>3, <1>4, <2>1, <3>1
  <2>2. CASE q # p
    <3>1. {u \in Threads : tstate'[u] = "Ready" /\ prio'[u] = q} = S(q)
      BY <1>3, <1>4, <2>2
    <3> QED
      BY <1>2, <1>4, <2>2, <3>1
  <2> QED
    BY <2>1, <2>2
<1>8. ready' \in Queues
  <2>1. ready' = [q \in Prios |-> ready'[q]]
    BY <1>1 DEF Inv, TypeOK, Queues
  <2> QED
    BY <1>7, <2>1 DEF Queues
<1>9. remaining' \in [Threads -> Nat]
  BY <1>1, <1>3 DEF OneLess, Inv, TypeOK, t
<1>10. TypeOK'
  BY <1>3, <1>4, <1>5, <1>6, <1>8, <1>9
     DEF Inv, TypeOK, ScheduleReady, countVars, lockVars, insnVars
<1>11. CurrentRuns'
  BY <1>3, <1>4, ConstantsAssumption DEF CurrentRuns, WaitPlaces, Locks
<1> QED
  BY <1>5, <1>6, <1>7, <1>10, <1>11 DEF Inv, RunListsAgree

LEMMA YieldInv == ASSUME Inv, Yield PROVE Inv'
<1> DEFINE t == current
           S(q) == {u \in Threads : tstate[u] = "Ready" /\ prio[u] = q}
<1>1. t \in Threads /\ tstate[t] = "Running" /\ prio[t] \in Prios /\ phase' = "sched"
  BY ExecutesRuns DEF Yield
<1>2. /\ \A u \in Threads : tstate'[u] = IF u = t THEN "Ready" ELSE tstate[u]
      /\ \A q \in Prios : ready'[q] = IF q = prio[t] THEN Append(ready[q], t) ELSE ready[q]
      /\ running' = Without(running, t) /\ current' = NULL
      /\ UNCHANGED <<prio, remaining, crit, timeslice, countVars, lockVars, insnVars>>
  BY <1>1 DEF Yield, Insert, Inv, TypeOK, Queues
<1>3. /\ tstate' \in [Threads -> States]
      /\ WaitListsAgree' /\ NoLostWakeup' /\ JoinMutexHeld' /\ CountAgrees'
  BY <1>1, SameWaits DEF Yield
<1>4. running' \in Seq(Threads) /\ Lists(running', {u \in Threads : tstate'[u] = "Running"})
  <2>1. running \in Seq(Threads) /\ Lists(running, {u \in Threads : tstate[u] = "Running"})
    BY DEF Inv, TypeOK, RunListsAgree
  <2>2. {u \in Threads : tstate'[u] = "Running"} = {u \in Threads : tstate[u] = "Running"} \ {t}
    BY <1>1, <1>2
  <2> QED
    BY <1>2, <2>1, <2>2, WithoutLists
<1>5. ASSUME NEW q \in Prios
      PROVE  /\ ready'[q] \in Seq(Threads)
             /\ Lists(ready'[q], {u \in Threads : tstate'[u] = "Ready" /\ prio'[u] = q})
  <2>1. ready[q] \in Seq(Threads) /\ Lists(ready[q], S(q)) /\ t \notin S(q)
    BY <1>1 DEF Inv, TypeOK, Queues, RunListsAgree
  <2>2. CASE q = prio[t]
    <3>1. {u \in Threads : tstate'[u] = "Ready" /\ prio'[u] = q} = S(q) \cup {t}
      BY <1>1, <1>2, <2>2
    <3>2. ready'[q] = Append(ready[q], t)
      BY <1>2, <2>2
    <3> HIDE DEF S, t
    <3>3. /\ Append(ready[q], t) \in Seq(Threads)
          /\ Lists(Append(ready[q], t), S(q) \cup {t})
      BY <1>1, <2>1, AppendLists
    <3> QED
      BY <3>1, <3>2, <3>3
  <2>3. CASE q # prio[t]
    <3>1. {u \in Threads : tstate'[u] = "Ready" /\ prio'[u] = q} = S(q)
      BY <1>1, <1>2, <2>3
    <3> QED
      BY <1>2, <2>1, <2>3, <3>1
  <2> QED
    BY <2>2, <2>3
<1>6. ready' \in Queues
  <2>1. ready' = [q \in Prios |-> ready'[q]]
    BY DEF Yield, Insert, Inv, TypeOK, Queues
  <2> QED
    BY <1>5, <2>1 DEF Queues
<1>7. TypeOK'
  BY <1>1, <1>2, <1>3, <1>4, <1>6 DEF Inv, TypeOK, countVars, lockVars, insnVars
<1>8. CurrentRuns'
  BY <1>1, <1>2 DEF CurrentRuns
<1> QED
  BY <1>3, <1>4, <1>5, <1>7, <1>8 DEF Inv, RunListsAgree

LEMMA SuspendInv == ASSUME Inv, Suspend PROVE Inv'
<1> DEFINE t == current
<1>1. t \in Threads /\ t # NULL /\ tstate[t] = "Running" /\ prio[t] \in Prios /\ phase' = "sched"
  BY ExecutesRuns DEF Suspend
<1>2. PICK b \in Blockers : pending' = [pending EXCEPT ![b][prio[t]] = <<t>> \o @]
  BY DEF Suspend
<1> DEFINE Q == pending[b][prio[t]]
           q == <<t>> \o Q
<1>3. b \in WaitPlaces /\ b \notin Locks /\ Q \in Seq(Threads) /\ IsInjective(Q) /\ t \notin Range(Q)
  <2>1. b \in WaitPlaces /\ b \notin Locks
    BY ConstantsAssumption DEF WaitPlaces
  <2>2. Q \in Seq(Threads)
    BY <1>1, <2>1 DEF Inv, TypeOK, Queues
  <2>3. IsInjective(Q) /\ t \notin Range(Q)
    BY <1>1, <2>1 DEF Inv, WaitListsAgree
  <2> QED
    BY <2>1, <2>2, <2>3
<1>4. q \in Seq(Threads) /\ Lists(q, Range(Q) \cup {t})
  <2>1. Lists(Q, Range(Q))
    BY <1>3 DEF Lists
  <2> HIDE DEF Q, t
  <2> QED
    BY <1>1, <1>3, <2>1, PrependLists
<1>5. pending' = [pending EXCEPT ![b][prio[t]] = q]
  BY <1>2, <1>3
<1> HIDE DEF q
<1>6. /\ tstate' \in [Threads -> States] /\ running' \in Seq(Threads)
      /\ pending' \in [WaitPlaces -> Queues] /\ RunListsAgree' /\ WaitListsAgree'
  BY <1>1, <1>3, <1>4, <1>5, BlockLists DEF Inv, Suspend
<1>7. TypeOK'
  BY <1>1, <1>6 DEF Inv, TypeOK, Suspend, schedVars, countVars, insnVars
<1>8. \A u \in Threads : tstate'[u] = IF u = t THEN "Blocked" ELSE tstate[u]
  BY DEF Suspend, Inv, TypeOK
<1>9. CurrentRuns'
  BY <1>1, <1>8 DEF CurrentRuns, Suspend, schedVars
<1>10. Live' = Live
  BY <1>1, <1>8 DEF Live
<1>11. NoLostWakeup'
  <2>1. \A l \in Locks : pending'[l] = pending[l]
    BY <1>2, <1>3 DEF Inv, TypeOK
  <2> QED
    BY <2>1 DEF Inv, NoLostWakeup, Suspend
<1>12. JoinMutexHeld' /\ CountAgrees'
  BY <1>10 DEF Inv, JoinMutexHeld, CountAgrees, Suspend, countVars
<1> QED
  BY <1>6, <1>7, <1>9, <1>11, <1>12 DEF Inv

LEMMA ResumeInv == ASSUME Inv, Resume PROVE Inv'
<1>1. current \in Threads /\ current # NULL /\ tstate[current] = "Running" /\ phase' = "sched"
  BY ExecutesRuns DEF Resume
<1>2. PICK b \in Blockers :
        /\ pending' = [pending EXCEPT ![b] = NoThreads]
        /\ tstate' = Woken(pending[b], tstate)
        /\ ready' = InsertAll(ready, pending[b])
        /\ remaining' = CutSlice(pending[b], current)
  BY DEF Resume
<1>3. UNCHANGED <<prio, running, current, crit, timeslice, countVars, owner, count, insnVars>>
  BY DEF Resume
<1>4. /\ tstate \in [Threads -> States] /\ ready \in Queues /\ ReadyListsFor(ready, tstate)
      /\ b \in WaitPlaces /\ b \notin Locks
  BY ConstantsAssumption DEF Inv, TypeOK, RunListsAgree, ReadyListsFor, WaitPlaces
<1>5. /\ tstate' \in [Threads -> States] /\ ready' \in Queues
      /\ pending' \in [WaitPlaces -> Queues]
      /\ ReadyListsFor(ready, tstate)' /\ WaitListsAgree'
      /\ \A u \in Threads : tstate'[u] = tstate[u] \/ (tstate[u] = "Blocked" /\ tstate'[u] = "Ready")
  BY <1>2, <1>3, <1>4, WakeLists DEF Inv
<1>6. TypeOK'
  BY <1>1, <1>2, <1>3, <1>5 DEF Inv, TypeOK, CutSlice, countVars, insnVars
<1>7. CurrentRuns'
  BY <1>1, <1>3, <1>5 DEF CurrentRuns
<1>8. RunListsAgree'
  <2>1. {u \in Threads : tstate'[u] = "Running"} = {u \in Threads : tstate[u] = "Running"}
    BY <1>5
  <2> QED
    BY <1>3, <1>5, <2>1 DEF Inv, RunListsAgree, ReadyListsFor
<1>9. Live' = Live
  BY <1>5 DEF Live
<1>10. NoLostWakeup'
  <2>1. \A l \in Locks : pending'[l] = pending[l]
    BY <1>2, <1>4 DEF Inv, TypeOK
  <2> QED
    BY <1>3, <2>1 DEF Inv, NoLostWakeup
<1>11. JoinMutexHeld' /\ CountAgrees'
  BY <1>3, <1>9 DEF Inv, JoinMutexHeld, CountAgrees, countVars
<1> QED
  BY <1>5, <1>6, <1>7, <1>8, <1>10, <1>11 DEF Inv

-----------------------------------------------------------------------------
(* Every step preserves the invariant.                                       *)

LEMMA StutterInv == ASSUME Inv, UNCHANGED vars PROVE Inv'
<1>1. TypeOK' /\ CurrentRuns' /\ UNCHANGED <<threadVars, lockVars, countVars>>
  BY DEF vars, Inv, TypeOK, CurrentRuns, threadVars, schedVars, countVars, lockVars, insnVars
<1> QED
  BY <1>1, SameLists

LEMMA StepInv == Inv /\ [Next]_vars => Inv'
<1> SUFFICES ASSUME Inv, [Next]_vars PROVE Inv'
  OBVIOUS
<1>1. CASE Schedule
  BY <1>1, ScheduleKeepInv, ScheduleReadyInv, ScheduleRunningInv, ScheduleNoneInv DEF Schedule
<1>2. CASE Execute
  BY <1>2, NewThreadInv, LockMtxInv, LockMtxIntInv, UnlockMtxInv, JoinThreadInv,
     KillThreadInv, EndInv, FatalInv, YieldInv, CritBeginInv, CritEndInv,
     SuspendInv, ResumeInv, SetTimesliceInv, OtherInv DEF Execute
<1>3. CASE Run
  BY <1>3, RunInv
<1>4. CASE Done \/ UNCHANGED vars
  BY <1>4, StutterInv DEF Done
<1> QED
  BY <1>1, <1>2, <1>3, <1>4 DEF Next

\* The invariant holds in every reachable state.
THEOREM Invariance == Spec => []Inv
<1>1. Init => Inv
  BY InitInv
<1>2. Inv /\ [Next]_vars => Inv'
  BY StepInv
<1> QED
  BY <1>1, <1>2, PTL DEF Spec

-----------------------------------------------------------------------------
(* What follows from it.                                                     *)

\* Every variable keeps its type: in particular no bad timeslice is accepted.
THEOREM TypeCorrect == Spec => []TypeOK
<1>1. Inv => TypeOK
  BY DEF Inv
<1> QED
  BY <1>1, Invariance, PTL

\* A thread is in the list of its state, once, and in no other; a blocked
\* thread waits in exactly one place and nobody else waits.
THEOREM ListsCorrect == Spec => []ListsAgree
<1>1. Inv => ListsAgree
  BY DEF Inv, ListsAgree
<1> QED
  BY <1>1, Invariance, PTL

\* threads_count counts the threads that are not dead, and the scheduler mode
\* follows it.
THEOREM CountCorrect == Spec => []CountAgrees
<1>1. Inv => CountAgrees
  BY DEF Inv
<1> QED
  BY <1>1, Invariance, PTL

\* Whoever waits for a lock waits for an owner other than itself.
THEOREM WakeupsCorrect == Spec => []NoLostWakeup
<1>1. Inv => NoLostWakeup
  BY DEF Inv
<1> QED
  BY <1>1, Invariance, PTL

\* A thread owns its join mutex, once, for exactly as long as it lives.
THEOREM JoinsCorrect == Spec => []JoinMutexHeld
<1>1. Inv => JoinMutexHeld
  BY DEF Inv
<1> QED
  BY <1>1, Invariance, PTL

-----------------------------------------------------------------------------
(* Properties of the steps.                                                  *)

\* The owners of user mutexes do not change when a join mutex is unlocked.
LEMMA UnlockElsewhere ==
  ASSUME NEW l \in Locks, NEW m \in Locks, m # l, NEW t, NEW st, NEW rdy,
         TypeOK, Unlock(l, t, st, rdy)
  PROVE  owner'[m] = owner[m]
BY DEF Unlock, TypeOK

\* The owner of a mutex changes in the last unlockMtx of that owner only.
LEMMA OwnerStep ==
  ASSUME Inv, Next, NEW m \in Mutexes, owner[m] # NULL, owner'[m] # owner[m]
  PROVE  /\ owner'[m] = NULL /\ owner[m] = current
         /\ Unlock(m, current, tstate, ready) /\ crit' = crit
<1>1. m \in Locks /\ Threads \subseteq Locks /\ \A t \in Threads : m # t
  BY ConstantsAssumption DEF Locks
<1>2. TypeOK
  BY DEF Inv
<1>3. ASSUME NEW t \in Threads, NEW p, Add(t, p) PROVE FALSE
  <2>1. owner' = [owner EXCEPT ![t] = t]
    BY <1>3 DEF Add, LockJoin, Grant
  <2> QED
    BY <1>1, <1>2, <2>1 DEF TypeOK
<1>4. ASSUME NEW v \in Threads, Kill(v) PROVE FALSE
  BY <1>1, <1>2, <1>4, UnlockElsewhere DEF Kill
<1>5. ASSUME NEW op, Executes(op), Fail PROVE FALSE
  <2>1. current \in Threads /\ Kill(current)
    BY <1>5, ExecutesRuns DEF Fail
  <2> QED
    BY <1>4, <2>1
<1>6. ASSUME NEW k \in Mutexes, Free(k, current), Grant(k, current) PROVE FALSE
  BY <1>1, <1>2, <1>6 DEF Free, Grant, TypeOK
<1>7. ASSUME NEW l, BlockOn(l, current) PROVE FALSE
  BY <1>7 DEF BlockOn
<1>8. CASE LockMtx \/ LockMtxInt
  BY <1>6, <1>7, <1>8 DEF LockMtx, LockMtxInt
<1>9. CASE UnlockMtx
  <2>1. PICK k \in Mutexes :
          \/ owner[k] = current /\ Unlock(k, current, tstate, ready) /\ UNCHANGED crit
          \/ Fail
    BY <1>9 DEF UnlockMtx
  <2>2. ~Fail
    BY <1>5, <1>9 DEF UnlockMtx
  <2>3. k \in Locks
    BY DEF Locks
  <2>4. k = m
    BY <1>1, <1>2, <2>1, <2>2, <2>3, UnlockElsewhere
  <2> QED
    BY <1>1, <1>2, <2>1, <2>2, <2>4 DEF Unlock, TypeOK
<1>10. CASE JoinThread
  <2>1. PICK j \in Threads : \/ Unlock(j, current, tstate, ready)
                             \/ UNCHANGED lockVars
                             \/ BlockOn(j, current)
    BY <1>10 DEF JoinThread
  <2>2. j \in Locks /\ m # j
    BY <1>1
  <2>3. CASE Unlock(j, current, tstate, ready)
    BY <1>1, <1>2, <2>2, <2>3, UnlockElsewhere
  <2> QED
    BY <1>7, <2>1, <2>3 DEF lockVars
<1>11. CASE KillThread \/ End \/ Fatal
  <2>1. CASE KillThread
    BY <1>4, <2>1 DEF KillThread
  <2>2. CASE End
    BY <1>4, <2>2, ExecutesRuns DEF End
  <2>3. CASE Fatal
    BY <1>5, <2>3 DEF Fatal
  <2> QED
    BY <1>11, <2>1, <2>2, <2>3
<1>12. CASE CritBegin \/ CritEnd
  BY <1>5, <1>12 DEF CritBegin, CritEnd, lockVars
<1>13. CASE NewThread \/ Run
  BY <1>3, <1>13 DEF NewThread, Run
<1>14. CASE Yield \/ Suspend \/ Resume \/ SetTimeslice \/ Other
  BY <1>14 DEF Yield, Suspend, Resume, SetTimeslice, Other, lockVars
<1>15. CASE Schedule
  BY <1>15 DEF Schedule, ScheduleKeep, ScheduleReady, ScheduleRunning, ScheduleNone, lockVars
<1>16. CASE Done
  BY <1>16 DEF Done, vars, lockVars
<1> QED
  BY <1>8, <1>9, <1>10, <1>11, <1>12, <1>13, <1>14, <1>15, <1>16 DEF Next, Execute

\* A mutex is released by its owner only, and never passed to another thread.
THEOREM OwnershipCorrect == Spec => OnlyOwnerReleases
<1> DEFINE A == \A m \in Mutexes : owner[m] # NULL /\ owner'[m] # owner[m] =>
                  owner'[m] = NULL /\ owner[m] = current
<1>1. Inv /\ [Next]_vars => [A]_vars
  BY OwnerStep
<1> QED
  BY <1>1, Invariance, PTL DEF Spec, OnlyOwnerReleases

\* The current thread t, in a critical section, can only be left by a step
\* that ends its running.
LEMMA CritStep ==
  ASSUME Inv, Next, NEW t \in crit, current = t, tstate[t] = "Running", tstate'[t] = "Running"
  PROVE  current' = t
<1>1. t \in Threads /\ t # NULL /\ TypeOK
  BY ConstantsAssumption DEF Inv, TypeOK, WaitPlaces, Locks
<1>2. Keeps(current)
  BY <1>1 DEF Keeps
<1>3. CASE ScheduleNone
  <2>1. current \in Range(running)
    BY <1>1 DEF Inv, RunListsAgree, Lists
  <2>2. running \in Seq(Threads) /\ Candidate = NULL
    BY <1>1, <1>3 DEF TypeOK, ScheduleNone
  <2>3. DOMAIN running = 1 .. Len(running) /\ Len(running) \in Nat
    BY <2>2, LenProperties
  <2> DEFINE i == CHOOSE k \in DOMAIN running : running[k] = current
  <2>4. i \in 1 .. Len(running)
    BY <2>1, <2>3 DEF Range
  <2>5. running # <<>>
    BY <2>1, EmptyLists
  <2>6. Candidate = IF i < Len(running) THEN running[i + 1] ELSE running[1]
    BY <1>1, <2>5 DEF Candidate, Successor
  <2> HIDE DEF i
  <2>7. Candidate \in Threads
    BY <2>2, <2>3, <2>4, <2>6, ElementOfSeq
  <2> QED
    BY <2>2, <2>7, ConstantsAssumption DEF WaitPlaces, Locks
<1>4. CASE Schedule /\ ~ScheduleNone
  BY <1>2, <1>4 DEF Schedule, ScheduleKeep, ScheduleReady, ScheduleRunning
<1>5. ASSUME NEW l, BlockOn(l, current) PROVE FALSE
  BY <1>1, <1>5 DEF BlockOn, TypeOK
<1>6. ASSUME NEW v \in Threads, Kill(v) PROVE current' = t
  <2>1. CASE v # t
    BY <1>6, <2>1 DEF Kill
  <2>2. CASE v = t
    <3> DEFINE st == [tstate EXCEPT ![v] = "Zombie"]
    <3>1. PICK rdy : Unlock(v, v, st, rdy)
      BY <1>6 DEF Kill
    <3>2. st[t] = "Zombie" /\ \A Q : Woken(Q, st)[t] \in {"Ready", "Zombie"}
      BY <1>1, <2>2 DEF TypeOK, Woken
    <3>3. tstate' = st \/ tstate' = Woken(pending[v], st)
      BY <3>1 DEF Unlock
    <3> HIDE DEF st
    <3> QED
      BY <3>2, <3>3
  <2> QED
    BY <2>1, <2>2
<1>7. CASE LockMtx \/ LockMtxInt \/ JoinThread
  BY <1>5, <1>7 DEF LockMtx, LockMtxInt, JoinThread
<1>8. Fail => current' = t
  BY <1>1, <1>6 DEF Fail
<1>9. CASE UnlockMtx \/ KillThread \/ End \/ Fatal \/ CritBegin \/ CritEnd
  BY <1>1, <1>6, <1>8, <1>9 DEF UnlockMtx, KillThread, End, Fatal, CritBegin, CritEnd
<1>10. CASE Yield \/ Suspend
  BY <1>1, <1>10 DEF Yield, Suspend, schedVars, TypeOK
<1>11. CASE NewThread \/ Run \/ Resume \/ SetTimeslice \/ Other
  BY <1>11 DEF NewThread, Run, Resume, SetTimeslice, Other, schedVars
<1>12. CASE Done
  BY <1>12 DEF Done, vars, schedVars
<1> QED
  BY <1>3, <1>4, <1>7, <1>9, <1>10, <1>11, <1>12 DEF Next, Execute

\* The scheduler does not interrupt a critical section.
THEOREM CriticalSectionsCorrect == Spec => CritNotPreempted
<1> DEFINE A == \A t \in crit :
                  current = t /\ tstate[t] = "Running" /\ tstate'[t] = "Running" =>
                    current' = t
<1>1. Inv /\ [Next]_vars => [A]_vars
  BY CritStep
<1> QED
  BY <1>1, Invariance, PTL DEF Spec, CritNotPreempted

\* unlockMtx hands the rest of its slice over to a more urgent thread.
THEOREM UnlockCorrect == Spec => UnlockInterrupts
<1> DEFINE A == \A t \in Threads, m \in Mutexes :
                  /\ current = t /\ owner[m] = t /\ owner'[m] = NULL /\ t \notin crit
                  /\ \E p \in Prios : p > prio[t] /\ pending[m][p] # <<>>
                  => ~Keeps(t)'
<1>1. ASSUME Inv, Next, NEW t \in Threads, NEW m \in Mutexes,
             current = t, owner[m] = t, owner'[m] = NULL, t \notin crit,
             NEW p \in Prios, p > prio[t], pending[m][p] # <<>>
      PROVE  ~Keeps(t)'
  <2>1. t # NULL /\ m \in Locks /\ prio[t] \in Int /\ p \in Int
    BY <1>1, ConstantsAssumption DEF WaitPlaces, Locks, Inv, TypeOK
  <2>2. Unlock(m, t, tstate, ready) /\ crit' = crit
    BY <1>1, <2>1, OwnerStep
  <2>3. remaining' = CutSlice(pending[m], t)
    BY <1>1, <2>1, <2>2 DEF Unlock
  <2>4. SomeAtLeast(pending[m], prio[t])
    BY <1>1, <2>1 DEF SomeAtLeast
  <2>5. remaining'[t] = 0
    BY <1>1, <2>3, <2>4 DEF CutSlice, Inv, TypeOK
  <2> QED
    BY <1>1, <2>2, <2>5 DEF Keeps
<1>2. Inv /\ [Next]_vars => [A]_vars
  BY <1>1
<1> QED
  BY <1>2, Invariance, PTL DEF Spec, UnlockInterrupts

-----------------------------------------------------------------------------
(* Priorities.                                                               *)

\* A sorted list that is not empty has a head.
LEMMA TopExists ==
  ASSUME TypeOK, RunListsAgree, NEW r \in Threads, tstate[r] = "Ready"
  PROVE  \E p \in Prios : IsTop(ready, p)
<1> DEFINE R == {t \in Threads : tstate[t] = "Ready"}
           Above(t) == {u \in R : prio[u] > prio[t]}
           A == {Above(t) : t \in R}
<1>1. IsFiniteSet(R) /\ \A t \in R : prio[t] \in Prios /\ prio[t] \in Int
  <2>1. R \in SUBSET Threads
    OBVIOUS
  <2> QED
    BY <2>1, ConstantsAssumption, FS_Subset DEF TypeOK
<1>2. A \subseteq FiniteSubsetsOf(R) /\ A # {}
  <2>1. \A t \in R : Above(t) \in SUBSET R
    OBVIOUS
  <2>2. \A t \in R : IsFiniteSet(Above(t))
    BY <1>1, <2>1, FS_Subset
  <2>3. r \in R
    OBVIOUS
  <2> HIDE DEF Above, R
  <2> QED
    BY <2>1, <2>2, <2>3 DEF FiniteSubsetsOf
<1>3. PICK a \in A : \A b \in A : <<b, a>> \notin StrictSubsetOrdering(R)
  <2> HIDE DEF A
  <2> QED
    BY <1>2, FS_StrictSubsetOrderingWellFounded, WFMin
<1>4. PICK t \in R : a = Above(t)
  OBVIOUS
<1>5. ASSUME NEW u \in R, prio[u] > prio[t] PROVE FALSE
  <2>1. Above(u) \in A
    OBVIOUS
  <2>2. Above(u) \subseteq Above(t) /\ Above(t) \subseteq R /\ u \in Above(t) /\ u \notin Above(u)
    BY <1>1, <1>5
  <2>3. <<Above(u), a>> \in StrictSubsetOrdering(R)
    <3> HIDE DEF Above, R
    <3> QED
      BY <1>4, <2>2 DEF StrictSubsetOrdering
  <2> QED
    BY <1>3, <2>1, <2>3
<1>6. \A q \in Prios : Range(ready[q]) = {u \in R : prio[u] = q}
  BY DEF RunListsAgree, Lists
<1>7. ASSUME NEW q \in Prios, ready[q] # <<>> PROVE \E u \in R : prio[u] = q
  <2>1. ready[q] \in Seq(Threads)
    BY DEF TypeOK, Queues
  <2>2. Head(ready[q]) \in Range(ready[q])
    BY <1>7, <2>1, HeadTailLists DEF RunListsAgree, Lists
  <2> QED
    BY <1>6, <2>2
<1>8. ready[prio[t]] # <<>>
  BY <1>1, <1>6, EmptyLists
<1> QED
  BY <1>1, <1>5, <1>7, <1>8 DEF IsTop

\* The head of a sorted list has the highest priority in it.
LEMMA TopIsHighest ==
  ASSUME TypeOK, RunListsAgree, NEW p \in Prios, IsTop(ready, p)
  PROVE  /\ Head(ready[p]) \in Threads /\ prio[Head(ready[p])] = p
         /\ \A t \in Threads : tstate[t] = "Ready" => prio[t] <= p
<1>1. ready[p] \in Seq(Threads) /\ ready[p] # <<>>
      /\ Lists(ready[p], {t \in Threads : tstate[t] = "Ready" /\ prio[t] = p})
  BY DEF TypeOK, Queues, IsTop, RunListsAgree
<1>2. Head(ready[p]) \in {t \in Threads : tstate[t] = "Ready" /\ prio[t] = p}
  BY <1>1, HeadTailLists
<1>3. ASSUME NEW t \in Threads, tstate[t] = "Ready" PROVE prio[t] <= p
  <2>1. prio[t] \in Prios /\ prio[t] \in Int /\ p \in Int
    BY ConstantsAssumption DEF TypeOK
  <2>2. t \in Range(ready[prio[t]])
    BY <1>3, <2>1 DEF RunListsAgree, Lists
  <2>3. ready[prio[t]] # <<>>
    BY <2>2, EmptyLists
  <2> QED
    BY <2>1, <2>3 DEF IsTop
<1> QED
  BY <1>2, <1>3

LEMMA PriorityStep ==
  ASSUME Inv, Schedule, phase' = "exec", ~Keeps(current),
         NEW t \in Threads, tstate'[t] = "Ready"
  PROVE  prio[t] <= prio[current']
<1>1. TypeOK /\ RunListsAgree /\ prio[t] \in Int
  BY ConstantsAssumption DEF Inv, TypeOK
<1>2. CASE ScheduleReady
  <2>1. PICK p \in Prios :
          /\ IsTop(ready, p) /\ current' = Head(ready[p])
          /\ tstate' = [tstate EXCEPT ![Head(ready[p])] = "Running"]
    BY <1>2 DEF ScheduleReady
  <2>2. tstate[t] = "Ready"
    BY <1>1, <2>1 DEF TypeOK
  <2> QED
    BY <1>1, <2>1, <2>2, TopIsHighest
<1>3. CASE ScheduleRunning
  <2>1. /\ Candidate # NULL /\ current' = Candidate /\ tstate[t] = "Ready"
        /\ \A p \in Prios : IsTop(ready, p) => ~Replaces(Head(ready[p]))
    BY <1>3 DEF ScheduleRunning, threadVars
  <2>2. Candidate \in Threads /\ prio[Candidate] \in Int
    BY <1>1, <2>1, CandidateRuns, ConstantsAssumption DEF TypeOK
  <2>3. PICK p \in Prios : IsTop(ready, p)
    BY <1>1, <2>1, TopExists
  <2>4. prio[Head(ready[p])] = p /\ prio[t] <= p /\ p \in Int
    BY <1>1, <2>1, <2>3, TopIsHighest, ConstantsAssumption
  <2>5. p < prio[Candidate]
    BY <2>1, <2>2, <2>3, <2>4 DEF Replaces
  <2> QED
    BY <1>1, <2>1, <2>2, <2>4, <2>5
<1> QED
  BY <1>2, <1>3 DEF Schedule, ScheduleKeep, ScheduleNone, Cycling

\* The scheduler prefers no thread to a ready one of higher priority.
THEOREM PriorityCorrect == Spec => ReadyPriority
<1> DEFINE A == phase = "sched" /\ phase' = "exec" /\ ~Keeps(current) =>
                  \A t \in Threads : tstate'[t] = "Ready" => prio[t] <= prio[current']
<1>1. Next /\ phase = "sched" /\ phase' = "exec" => Schedule
  BY DEF Next, Execute, Run, Done, vars, Executes, NewThread, LockMtx, LockMtxInt,
     UnlockMtx, JoinThread, KillThread, End, Fatal, Yield, CritBegin, CritEnd,
     Suspend, Resume, SetTimeslice, Other
<1>2. Inv /\ [Next]_vars => [A]_vars
  BY <1>1, PriorityStep
<1> QED
  BY <1>2, Invariance, PTL DEF Spec, ReadyPriority

-----------------------------------------------------------------------------
(* The lists implement ThreadQueues.                                         *)

\* Removing a thread is the same operation in both specifications.
LEMMA OutIsWithout == \A q, t : TQ!Out(q, t) = Without(q, t) /\ TQ!Held(q) = Range(q)
BY DEF TQ!Out, Without, TQ!Held, Range

\* mutex_unlock of l moves all the threads that wait for l, or none.
LEMMA UnlockRefines ==
  ASSUME NEW l \in WaitPlaces, Unlock(l, current, tstate, ready), UNCHANGED <<prio, running>>
  PROVE  [TQ!Next]_(TQ!vars)
<1>1. CASE count[l] > 1
  BY <1>1 DEF Unlock, TQ!vars
<1>2. CASE ~(count[l] > 1)
  <2>1. TQ!Wake(l)
    BY <1>2 DEF Unlock, InsertAll, TQ!Wake, TQ!Nobody, NoThreads
  <2> QED
    BY <2>1 DEF TQ!Next, TQ!Places, WaitPlaces
<1> QED
  BY <1>1, <1>2

\* The current thread waits for a lock.
LEMMA BlockOnRefines ==
  ASSUME Inv, NEW l \in Locks, current \in Threads, tstate[current] = "Running",
         BlockOn(l, current)
  PROVE  TQ!Next
<1>1. current \in Range(running) /\ l \in WaitPlaces /\ prio[current] \in Prios
  BY DEF Inv, RunListsAgree, Lists, WaitPlaces, TypeOK
<1>2. running' = TQ!Out(running, current)
  BY OutIsWithout DEF BlockOn
<1>3. pending' = [pending EXCEPT ![l][prio[current]] =
                    IF l \in Locks THEN Append(@, current) ELSE <<current>> \o @]
  BY DEF BlockOn, Insert
<1>4. TQ!Wait(current, l)
  BY <1>1, <1>2, <1>3, OutIsWithout DEF TQ!Wait, BlockOn
<1> QED
  BY <1>1, <1>4 DEF TQ!Next, TQ!Places, WaitPlaces

\* The death of v wakes its joiners, because it held its join mutex once.
LEMMA KillRefines ==
  ASSUME Inv, NEW v \in Threads, tstate[v] \in {"Ready", "Running"}, Kill(v)
  PROVE  TQ!Next
<1> DEFINE rdy == IF tstate[v] = "Ready"
                  THEN [ready EXCEPT ![prio[v]] = Without(@, v)] ELSE ready
<1>1. v \in Live /\ count[v] = 1
  BY DEF Inv, JoinMutexHeld, Live
<1>2. /\ pending' = [pending EXCEPT ![v] = NoThreads]
      /\ ready' = InsertAll(rdy, pending[v])
  BY <1>1 DEF Kill, Unlock
<1>3. \A p \in Prios : /\ v \in Range(ready[p]) <=> tstate[v] = "Ready" /\ prio[v] = p
                       /\ rdy[p] = TQ!Out(ready[p], v)
  <2> TAKE p \in Prios
  <2>1. v \in Range(ready[p]) <=> tstate[v] = "Ready" /\ prio[v] = p
    BY DEF Inv, RunListsAgree, Lists
  <2>2. CASE tstate[v] = "Ready" /\ prio[v] = p
    <3>1. ready \in [Prios -> Seq(Threads)]
      BY DEF Inv, TypeOK, Queues
    <3>2. rdy[p] = Without(ready[p], v)
      BY <2>2, <3>1
    <3> QED
      BY <2>1, <3>2, OutIsWithout
  <2>3. CASE ~(tstate[v] = "Ready" /\ prio[v] = p)
    <3>1. rdy[p] = ready[p]
      BY <2>3 DEF Inv, TypeOK, Queues
    <3>2. TQ!Out(ready[p], v) = ready[p]
      BY <2>1, <2>3, OutIsWithout DEF TQ!Out
    <3> QED
      BY <2>1, <3>1, <3>2
  <2> QED
    BY <2>1, <2>2, <2>3
<1> HIDE DEF rdy
<1>4. ready' = [p \in Prios |-> TQ!Out(ready[p], v) \o pending[v][p]]
  BY <1>2, <1>3 DEF InsertAll
<1>5. v \in Range(running) <=> tstate[v] = "Running"
  BY DEF Inv, RunListsAgree, Lists
<1>6. running' = TQ!Out(running, v)
  <2>1. CASE tstate[v] = "Running"
    BY <2>1, OutIsWithout DEF Kill
  <2>2. CASE tstate[v] # "Running"
    BY <1>5, <2>2, OutIsWithout DEF Kill, TQ!Out
  <2> QED
    BY <2>1, <2>2
<1>7. v \in Range(running) \/ TQ!In(v, ready)
  BY <1>3, <1>5, OutIsWithout DEF TQ!In, Inv, TypeOK
<1>8. TQ!Leave(v)
  BY <1>2, <1>4, <1>6, <1>7, OutIsWithout DEF TQ!Leave, TQ!Nobody, NoThreads, Kill
<1> QED
  BY <1>8 DEF TQ!Next

\* A thread that is not born yet is in no list.
LEMMA AddRefines ==
  ASSUME Inv, NEW t \in Threads, NEW p \in Prios, Add(t, p)
  PROVE  TQ!Next
<1>1. tstate[t] = "None"
  BY DEF Add
<1>2. ~TQ!Listed(t)
  <2>1. t \notin Range(running) /\ ~TQ!In(t, ready)
    BY <1>1, OutIsWithout DEF Inv, RunListsAgree, Lists, TQ!In
  <2>2. \A x \in WaitPlaces : ~TQ!In(t, pending[x])
    BY <1>1, OutIsWithout DEF Inv, WaitListsAgree, TQ!In
  <2> QED
    BY <2>1, <2>2, OutIsWithout DEF TQ!Listed, TQ!Places, WaitPlaces
<1>3. TQ!Enter(t, p)
  BY <1>2 DEF Add, LockJoin, Grant, Insert, TQ!Enter
<1> QED
  BY <1>3 DEF TQ!Next

LEMMA ExecuteRefines == ASSUME Inv, Execute PROVE [TQ!Next]_(TQ!vars)
<1>1. /\ current \in Threads /\ current # NULL /\ tstate[current] = "Running"
      /\ current \in Range(running)
  <2>1. PICK op : Executes(op)
    BY DEF Execute, NewThread, LockMtx, LockMtxInt, UnlockMtx, JoinThread, KillThread, End,
       Fatal, Yield, CritBegin, CritEnd, Suspend, Resume, SetTimeslice, Other
  <2>2. current \in Threads /\ current # NULL /\ tstate[current] = "Running"
    BY <2>1, ExecutesRuns
  <2> QED
    BY <2>2 DEF Inv, RunListsAgree, Lists
<1>2. Fail => TQ!Next
  BY <1>1, KillRefines DEF Fail
<1>3. CASE NewThread
  BY <1>3, AddRefines DEF NewThread
<1>4. CASE LockMtx \/ LockMtxInt
  <2>1. PICK m \in Mutexes : BlockOn(m, current) \/ (Grant(m, current) /\ UNCHANGED threadVars)
    BY <1>4 DEF LockMtx, LockMtxInt
  <2>2. m \in Locks
    BY DEF Locks
  <2> QED
    BY <1>1, <2>1, <2>2, BlockOnRefines DEF Grant, threadVars, TQ!vars
<1>5. CASE UnlockMtx
  <2>1. PICK m \in Mutexes :
          \/ Unlock(m, current, tstate, ready) /\ UNCHANGED <<prio, running>>
          \/ Fail
    BY <1>5 DEF UnlockMtx
  <2>2. m \in WaitPlaces
    BY DEF Locks, WaitPlaces
  <2> QED
    BY <1>2, <2>1, <2>2, UnlockRefines
<1>6. CASE JoinThread
  <2>1. PICK j \in Threads :
          \/ Unlock(j, current, tstate, ready) /\ UNCHANGED <<prio, running>>
          \/ UNCHANGED <<threadVars, lockVars>>
          \/ BlockOn(j, current)
    BY <1>6 DEF JoinThread
  <2>2. j \in Locks /\ j \in WaitPlaces
    BY DEF Locks, WaitPlaces
  <2>3. CASE UNCHANGED <<threadVars, lockVars>>
    BY <2>3 DEF threadVars, lockVars, TQ!vars
  <2> QED
    BY <1>1, <2>1, <2>2, <2>3, UnlockRefines, BlockOnRefines
<1>7. CASE KillThread
  <2>1. PICK v \in Threads : tstate[v] \in {"Ready", "Running"} /\ Kill(v)
    BY <1>7, ConstantsAssumption DEF KillThread
  <2> QED
    BY <2>1, KillRefines
<1>8. CASE End
  BY <1>1, <1>8, KillRefines DEF End
<1>9. CASE Fatal
  BY <1>2, <1>9 DEF Fatal
<1>10. CASE CritBegin \/ CritEnd
  BY <1>2, <1>10 DEF CritBegin, CritEnd, threadVars, lockVars, TQ!vars
<1>11. CASE Yield
  <2>1. TQ!Yield(current)
    BY <1>1, <1>11, OutIsWithout DEF Yield, Insert, lockVars, TQ!Yield
  <2> QED
    BY <1>1, <2>1 DEF TQ!Next
<1>12. CASE Suspend
  <2>1. PICK b \in Blockers : pending' = [pending EXCEPT ![b][prio[current]] = <<current>> \o @]
    BY <1>12 DEF Suspend
  <2>2. b \notin Locks
    BY ConstantsAssumption
  <2>3. TQ!Wait(current, b)
    BY <1>1, <1>12, <2>1, <2>2, OutIsWithout DEF Suspend, TQ!Wait
  <2> QED
    BY <1>1, <2>3 DEF TQ!Next, TQ!Places
<1>13. CASE Resume
  <2>1. PICK b \in Blockers : /\ pending' = [pending EXCEPT ![b] = NoThreads]
                              /\ ready' = InsertAll(ready, pending[b])
                              /\ UNCHANGED <<prio, running>>
    BY <1>13 DEF Resume
  <2>2. TQ!Wake(b)
    BY <2>1 DEF TQ!Wake, TQ!Nobody, NoThreads, InsertAll
  <2> QED
    BY <2>2 DEF TQ!Next, TQ!Places
<1>14. CASE SetTimeslice \/ Other
  BY <1>14 DEF SetTimeslice, Other, threadVars, lockVars, TQ!vars
<1> QED
  BY <1>3, <1>4, <1>5, <1>6, <1>7, <1>8, <1>9, <1>10, <1>11, <1>12, <1>13, <1>14 DEF Execute

LEMMA ScheduleRefines == ASSUME Schedule PROVE [TQ!Next]_(TQ!vars)
<1>1. CASE ScheduleReady
  <2>1. PICK p \in Prios : /\ IsTop(ready, p)
                           /\ ready' = [ready EXCEPT ![p] = Tail(@)]
                           /\ running' = Append(running, Head(ready[p]))
    BY <1>1 DEF ScheduleReady
  <2>2. TQ!Dispatch(p)
    BY <1>1, <2>1 DEF ScheduleReady, IsTop, lockVars, TQ!Dispatch, TQ!First
  <2> QED
    BY <2>2 DEF TQ!Next
<1>2. CASE ScheduleKeep \/ ScheduleRunning \/ ScheduleNone
  BY <1>2 DEF ScheduleKeep, ScheduleRunning, ScheduleNone, threadVars, lockVars, TQ!vars
<1> QED
  BY <1>1, <1>2 DEF Schedule

\* Threads implements ThreadQueues: every step of an opcode, of the scheduler
\* or of the client is a step of the lists or leaves them alone.
THEOREM QueuesImplemented == Spec => ImplementsQueues
<1>1. Init => TQ!Init
  BY ConstantsAssumption DEF Init, TQ!Init, TQ!Nobody, TQ!Places, NoThreads, WaitPlaces
<1>2. Inv /\ [Next]_vars => [TQ!Next]_(TQ!vars)
  <2> SUFFICES ASSUME Inv, [Next]_vars PROVE [TQ!Next]_(TQ!vars)
    OBVIOUS
  <2>1. CASE Schedule
    BY <2>1, ScheduleRefines
  <2>2. CASE Execute
    BY <2>2, ExecuteRefines
  <2>3. CASE Run
    BY <2>3, AddRefines DEF Run
  <2>4. CASE Done \/ UNCHANGED vars
    BY <2>4 DEF Done, vars, threadVars, lockVars, TQ!vars
  <2> QED
    BY <2>1, <2>2, <2>3, <2>4 DEF Next
<1> QED
  BY <1>1, <1>2, Invariance, PTL DEF Spec, TQ!Spec, ImplementsQueues
=============================================================================
