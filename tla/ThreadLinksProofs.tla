-------------------------- MODULE ThreadLinksProofs --------------------------
(***************************************************************************)
(* The thread lists are whole, for any threads, locks, blockers and        *)
(* priorities, and implement ThreadQueues.                                 *)
(*                                                                         *)
(* The lists are given as sequences, Q[l] for list l.  Chains says that    *)
(* the links in memory are those of these sequences.  Every macro of       *)
(* list.h takes a node out of one sequence or puts one into it (SplicedIn, *)
(* SplicedOut), and thread_set_state does one after the other.             *)
(***************************************************************************)
EXTENDS ThreadLinks, WellFoundedInduction, FiniteSetTheorems, TLAPS

Node == Threads \cup {NULL}
States == {"None", "Start", "Ready", "Running", "Blocked", "Zombie"}

\* Memory in which nothing was written through NULL.
Memory == [next  : [Threads -> Node],  prev : [Threads -> Node],
           head  : [Lists -> Node],    tail : [Lists -> Node],
           state : [Threads -> States], prio : [Threads -> Prios], bad : {FALSE}]

\* List l of memory m is q.
Chain(m, l, q) ==
  /\ q \in Seq(Threads)
  /\ \A i, j \in 1 .. Len(q) : q[i] = q[j] => i = j
  /\ m.head[l] = IF Len(q) = 0 THEN NULL ELSE q[1]
  /\ m.tail[l] = IF Len(q) = 0 THEN NULL ELSE q[Len(q)]
  /\ \A i \in 1 .. Len(q) :
       /\ m.next[q[i]] = IF i = Len(q) THEN NULL ELSE q[i + 1]
       /\ m.prev[q[i]] = IF i = 1 THEN NULL ELSE q[i - 1]

Chains(m, Q) ==
  /\ m \in Memory /\ Q \in [Lists -> Seq(Threads)]
  /\ \A l \in Lists : Chain(m, l, Q[l])
  /\ \A l, k \in Lists : \A i \in 1 .. Len(Q[l]), j \in 1 .. Len(Q[k]) :
       Q[l][i] = Q[k][j] => l = k

\* t is in none of the lists.
Free(Q, t) == \A l \in Lists : \A i \in 1 .. Len(Q[l]) : Q[l][i] # t

InOrder(prio, q) == \A i, j \in 1 .. Len(q) : i < j => prio[q[i]] >= prio[q[j]]

VmLists == {"ready", "running", "zombie"}
StateIn(l) == CASE l = "ready" -> "Ready" [] l = "running" -> "Running"
                [] l = "zombie" -> "Zombie" [] OTHER -> "Blocked"

\* The threads are in the lists of their states, and the lists in order.
Linked(m, Q) ==
  /\ Chains(m, Q)
  /\ \A l \in Lists \ {"running", "zombie"} : InOrder(m.prio, Q[l])
  /\ \A l \in Lists : \A i \in 1 .. Len(Q[l]) : m.state[Q[l][i]] = StateIn(l)
  /\ \A l \in VmLists, t \in Threads :
       m.state[t] = StateIn(l) => \E i \in 1 .. Len(Q[l]) : Q[l][i] = t
-----------------------------------------------------------------------------
(* The invariant. *)

AllNodes(m) == [l \in Lists |-> NodesOf(m, l)]
\* No thread is in q twice.
Once(q) == \A i, j \in 1 .. Len(q) : q[i] = q[j] => i = j
Dead(state) == state \in {"None", "Zombie"}

TypeOK ==
  /\ phase \in {"sched", "exec"}
  /\ current \in Node
  /\ owner \in [Locks -> Node]
  /\ count \in [Locks -> Nat]
  /\ pending_lock \in [Threads -> Locks \cup {NULL}]

\* An opcode is executed by a running thread.
CurrentRuns == phase = "exec" => current \in Threads /\ mem.state[current] = "Running"

\* Threads that are blocked and in no list.
Asleep(m, Q, q) ==
  /\ q \in Seq(Threads) /\ Once(q)
  /\ \A i \in 1 .. Len(q) : m.state[q[i]] = "Blocked" /\ Free(Q, q[i])

\* A blocker holds threads that wait for it and nothing else.
Sleepers(m, Q, st) ==
  /\ \A b \in Blockers : Asleep(m, Q, st[b])
  /\ \A b, c \in Blockers : \A i \in 1 .. Len(st[b]), j \in 1 .. Len(st[c]) :
       st[b][i] = st[c][j] => b = c

\* A thread owns its join mutex, once, as long as it lives.
JoinsHeld(state, own, cnt) ==
  \A t \in Threads : IF Dead(state[t]) THEN own[t] = NULL /\ cnt[t] = 0
                     ELSE own[t] = t /\ cnt[t] = 1

Inv ==
  /\ TypeOK /\ stack \in [Blockers -> Seq(Threads)]
  /\ Linked(mem, AllNodes(mem)) /\ CurrentRuns
  /\ Sleepers(mem, AllNodes(mem), stack)
  /\ JoinsHeld(mem.state, owner, count)


-----------------------------------------------------------------------------
(* Sequences. *)

Insertion(q, i, t) ==
  [k \in 1 .. Len(q) + 1 |-> IF k <= i THEN q[k] ELSE IF k = i + 1 THEN t ELSE q[k - 1]]
Deletion(q, i) == [k \in 1 .. Len(q) - 1 |-> IF k < i THEN q[k] ELSE q[k + 1]]

LEMMA Least ==
  ASSUME NEW T, T \subseteq Nat, T # {}
  PROVE  \E x \in T : \A y \in T : x <= y
<1>1. PICK x \in T : \A y \in T : <<y, x>> \notin OpToRel(<, Nat)
  BY NatLessThanWellFounded, WFMin
<1>2. ASSUME NEW y \in T PROVE ~ (y < x)
  BY <1>1, <1>2 DEF OpToRel
<1> QED
  BY <1>2

\* What holds of zero and of the successor of every number of which it holds.
LEMMA UpTo ==
  ASSUME NEW n \in Nat, NEW T, 0 \in T, \A i \in 0 .. n - 1 : i \in T => i + 1 \in T
  PROVE  \A i \in 0 .. n : i \in T
<1> DEFINE Bad == {i \in 0 .. n : i \notin T}
<1>1. SUFFICES ASSUME Bad # {} PROVE FALSE
  OBVIOUS
<1>2. PICK x \in Bad : \A y \in Bad : x <= y
  <2>1. Bad \subseteq Nat
    OBVIOUS
  <2> HIDE DEF Bad
  <2> QED
    BY <1>1, <2>1, Least
<1>3. x \in Nat /\ x # 0 /\ x - 1 \in 0 .. n - 1
  OBVIOUS
<1>4. x - 1 \in T
  BY <1>2, <1>3
<1>5. (x - 1) + 1 \in T /\ (x - 1) + 1 = x
  BY <1>3, <1>4
<1> QED
  BY <1>2, <1>5

LEMMA SeqFacts ==
  ASSUME NEW S, NEW q \in Seq(S)
  PROVE  /\ Len(q) \in Nat /\ DOMAIN q = 1 .. Len(q)
         /\ \A i \in 1 .. Len(q) : q[i] \in S
         /\ q = <<>> <=> Len(q) = 0
OBVIOUS

LEMMA IsSeq ==
  ASSUME NEW S, NEW n \in Nat, NEW q, q = [k \in 1 .. n |-> q[k]], \A k \in 1 .. n : q[k] \in S
  PROVE  q \in Seq(S) /\ Len(q) = n /\ DOMAIN q = 1 .. n
<1>1. [k \in 1 .. n |-> q[k]] \in Seq(S) /\ Len([k \in 1 .. n |-> q[k]]) = n
  OBVIOUS
<1> QED
  BY <1>1

LEMMA SameSeq ==
  ASSUME NEW S, NEW q \in Seq(S), NEW r \in Seq(S), Len(q) = Len(r),
         \A k \in 1 .. Len(q) : q[k] = r[k]
  PROVE  q = r
OBVIOUS

LEMMA InsertionIs ==
  ASSUME NEW S, NEW q \in Seq(S), NEW i \in 0 .. Len(q), NEW t \in S
  PROVE  /\ Insertion(q, i, t) \in Seq(S) /\ Len(Insertion(q, i, t)) = Len(q) + 1
         /\ \A k \in 1 .. i : Insertion(q, i, t)[k] = q[k]
         /\ Insertion(q, i, t)[i + 1] = t
         /\ \A k \in i + 2 .. Len(q) + 1 : Insertion(q, i, t)[k] = q[k - 1]
<1> DEFINE r == Insertion(q, i, t)
<1>1. Len(q) \in Nat /\ Len(q) + 1 \in Nat /\ \A k \in 1 .. Len(q) : q[k] \in S
  BY SeqFacts
<1>2. /\ r = [k \in 1 .. Len(q) + 1 |-> r[k]]
      /\ \A k \in 1 .. Len(q) + 1 :
           r[k] = IF k <= i THEN q[k] ELSE IF k = i + 1 THEN t ELSE q[k - 1]
  BY DEF Insertion
<1>3. \A k \in 1 .. Len(q) + 1 : r[k] \in S
  BY <1>1, <1>2
<1> HIDE DEF r
<1>4. r \in Seq(S) /\ Len(r) = Len(q) + 1
  BY <1>1, <1>2, <1>3, IsSeq
<1> QED
  BY <1>1, <1>2, <1>4 DEF r

LEMMA DeletionIs ==
  ASSUME NEW S, NEW q \in Seq(S), NEW i \in 1 .. Len(q)
  PROVE  /\ Deletion(q, i) \in Seq(S) /\ Len(Deletion(q, i)) = Len(q) - 1
         /\ \A k \in 1 .. i - 1 : Deletion(q, i)[k] = q[k]
         /\ \A k \in i .. Len(q) - 1 : Deletion(q, i)[k] = q[k + 1]
<1> DEFINE r == Deletion(q, i)
<1>1. Len(q) \in Nat /\ Len(q) - 1 \in Nat /\ \A k \in 1 .. Len(q) : q[k] \in S
  BY SeqFacts
<1>2. /\ r = [k \in 1 .. Len(q) - 1 |-> r[k]]
      /\ \A k \in 1 .. Len(q) - 1 : r[k] = IF k < i THEN q[k] ELSE q[k + 1]
  BY DEF Deletion
<1>3. \A k \in 1 .. Len(q) - 1 : r[k] \in S
  BY <1>1, <1>2
<1> HIDE DEF r
<1>4. r \in Seq(S) /\ Len(r) = Len(q) - 1
  BY <1>1, <1>2, <1>3, IsSeq
<1> QED
  BY <1>1, <1>2, <1>4 DEF r

-----------------------------------------------------------------------------
(* What the macros do to the links: node t is put into list l, which is q,   *)
(* after its first i nodes, or node i is taken out of it.                    *)

SplicedIn(m, m2, l, q, i, t) ==
  /\ m2 \in Memory /\ m2.state = m.state /\ m2.prio = m.prio
  /\ \A u \in Threads :
       /\ m2.next[u] = IF u = t THEN IF i = Len(q) THEN NULL ELSE q[i + 1]
                       ELSE IF i > 0 /\ u = q[i] THEN t ELSE m.next[u]
       /\ m2.prev[u] = IF u = t THEN IF i = 0 THEN NULL ELSE q[i]
                       ELSE IF i < Len(q) /\ u = q[i + 1] THEN t ELSE m.prev[u]
  /\ \A k \in Lists :
       /\ m2.head[k] = IF k = l /\ i = 0 THEN t ELSE m.head[k]
       /\ m2.tail[k] = IF k = l /\ i = Len(q) THEN t ELSE m.tail[k]

SplicedOut(m, m2, l, q, i) ==
  /\ m2 \in Memory /\ m2.state = m.state /\ m2.prio = m.prio
  /\ \A u \in Threads \ {q[i]} :
       /\ m2.next[u] = IF i > 1 /\ u = q[i - 1] THEN IF i = Len(q) THEN NULL ELSE q[i + 1]
                       ELSE m.next[u]
       /\ m2.prev[u] = IF i < Len(q) /\ u = q[i + 1] THEN IF i = 1 THEN NULL ELSE q[i - 1]
                       ELSE m.prev[u]
  /\ \A k \in Lists :
       /\ m2.head[k] = IF k = l /\ i = 1 THEN IF Len(q) = 1 THEN NULL ELSE q[2] ELSE m.head[k]
       /\ m2.tail[k] = IF k = l /\ i = Len(q) THEN IF Len(q) = 1 THEN NULL ELSE q[Len(q) - 1]
                       ELSE m.tail[k]

LEMMA InsertedChain ==
  ASSUME NEW m, NEW m2, NEW l \in Lists, NEW q, Chain(m, l, q), NEW i \in 0 .. Len(q),
         NEW t \in Threads, \A k \in 1 .. Len(q) : q[k] # t, SplicedIn(m, m2, l, q, i, t)
  PROVE  Chain(m2, l, Insertion(q, i, t))
<1> DEFINE r == Insertion(q, i, t)
<1>1. /\ q \in Seq(Threads) /\ Len(q) \in Nat /\ \A k \in 1 .. Len(q) : q[k] \in Threads
      /\ \A j, k \in 1 .. Len(q) : q[j] = q[k] => j = k
  BY SeqFacts DEF Chain
<1>2. /\ r \in Seq(Threads) /\ Len(r) = Len(q) + 1
      /\ \A k \in 1 .. i : r[k] = q[k]
      /\ r[i + 1] = t
      /\ \A k \in i + 2 .. Len(q) + 1 : r[k] = q[k - 1]
  <2>1. q \in Seq(Threads) /\ i \in 0 .. Len(q) /\ t \in Threads
    BY <1>1
  <2> QED
    <3>1. Insertion(q, i, t) \in Seq(Threads) /\ Len(Insertion(q, i, t)) = Len(q) + 1
      BY <2>1, InsertionIs
    <3>2. \A k \in 1 .. i : Insertion(q, i, t)[k] = q[k]
      BY <2>1, InsertionIs
    <3>3. Insertion(q, i, t)[i + 1] = t
      BY <2>1, InsertionIs
    <3>4. \A k \in i + 2 .. Len(q) + 1 : Insertion(q, i, t)[k] = q[k - 1]
      BY <2>1, InsertionIs
    <3> QED
      BY <3>1, <3>2, <3>3, <3>4
<1> HIDE DEF r
<1> DEFINE was(j) == IF j <= i THEN j ELSE j - 1
<1>3. \A j, k \in 1 .. Len(r) : r[j] = r[k] => j = k
  <2>1. ASSUME NEW j \in 1 .. Len(r), j # i + 1
        PROVE  was(j) \in 1 .. Len(q) /\ r[j] = q[was(j)]
    <3>1. CASE j <= i
      <4>1. j \in 1 .. i /\ j \in 1 .. Len(q)
        BY <1>1, <1>2, <3>1
      <4> QED
        BY <1>2, <3>1, <4>1
    <3>2. CASE ~(j <= i)
      <4>1. j \in i + 2 .. Len(q) + 1 /\ j - 1 \in 1 .. Len(q)
        BY <1>1, <1>2, <2>1, <3>2
      <4> QED
        BY <1>2, <3>2, <4>1
    <3> QED
      BY <3>1, <3>2
  <2>2. ASSUME NEW j \in 1 .. Len(r), j # i + 1 PROVE r[j] # t
    BY <1>1, <2>1, <2>2
  <2>3. ASSUME NEW j \in 1 .. Len(r), NEW k \in 1 .. Len(r), j # i + 1, k # i + 1,
               was(j) = was(k)
        PROVE  j = k
    BY <1>1, <1>2, <2>3
  <2> HIDE DEF was
  <2>4. SUFFICES ASSUME NEW j \in 1 .. Len(r), NEW k \in 1 .. Len(r), r[j] = r[k]
                 PROVE  j = k
    OBVIOUS
  <2>5. CASE j = i + 1 \/ k = i + 1
    BY <1>2, <2>2, <2>4, <2>5
  <2>6. CASE j # i + 1 /\ k # i + 1
    <3>1. was(j) = was(k)
      BY <1>1, <2>1, <2>4, <2>6
    <3> QED
      BY <2>3, <2>6, <3>1
  <2> QED
    BY <2>5, <2>6
<1>4. m2.head[l] = r[1] /\ m2.tail[l] = r[Len(r)]
  <2>1. /\ m2.head[l] = IF i = 0 THEN t ELSE m.head[l]
        /\ m2.tail[l] = IF i = Len(q) THEN t ELSE m.tail[l]
    BY DEF SplicedIn
  <2>2. /\ m.head[l] = IF Len(q) = 0 THEN NULL ELSE q[1]
        /\ m.tail[l] = IF Len(q) = 0 THEN NULL ELSE q[Len(q)]
    BY DEF Chain
  <2>3. r[1] = IF i = 0 THEN t ELSE q[1]
    BY <1>1, <1>2
  <2>4. r[Len(r)] = IF i = Len(q) THEN t ELSE q[Len(q)]
    BY <1>1, <1>2
  <2>5. i # 0 => Len(q) # 0
    BY <1>1
  <2>6. i # Len(q) => Len(q) # 0
    BY <1>1
  <2> QED
    BY <2>1, <2>2, <2>3, <2>4, <2>5, <2>6
<1>5. ASSUME NEW k \in 1 .. Len(r)
      PROVE  /\ m2.next[r[k]] = IF k = Len(r) THEN NULL ELSE r[k + 1]
             /\ m2.prev[r[k]] = IF k = 1 THEN NULL ELSE r[k - 1]
  <2>1. CASE k = i + 1
    BY <1>1, <1>2, <2>1 DEF SplicedIn
  <2>2. CASE k <= i
    <3>1. k \in 1 .. Len(q) /\ r[k] = q[k] /\ q[k] \in Threads /\ q[k] # t
      BY <1>1, <1>2, <2>2
    <3>2. /\ m.next[q[k]] = IF k = Len(q) THEN NULL ELSE q[k + 1]
          /\ m.prev[q[k]] = IF k = 1 THEN NULL ELSE q[k - 1]
      BY <3>1 DEF Chain
    <3>3. m2.prev[q[k]] = m.prev[q[k]]
      <4>1. i < Len(q) => i + 1 \in 1 .. Len(q) /\ q[k] # q[i + 1]
        BY <1>1, <2>2, <3>1
      <4> QED
        BY <3>1, <4>1 DEF SplicedIn
    <3>4. m2.next[q[k]] = IF k = i THEN t ELSE m.next[q[k]]
      <4>1. i > 0 /\ i \in 1 .. Len(q) /\ (q[k] = q[i] <=> k = i)
        BY <1>1, <2>2, <3>1
      <4> QED
        BY <3>1, <4>1 DEF SplicedIn
    <3> QED
      BY <1>1, <1>2, <2>2, <3>1, <3>2, <3>3, <3>4
  <2>3. CASE k > i + 1
    <3>1. /\ k - 1 \in 1 .. Len(q) /\ r[k] = q[k - 1] /\ q[k - 1] \in Threads /\ q[k - 1] # t
          /\ i + 1 \in 1 .. Len(q)
      <4>1. k \in i + 2 .. Len(q) + 1 /\ k - 1 \in 1 .. Len(q) /\ i + 1 \in 1 .. Len(q)
        BY <1>1, <1>2, <2>3
      <4> QED
        BY <1>1, <1>2, <4>1
    <3>2. /\ m.next[q[k - 1]] = IF k - 1 = Len(q) THEN NULL ELSE q[(k - 1) + 1]
          /\ m.prev[q[k - 1]] = IF k - 1 = 1 THEN NULL ELSE q[(k - 1) - 1]
      BY <3>1 DEF Chain
    <3>3. m2.next[q[k - 1]] = m.next[q[k - 1]]
      <4>1. i > 0 => i \in 1 .. Len(q) /\ q[k - 1] # q[i]
        BY <1>1, <2>3, <3>1
      <4> QED
        BY <3>1, <4>1 DEF SplicedIn
    <3>4. m2.prev[q[k - 1]] = IF k - 1 = i + 1 THEN t ELSE m.prev[q[k - 1]]
      <4>1. i < Len(q) /\ (q[k - 1] = q[i + 1] <=> k - 1 = i + 1)
        BY <1>1, <2>3, <3>1
      <4> QED
        BY <3>1, <4>1 DEF SplicedIn
    <3>5. (k - 1) + 1 = k /\ Len(r) = Len(q) + 1 /\ k \in 1 .. Len(q) + 1
      BY <1>2
    <3> QED
      BY <1>1, <1>2, <2>3, <3>1, <3>2, <3>3, <3>4, <3>5
  <2> QED
    BY <1>1, <1>2, <2>1, <2>2, <2>3
<1>6. Len(r) # 0
  BY <1>1, <1>2
<1> QED
  BY <1>2, <1>3, <1>4, <1>5, <1>6 DEF Chain, r

LEMMA DeletedChain ==
  ASSUME NEW m, NEW m2, NEW l \in Lists, NEW q, Chain(m, l, q), NEW i \in 1 .. Len(q),
         SplicedOut(m, m2, l, q, i)
  PROVE  Chain(m2, l, Deletion(q, i))
<1> DEFINE r == Deletion(q, i)
<1>1. /\ q \in Seq(Threads) /\ Len(q) \in Nat /\ \A k \in 1 .. Len(q) : q[k] \in Threads
      /\ \A j, k \in 1 .. Len(q) : q[j] = q[k] => j = k
  BY SeqFacts DEF Chain
<1>2. /\ r \in Seq(Threads) /\ Len(r) = Len(q) - 1
      /\ \A k \in 1 .. i - 1 : r[k] = q[k]
      /\ \A k \in i .. Len(q) - 1 : r[k] = q[k + 1]
  BY <1>1, DeletionIs
<1> HIDE DEF r
<1>3. \A j, k \in 1 .. Len(r) : r[j] = r[k] => j = k
  BY <1>1, <1>2
<1>4. /\ m2.head[l] = IF Len(r) = 0 THEN NULL ELSE r[1]
      /\ m2.tail[l] = IF Len(r) = 0 THEN NULL ELSE r[Len(r)]
  BY <1>1, <1>2 DEF Chain, SplicedOut
<1>5. ASSUME NEW k \in 1 .. Len(r)
      PROVE  /\ m2.next[r[k]] = IF k = Len(r) THEN NULL ELSE r[k + 1]
             /\ m2.prev[r[k]] = IF k = 1 THEN NULL ELSE r[k - 1]
  <2>1. CASE k < i
    <3>1. k \in 1 .. Len(q) /\ r[k] = q[k] /\ q[k] \in Threads \ {q[i]}
      <4>1. k \in 1 .. Len(q) /\ k \in 1 .. i - 1 /\ k # i
        BY <1>1, <1>2, <2>1
      <4> QED
        BY <1>1, <1>2, <4>1
    <3>2. /\ m.next[q[k]] = IF k = Len(q) THEN NULL ELSE q[k + 1]
          /\ m.prev[q[k]] = IF k = 1 THEN NULL ELSE q[k - 1]
      BY <3>1 DEF Chain
    <3>3. m2.prev[q[k]] = m.prev[q[k]]
      <4>1. i < Len(q) => i + 1 \in 1 .. Len(q) /\ q[k] # q[i + 1]
        BY <1>1, <2>1, <3>1
      <4> QED
        BY <3>1, <4>1 DEF SplicedOut
    <3>4. m2.next[q[k]] = IF k = i - 1 THEN IF i = Len(q) THEN NULL ELSE q[i + 1]
                          ELSE m.next[q[k]]
      <4>1. i > 1 /\ i - 1 \in 1 .. Len(q) /\ (q[k] = q[i - 1] <=> k = i - 1)
        BY <1>1, <2>1, <3>1
      <4> QED
        BY <3>1, <4>1 DEF SplicedOut
    <3> QED
      BY <1>1, <1>2, <2>1, <3>1, <3>2, <3>3, <3>4
  <2>2. CASE k >= i
    <3>1. /\ k + 1 \in 1 .. Len(q) /\ r[k] = q[k + 1] /\ q[k + 1] \in Threads \ {q[i]}
          /\ i + 1 \in 1 .. Len(q)
      <4>1. /\ k + 1 \in 1 .. Len(q) /\ k \in i .. Len(q) - 1 /\ k + 1 # i
            /\ i + 1 \in 1 .. Len(q)
        BY <1>1, <1>2, <2>2
      <4> QED
        BY <1>1, <1>2, <4>1
    <3>2. /\ m.next[q[k + 1]] = IF k + 1 = Len(q) THEN NULL ELSE q[(k + 1) + 1]
          /\ m.prev[q[k + 1]] = IF k + 1 = 1 THEN NULL ELSE q[(k + 1) - 1]
      BY <3>1 DEF Chain
    <3>3. m2.next[q[k + 1]] = m.next[q[k + 1]]
      <4>1. i > 1 => i - 1 \in 1 .. Len(q) /\ q[k + 1] # q[i - 1]
        BY <1>1, <2>2, <3>1
      <4> QED
        BY <3>1, <4>1 DEF SplicedOut
    <3>4. m2.prev[q[k + 1]] = IF k = i THEN IF i = 1 THEN NULL ELSE q[i - 1]
                              ELSE m.prev[q[k + 1]]
      <4>1. i < Len(q) /\ (q[k + 1] = q[i + 1] <=> k = i)
        BY <1>1, <2>2, <3>1
      <4> QED
        BY <3>1, <4>1 DEF SplicedOut
    <3>5. (k + 1) - 1 = k /\ Len(r) = Len(q) - 1 /\ k \in 1 .. Len(q) - 1
      BY <1>2
    <3>6. m2.next[r[k]] = IF k = Len(r) THEN NULL ELSE r[k + 1]
      <4>1. k + 1 = Len(q) <=> k = Len(r)
        BY <1>1, <1>2, <3>5
      <4>2. k # Len(r) => r[k + 1] = q[(k + 1) + 1]
        BY <1>1, <1>2, <2>2, <3>5
      <4> QED
        BY <3>1, <3>2, <3>3, <4>1, <4>2
    <3>7. m2.prev[r[k]] = IF k = 1 THEN NULL ELSE r[k - 1]
      <4>1. CASE k = i
        <5>1. i # 1 => r[i - 1] = q[i - 1]
          BY <1>1, <1>2
        <5> QED
          BY <3>1, <3>4, <4>1, <5>1
      <4>2. CASE k # i
        <5>1. k # 1 /\ k + 1 # 1 /\ k - 1 \in i .. Len(q) - 1 /\ (k - 1) + 1 = k
          BY <1>1, <1>2, <2>2, <3>5, <4>2
        <5>2. r[k - 1] = q[k]
          BY <1>2, <5>1
        <5> QED
          BY <3>1, <3>2, <3>4, <3>5, <4>2, <5>1, <5>2
      <4> QED
        BY <4>1, <4>2
    <3> QED
      BY <3>6, <3>7
  <2> QED
    BY <1>1, <1>2, <2>1, <2>2
<1> QED
  BY <1>2, <1>3, <1>4, <1>5 DEF Chain, r

LEMMA ChainFacts ==
  ASSUME NEW m, NEW Q, Chains(m, Q), NEW l \in Lists
  PROVE  /\ Q[l] \in Seq(Threads) /\ Len(Q[l]) \in Nat /\ Chain(m, l, Q[l])
         /\ \A i \in 1 .. Len(Q[l]) : Q[l][i] \in Threads
<1>1. Chain(m, l, Q[l]) /\ Q[l] \in Seq(Threads)
  BY DEF Chains
<1> QED
  BY <1>1, SeqFacts

\* A list whose links are untouched.
LEMMA ChainKept ==
  ASSUME NEW m, NEW m2, NEW k, NEW q, Chain(m, k, q),
         m2.head[k] = m.head[k], m2.tail[k] = m.tail[k],
         \A i \in 1 .. Len(q) : m2.next[q[i]] = m.next[q[i]] /\ m2.prev[q[i]] = m.prev[q[i]]
  PROVE  Chain(m2, k, q)
BY DEF Chain

LEMMA SplicesIn ==
  ASSUME NEW m, NEW Q, Chains(m, Q), NEW l \in Lists, NEW i \in 0 .. Len(Q[l]),
         NEW t \in Threads, Free(Q, t), NEW m2, SplicedIn(m, m2, l, Q[l], i, t)
  PROVE  Chains(m2, [Q EXCEPT ![l] = Insertion(Q[l], i, t)])
<1> DEFINE r == Insertion(Q[l], i, t)
           R == [Q EXCEPT ![l] = r]
<1>1. /\ Q \in [Lists -> Seq(Threads)] /\ Len(Q[l]) \in Nat /\ Chain(m, l, Q[l])
      /\ m2 \in Memory
      /\ \A k \in 1 .. Len(Q[l]) : Q[l][k] # t
  BY ChainFacts DEF Chains, Free, SplicedIn
<1>2. Chain(m2, l, r)
  BY <1>1, InsertedChain
<1>3. /\ r \in Seq(Threads) /\ Len(r) = Len(Q[l]) + 1
      /\ \A k \in 1 .. Len(r) : r[k] = t \/ \E j \in 1 .. Len(Q[l]) : r[k] = Q[l][j]
  <2>1. Q[l] \in Seq(Threads)
    BY <1>1
  <2>2. r \in Seq(Threads) /\ Len(r) = Len(Q[l]) + 1
    BY <2>1, InsertionIs
  <2>3. \A k \in 1 .. Len(Q[l]) + 1 : r[k] = IF k <= i THEN Q[l][k] ELSE IF k = i + 1 THEN t
                                            ELSE Q[l][k - 1]
    BY DEF Insertion
  <2> HIDE DEF r
  <2>4. ASSUME NEW k \in 1 .. Len(r) PROVE r[k] = t \/ \E j \in 1 .. Len(Q[l]) : r[k] = Q[l][j]
    <3>1. k <= i => k \in 1 .. Len(Q[l])
      BY <1>1, <2>2
    <3>2. k > i + 1 => k - 1 \in 1 .. Len(Q[l])
      BY <1>1, <2>2
    <3> QED
      BY <1>1, <2>2, <2>3, <3>1, <3>2
  <2> QED
    BY <2>2, <2>4
<1> HIDE DEF r
<1>4. R \in [Lists -> Seq(Threads)] /\ R[l] = r /\ \A k \in Lists \ {l} : R[k] = Q[k]
  BY <1>1, <1>3
<1> HIDE DEF R
<1>5. ASSUME NEW k \in Lists \ {l} PROVE Chain(m2, k, R[k])
  <2>1. Chain(m, k, Q[k]) /\ \A j \in 1 .. Len(Q[k]) : Q[k][j] \in Threads /\ Q[k][j] # t
    BY ChainFacts DEF Free
  <2>2. \A j \in 1 .. Len(Q[k]) : \A n \in 1 .. Len(Q[l]) : Q[k][j] # Q[l][n]
    BY DEF Chains
  <2>3. /\ i > 0 => i \in 1 .. Len(Q[l])
        /\ i < Len(Q[l]) => i + 1 \in 1 .. Len(Q[l])
    BY <1>1
  <2>4. \A j \in 1 .. Len(Q[k]) :
          m2.next[Q[k][j]] = m.next[Q[k][j]] /\ m2.prev[Q[k][j]] = m.prev[Q[k][j]]
    BY <2>1, <2>2, <2>3 DEF SplicedIn
  <2>5. m2.head[k] = m.head[k] /\ m2.tail[k] = m.tail[k]
    BY DEF SplicedIn
  <2> QED
    BY <1>4, <2>1, <2>4, <2>5, ChainKept
<1>6. ASSUME NEW a \in Lists, NEW b \in Lists,
             NEW j \in 1 .. Len(R[a]), NEW k \in 1 .. Len(R[b]), R[a][j] = R[b][k]
      PROVE  a = b
  <2>1. \A c \in Lists \ {l} : \A n \in 1 .. Len(R[c]) :
          /\ R[c][n] # t
          /\ \A h \in 1 .. Len(Q[l]) : R[c][n] # Q[l][h]
    BY <1>4 DEF Free, Chains
  <2>2. \A c, d \in Lists \ {l} : \A n \in 1 .. Len(R[c]), h \in 1 .. Len(R[d]) :
          R[c][n] = R[d][h] => c = d
    BY <1>4 DEF Chains
  <2>3. \A c \in Lists \ {l} : \A n \in 1 .. Len(R[c]), h \in 1 .. Len(R[l]) : R[c][n] # R[l][h]
    <3> SUFFICES ASSUME NEW c \in Lists \ {l}, NEW n \in 1 .. Len(R[c]), NEW h \in 1 .. Len(R[l])
                 PROVE  R[c][n] # R[l][h]
      OBVIOUS
    <3>1. R[l][h] = t \/ \E g \in 1 .. Len(Q[l]) : R[l][h] = Q[l][g]
      BY <1>3, <1>4
    <3> QED
      BY <2>1, <3>1
  <2> QED
    BY <1>6, <2>2, <2>3
<1> QED
  BY <1>1, <1>2, <1>4, <1>5, <1>6 DEF Chains, R, r

LEMMA SplicesOut ==
  ASSUME NEW m, NEW Q, Chains(m, Q), NEW l \in Lists, NEW i \in 1 .. Len(Q[l]),
         NEW m2, SplicedOut(m, m2, l, Q[l], i)
  PROVE  /\ Chains(m2, [Q EXCEPT ![l] = Deletion(Q[l], i)])
         /\ Free([Q EXCEPT ![l] = Deletion(Q[l], i)], Q[l][i])
<1> DEFINE r == Deletion(Q[l], i)
           R == [Q EXCEPT ![l] = r]
<1>1. /\ Q \in [Lists -> Seq(Threads)] /\ Len(Q[l]) \in Nat /\ Chain(m, l, Q[l])
      /\ m2 \in Memory
      /\ \A j, k \in 1 .. Len(Q[l]) : Q[l][j] = Q[l][k] => j = k
  BY ChainFacts DEF Chains, SplicedOut, Chain
<1>2. Chain(m2, l, r)
  BY <1>1, DeletedChain
<1>3. /\ r \in Seq(Threads) /\ Len(r) = Len(Q[l]) - 1
      /\ \A k \in 1 .. Len(r) : r[k] # Q[l][i] /\ \E j \in 1 .. Len(Q[l]) : r[k] = Q[l][j]
  <2>1. Q[l] \in Seq(Threads)
    BY <1>1
  <2>2. r \in Seq(Threads) /\ Len(r) = Len(Q[l]) - 1
    BY <2>1, DeletionIs
  <2>3. \A k \in 1 .. Len(Q[l]) - 1 : r[k] = IF k < i THEN Q[l][k] ELSE Q[l][k + 1]
    BY DEF Deletion
  <2> HIDE DEF r
  <2>4. ASSUME NEW k \in 1 .. Len(r)
        PROVE  r[k] # Q[l][i] /\ \E j \in 1 .. Len(Q[l]) : r[k] = Q[l][j]
    <3>1. k \in 1 .. Len(Q[l]) /\ k + 1 \in 1 .. Len(Q[l]) /\ k \in 1 .. Len(Q[l]) - 1
      BY <1>1, <2>2
    <3>2. k < i => k # i
      OBVIOUS
    <3>3. ~(k < i) => k + 1 # i
      BY <3>1
    <3> QED
      BY <1>1, <2>3, <3>1, <3>2, <3>3
  <2> QED
    BY <2>2, <2>4
<1> HIDE DEF r
<1>4. R \in [Lists -> Seq(Threads)] /\ R[l] = r /\ \A k \in Lists \ {l} : R[k] = Q[k]
  BY <1>1, <1>3
<1> HIDE DEF R
<1>5. \A c \in Lists \ {l} : \A n \in 1 .. Len(R[c]), h \in 1 .. Len(Q[l]) : R[c][n] # Q[l][h]
  BY <1>4 DEF Chains
<1>6. ASSUME NEW k \in Lists \ {l} PROVE Chain(m2, k, R[k])
  <2>1. Chain(m, k, Q[k]) /\ \A j \in 1 .. Len(Q[k]) : Q[k][j] \in Threads
    BY ChainFacts
  <2>2. \A j \in 1 .. Len(Q[k]) : \A n \in 1 .. Len(Q[l]) : Q[k][j] # Q[l][n]
    BY <1>4, <1>5
  <2>3. /\ i > 1 => i - 1 \in 1 .. Len(Q[l])
        /\ i < Len(Q[l]) => i + 1 \in 1 .. Len(Q[l])
    BY <1>1
  <2>4. \A j \in 1 .. Len(Q[k]) :
          m2.next[Q[k][j]] = m.next[Q[k][j]] /\ m2.prev[Q[k][j]] = m.prev[Q[k][j]]
    BY <2>1, <2>2, <2>3 DEF SplicedOut
  <2>5. m2.head[k] = m.head[k] /\ m2.tail[k] = m.tail[k]
    BY DEF SplicedOut
  <2> QED
    BY <1>4, <2>1, <2>4, <2>5, ChainKept
<1>7. ASSUME NEW a \in Lists, NEW b \in Lists,
             NEW j \in 1 .. Len(R[a]), NEW k \in 1 .. Len(R[b]), R[a][j] = R[b][k]
      PROVE  a = b
  <2>1. \A c, d \in Lists \ {l} : \A n \in 1 .. Len(R[c]), h \in 1 .. Len(R[d]) :
          R[c][n] = R[d][h] => c = d
    BY <1>4 DEF Chains
  <2>2. \A c \in Lists \ {l} : \A n \in 1 .. Len(R[c]), h \in 1 .. Len(R[l]) : R[c][n] # R[l][h]
    BY <1>3, <1>4, <1>5
  <2> QED
    BY <1>7, <2>1, <2>2
<1>8. Free(R, Q[l][i])
  BY <1>3, <1>4, <1>5 DEF Free
<1> QED
  BY <1>1, <1>2, <1>4, <1>6, <1>7, <1>8 DEF Chains, R, r

-----------------------------------------------------------------------------
(* The macros of list.h.                                                     *)

LEMMA MemoryFields ==
  ASSUME NEW m \in Memory
  PROVE  /\ m.next \in [Threads -> Node] /\ m.prev \in [Threads -> Node]
         /\ m.head \in [Lists -> Node] /\ m.tail \in [Lists -> Node]
         /\ m.state \in [Threads -> States] /\ m.prio \in [Threads -> Prios]
BY DEF Memory

LEMMA NullNode == NULL \notin Threads /\ Threads \subseteq Node /\ NULL \in Node
BY ConstantsAssumption DEF Node

\* m2 is m with another link in node n, or other ends of list l.
NextSet(m, m2, n, x) ==
  /\ m2 \in Memory /\ m2.prev = m.prev
  /\ m2.head = m.head /\ m2.tail = m.tail /\ m2.state = m.state /\ m2.prio = m.prio
  /\ \A u \in Threads : m2.next[u] = IF u = n THEN x ELSE m.next[u]

PrevSet(m, m2, n, x) ==
  /\ m2 \in Memory /\ m2.next = m.next
  /\ m2.head = m.head /\ m2.tail = m.tail /\ m2.state = m.state /\ m2.prio = m.prio
  /\ \A u \in Threads : m2.prev[u] = IF u = n THEN x ELSE m.prev[u]

EndsSet(m, m2, l, h, t) ==
  /\ m2 \in Memory
  /\ m2.next = m.next /\ m2.prev = m.prev /\ m2.state = m.state /\ m2.prio = m.prio
  /\ \A k \in Lists : /\ m2.head[k] = IF k = l THEN h ELSE m.head[k]
                      /\ m2.tail[k] = IF k = l THEN t ELSE m.tail[k]

LEMMA SetNextIs ==
  ASSUME NEW m \in Memory, NEW n \in Threads, NEW x \in Node
  PROVE  NextSet(m, SetNext(m, n, x), n, x)
<1>1. n # NULL
  BY NullNode
<1> QED
  BY <1>1 DEF SetNext, Memory, NextSet

LEMMA SetPrevIs ==
  ASSUME NEW m \in Memory, NEW n \in Threads, NEW x \in Node
  PROVE  PrevSet(m, SetPrev(m, n, x), n, x)
<1>1. n # NULL
  BY NullNode
<1> QED
  BY <1>1 DEF SetPrev, Memory, PrevSet

LEMMA SetEndsIs ==
  ASSUME NEW m \in Memory, NEW l \in Lists, NEW h \in Node, NEW t \in Node
  PROVE  EndsSet(m, SetEnds(m, l, h, t), l, h, t)
BY DEF SetEnds, Memory, EndsSet

\* The ends of a list and its inner links.
LEMMA EndsAre ==
  ASSUME NEW m, NEW Q, Chains(m, Q), NEW l \in Lists
  PROVE  /\ m \in Memory /\ Len(Q[l]) \in Nat
         /\ m.head[l] = IF Len(Q[l]) = 0 THEN NULL ELSE Q[l][1]
         /\ m.tail[l] = IF Len(Q[l]) = 0 THEN NULL ELSE Q[l][Len(Q[l])]
         /\ m.head[l] \in Node /\ m.tail[l] \in Node
         /\ m.head[l] = NULL <=> Len(Q[l]) = 0
         /\ \A i, j \in 1 .. Len(Q[l]) : Q[l][i] = Q[l][j] => i = j
         /\ \A i \in 1 .. Len(Q[l]) :
              /\ Q[l][i] \in Threads /\ Q[l][i] # NULL
              /\ m.next[Q[l][i]] = IF i = Len(Q[l]) THEN NULL ELSE Q[l][i + 1]
              /\ m.prev[Q[l][i]] = IF i = 1 THEN NULL ELSE Q[l][i - 1]
<1>1. Chain(m, l, Q[l]) /\ m \in Memory /\ Len(Q[l]) \in Nat
  BY ChainFacts DEF Chains
<1>2. \A i \in 1 .. Len(Q[l]) : Q[l][i] \in Threads /\ Q[l][i] # NULL
  BY ChainFacts, NullNode
<1>3. m.head[l] \in Node /\ m.tail[l] \in Node
  BY <1>1, MemoryFields
<1>4. /\ m.head[l] = IF Len(Q[l]) = 0 THEN NULL ELSE Q[l][1]
      /\ m.tail[l] = IF Len(Q[l]) = 0 THEN NULL ELSE Q[l][Len(Q[l])]
  BY <1>1 DEF Chain
<1>5. m.head[l] = NULL <=> Len(Q[l]) = 0
  <2>1. Len(Q[l]) # 0 => 1 \in 1 .. Len(Q[l])
    BY <1>1
  <2> QED
    BY <1>2, <1>4, <2>1
<1>6. /\ \A i, j \in 1 .. Len(Q[l]) : Q[l][i] = Q[l][j] => i = j
      /\ \A i \in 1 .. Len(Q[l]) :
           /\ m.next[Q[l][i]] = IF i = Len(Q[l]) THEN NULL ELSE Q[l][i + 1]
           /\ m.prev[Q[l][i]] = IF i = 1 THEN NULL ELSE Q[l][i - 1]
  BY <1>1 DEF Chain
<1> QED
  BY <1>1, <1>2, <1>3, <1>4, <1>5, <1>6

LEMMA InsertTailIs ==
  ASSUME NEW m, NEW Q, Chains(m, Q), NEW l \in Lists, NEW t \in Threads, Free(Q, t)
  PROVE  SplicedIn(m, InsertTail(m, l, t), l, Q[l], Len(Q[l]), t)
<1> DEFINE q == Q[l]
           b == SetNext(m, t, NULL)
           a == SetPrev(b, t, m.tail[l])
<1>1. /\ m \in Memory /\ m.tail[l] \in Node /\ t \in Node /\ m.head[l] \in Node
      /\ \A i \in 1 .. Len(q) : q[i] # t
  BY EndsAre, NullNode DEF Free
<1>2. NextSet(m, b, t, NULL)
  BY <1>1, SetNextIs, NullNode
<1> HIDE DEF b
<1>3. PrevSet(b, a, t, m.tail[l])
  BY <1>1, <1>2, SetPrevIs DEF NextSet
<1> HIDE DEF a
<1>4. CASE Len(q) = 0
  <2> DEFINE c == SetEnds(a, l, t, t)
  <2>1. EndsSet(a, c, l, t, t)
    BY <1>1, <1>3, SetEndsIs DEF PrevSet
  <2>2. InsertTail(m, l, t) = c /\ m.tail[l] = NULL
    BY <1>4, EndsAre DEF InsertTail, a, b
  <2> HIDE DEF c
  <2> QED
    BY <1>1, <1>2, <1>3, <1>4, <2>1, <2>2 DEF SplicedIn, NextSet, PrevSet, EndsSet
<1>5. CASE Len(q) # 0
  <2> DEFINE d == SetNext(a, a.tail[l], t)
             c == SetEnds(d, l, a.head[l], t)
  <2>1. /\ a.tail[l] = q[Len(q)] /\ a.head[l] = m.head[l] /\ Len(q) \in 1 .. Len(q)
        /\ a.tail[l] \in Threads /\ m.head[l] # NULL /\ a.tail[l] = m.tail[l]
        /\ q[Len(q)] # t
    <3>1. a.tail[l] = m.tail[l] /\ a.head[l] = m.head[l]
      BY <1>2, <1>3 DEF NextSet, PrevSet
    <3>2. Len(q) \in 1 .. Len(q)
      BY <1>5, EndsAre
    <3>3. q[Len(q)] \in Threads /\ q[Len(q)] # t
      BY <1>1, <3>2, EndsAre
    <3>4. m.tail[l] = q[Len(q)] /\ m.head[l] # NULL
      BY <1>5, EndsAre
    <3> QED
      BY <3>1, <3>2, <3>3, <3>4
  <2>2. NextSet(a, d, a.tail[l], t)
    BY <1>1, <1>3, <2>1, SetNextIs DEF PrevSet
  <2>3. InsertTail(m, l, t) = c
    BY <2>1 DEF InsertTail, a, b
  <2> HIDE DEF d
  <2>4. EndsSet(d, c, l, a.head[l], t)
    BY <1>1, <2>1, <2>2, SetEndsIs DEF NextSet
  <2> HIDE DEF c, q
  <2> QED
    BY <1>1, <1>2, <1>3, <1>5, <2>1, <2>2, <2>3, <2>4
    DEF SplicedIn, NextSet, PrevSet, EndsSet, q
<1> QED
  BY <1>4, <1>5

LEMMA RemoveHeadIs ==
  ASSUME NEW m, NEW Q, Chains(m, Q), NEW l \in Lists, Len(Q[l]) > 0
  PROVE  SplicedOut(m, RemoveHead(m, l), l, Q[l], 1)
<1> DEFINE q == Q[l]
<1>1. /\ m \in Memory /\ Len(q) \in Nat /\ m.head[l] = q[1] /\ m.tail[l] = q[Len(q)]
      /\ q[1] \in Threads /\ q[1] # NULL /\ m.tail[l] \in Node
      /\ 1 \in 1 .. Len(q) /\ Len(q) \in 1 .. Len(q)
  BY EndsAre
<1>2. CASE Len(q) = 1
  <2> DEFINE c == SetEnds(m, l, NULL, NULL)
  <2>1. EndsSet(m, c, l, NULL, NULL)
    BY <1>1, SetEndsIs, NullNode
  <2>2. RemoveHead(m, l) = c
    BY <1>1, <1>2 DEF RemoveHead
  <2> HIDE DEF c, q
  <2> QED
    BY <1>1, <1>2, <2>1, <2>2 DEF SplicedOut, EndsSet, q
<1>3. CASE Len(q) > 1
  <2> DEFINE h == q[2]
             d == SetEnds(m, l, h, m.tail[l])
             c == SetPrev(d, h, NULL)
  <2>1. 2 \in 1 .. Len(q) /\ h \in Threads /\ h \in Node /\ NextOf(m, m.head[l]) = h
    <3>1. 2 \in 1 .. Len(q) /\ 1 # Len(q)
      BY <1>1, <1>3
    <3>2. q[2] \in Threads /\ m.next[q[1]] = q[2]
      BY <1>1, <3>1, EndsAre
    <3> QED
      BY <1>1, <3>1, <3>2, NullNode DEF NextOf
  <2>2. RemoveHead(m, l) = c
    <3>1. q[1] # q[Len(q)]
      BY <1>1, <1>3, EndsAre
    <3> QED
      BY <1>1, <2>1, <3>1 DEF RemoveHead
  <2> HIDE DEF h
  <2>3. EndsSet(m, d, l, h, m.tail[l])
    BY <1>1, <2>1, SetEndsIs
  <2> HIDE DEF d
  <2>4. PrevSet(d, c, h, NULL)
    BY <2>1, <2>3, SetPrevIs, NullNode DEF EndsSet
  <2> HIDE DEF c, q
  <2> QED
    BY <1>1, <1>3, <2>1, <2>2, <2>3, <2>4 DEF SplicedOut, PrevSet, EndsSet, q, h
<1>4. Len(q) = 1 \/ Len(q) > 1
  <2>1. Len(q) \in Nat /\ Len(q) > 0
    BY <1>1
  <2>2. \A k \in Nat : k > 0 => k = 1 \/ k > 1
    OBVIOUS
  <2> QED
    BY <2>1, <2>2, Zenon
<1> QED
  BY <1>2, <1>3, <1>4, Zenon

LEMMA RemoveTailIs ==
  ASSUME NEW m, NEW Q, Chains(m, Q), NEW l \in Lists, Len(Q[l]) > 1
  PROVE  SplicedOut(m, RemoveTail(m, l), l, Q[l], Len(Q[l]))
<1> DEFINE q == Q[l]
           h == q[Len(q) - 1]
           d == SetEnds(m, l, m.head[l], h)
           c == SetNext(d, h, NULL)
<1>1. /\ m \in Memory /\ Len(q) \in Nat /\ m.head[l] = q[1] /\ m.tail[l] = q[Len(q)]
      /\ q[Len(q)] \in Threads /\ q[Len(q)] # NULL /\ m.head[l] \in Node
      /\ 1 \in 1 .. Len(q) /\ Len(q) \in 1 .. Len(q) /\ Len(q) - 1 \in 1 .. Len(q)
  BY EndsAre
<1>2. h \in Threads /\ h \in Node /\ PrevOf(m, m.tail[l]) = h
  <2>1. h \in Threads /\ m.prev[q[Len(q)]] = h
    BY <1>1, EndsAre
  <2> QED
    BY <1>1, <2>1, NullNode DEF PrevOf
<1>3. RemoveTail(m, l) = c
  <2>1. q[1] # q[Len(q)]
    BY <1>1, EndsAre
  <2> QED
    BY <1>1, <1>2, <2>1 DEF RemoveTail
<1> HIDE DEF h
<1>4. EndsSet(m, d, l, m.head[l], h)
  BY <1>1, <1>2, SetEndsIs
<1> HIDE DEF d
<1>5. NextSet(d, c, h, NULL)
  BY <1>2, <1>4, SetNextIs, NullNode DEF EndsSet
<1> HIDE DEF c, q
<1>6. Len(q) > 1
  BY DEF q
<1> QED
  BY <1>1, <1>2, <1>3, <1>4, <1>5, <1>6 DEF SplicedOut, NextSet, EndsSet, q, h

LEMMA RemoveNodeIs ==
  ASSUME NEW m, NEW Q, Chains(m, Q), NEW l \in Lists, NEW i \in 1 .. Len(Q[l])
  PROVE  SplicedOut(m, RemoveNode(m, l, Q[l][i]), l, Q[l], i)
<1> DEFINE q == Q[l]
           n == q[i]
<1>1. /\ m \in Memory /\ Len(q) \in Nat /\ m.head[l] = q[1] /\ m.tail[l] = q[Len(q)]
      /\ n \in Threads /\ n # NULL
      /\ 1 \in 1 .. Len(q) /\ Len(q) \in 1 .. Len(q)
  BY EndsAre
<1>2. (n = m.head[l] <=> i = 1) /\ (n = m.tail[l] <=> i = Len(q))
  <2>1. \A j \in 1 .. Len(q) : q[i] = q[j] => i = j
    BY EndsAre
  <2> QED
    BY <1>1, <2>1
<1>3. CASE i = 1
  BY <1>1, <1>2, <1>3, RemoveHeadIs DEF RemoveNode
<1>4. CASE i # 1 /\ i = Len(q)
  BY <1>1, <1>2, <1>4, RemoveTailIs DEF RemoveNode
<1>5. CASE i # 1 /\ i # Len(q)
  <2> DEFINE x == q[i + 1]
             y == q[i - 1]
             a == SetPrev(m, x, y)
             c == SetNext(a, y, x)
  <2>1. /\ i + 1 \in 1 .. Len(q) /\ i - 1 \in 1 .. Len(q) /\ i > 1 /\ i < Len(q)
        /\ x \in Threads /\ y \in Threads /\ x \in Node /\ y \in Node
        /\ m.next[n] = x /\ m.prev[n] = y /\ x # n /\ y # n
    <3>1. i + 1 \in 1 .. Len(q) /\ i - 1 \in 1 .. Len(q) /\ i > 1 /\ i < Len(q)
      BY <1>1, <1>5
    <3>2. x \in Threads /\ y \in Threads /\ x # n /\ y # n
      <4>1. \A j \in 1 .. Len(q) : q[j] \in Threads /\ (q[j] = q[i] => j = i)
        BY EndsAre
      <4>2. i + 1 # i /\ i - 1 # i
        BY <1>1
      <4> QED
        BY <3>1, <4>1, <4>2
    <3>3. m.next[n] = x /\ m.prev[n] = y
      BY <1>5, EndsAre
    <3> QED
      BY <3>1, <3>2, <3>3, NullNode
  <2> HIDE DEF x, y
  <2>2. PrevSet(m, a, x, y)
    BY <1>1, <2>1, SetPrevIs
  <2>3. RemoveNode(m, l, n) = c
    <3>1. a.prev[n] = y /\ a.next[n] = x
      BY <1>1, <2>1, <2>2 DEF PrevSet
    <3>2. RemoveNode(m, l, n) = SetNext(a, a.prev[n], a.next[n])
      BY <1>1, <1>2, <1>5, <2>1 DEF RemoveNode
    <3> QED
      BY <3>1, <3>2
  <2> HIDE DEF a
  <2>4. NextSet(a, c, y, x)
    BY <2>1, <2>2, SetNextIs DEF PrevSet
  <2> HIDE DEF c, q, n
  <2>5. SplicedOut(m, c, l, q, i)
    BY <1>1, <1>5, <2>1, <2>2, <2>4 DEF SplicedOut, NextSet, PrevSet, x, y
  <2> QED
    BY <2>3, <2>5 DEF q, n
<1> QED
  BY <1>3, <1>4, <1>5

LEMMA PopIs ==
  ASSUME NEW m, NEW Q, Chains(m, Q), NEW l \in Lists, Len(Q[l]) > 0
  PROVE  SplicedOut(m, Pop(m, l), l, Q[l], 1)
<1> DEFINE q == Q[l]
<1>1. /\ m \in Memory /\ Len(q) \in Nat /\ m.head[l] = q[1] /\ m.tail[l] = q[Len(q)]
      /\ q[1] \in Threads /\ q[1] # NULL /\ m.tail[l] \in Node
      /\ 1 \in 1 .. Len(q) /\ Len(q) \in 1 .. Len(q)
  BY EndsAre
<1>2. m.next[q[1]] = IF Len(q) = 1 THEN NULL ELSE q[2]
  <2>1. m.next[q[1]] = IF 1 = Len(q) THEN NULL ELSE q[1 + 1]
    BY <1>1, EndsAre, Zenon
  <2> QED
    BY <2>1
<1>3. CASE Len(q) = 1
  <2> DEFINE c == SetEnds(m, l, NULL, NULL)
  <2>1. EndsSet(m, c, l, NULL, NULL)
    BY <1>1, SetEndsIs, NullNode
  <2>2. Pop(m, l) = c
    BY <1>1, <1>2, <1>3 DEF Pop
  <2> HIDE DEF c, q
  <2> QED
    BY <1>1, <1>3, <2>1, <2>2 DEF SplicedOut, EndsSet, q
<1>4. CASE Len(q) > 1
  <2> DEFINE h == q[2]
             d == [m EXCEPT !.head[l] = h]
             c == SetPrev(d, h, NULL)
  <2>1. 2 \in 1 .. Len(q) /\ h \in Threads /\ h \in Node /\ h # NULL
    <3>1. 2 \in 1 .. Len(q)
      BY <1>1, <1>4
    <3> QED
      BY <3>1, EndsAre, NullNode
  <2>2. Pop(m, l) = c
    BY <1>1, <1>2, <1>4, <2>1 DEF Pop
  <2> HIDE DEF h
  <2>3. EndsSet(m, d, l, h, m.tail[l])
    BY <1>1, <2>1 DEF Memory, EndsSet
  <2> HIDE DEF d
  <2>4. PrevSet(d, c, h, NULL)
    BY <2>1, <2>3, SetPrevIs, NullNode DEF EndsSet
  <2> HIDE DEF c, q
  <2> QED
    BY <1>1, <1>4, <2>1, <2>2, <2>3, <2>4 DEF SplicedOut, PrevSet, EndsSet, q, h
<1>5. Len(q) = 1 \/ Len(q) > 1
  <2>1. Len(q) \in Nat /\ Len(q) > 0
    BY <1>1
  <2>2. \A k \in Nat : k > 0 => k = 1 \/ k > 1
    OBVIOUS
  <2> QED
    BY <2>1, <2>2, Zenon
<1> QED
  BY <1>3, <1>4, <1>5, Zenon


LEMMA UnlinkIs ==
  ASSUME NEW m, NEW Q, Chains(m, Q), NEW i \in 1 .. Len(Q["zombie"])
  PROVE  SplicedOut(m, Unlink(m, Q["zombie"][i]), "zombie", Q["zombie"], i)
<1> DEFINE l == "zombie"
           q == Q[l]
           t == q[i]
           p == m.prev[t]
           n == m.next[t]
           a == IF p # NULL THEN SetNext(m, p, n) ELSE [m EXCEPT !.head[l] = n]
           c == IF n # NULL THEN SetPrev(a, n, p) ELSE [a EXCEPT !.tail[l] = p]
<1>1. l \in Lists
  BY DEF Lists
<1>2. /\ m \in Memory /\ Len(q) \in Nat /\ m.head[l] = q[1] /\ m.tail[l] = q[Len(q)]
      /\ t \in Threads /\ t # NULL
      /\ i \in 1 .. Len(q) /\ 1 \in 1 .. Len(q) /\ Len(q) \in 1 .. Len(q)
      /\ m.head[l] \in Node /\ m.tail[l] \in Node
  BY <1>1, EndsAre
<1>3. /\ p = IF i = 1 THEN NULL ELSE q[i - 1]
      /\ n = IF i = Len(q) THEN NULL ELSE q[i + 1]
  BY <1>1, EndsAre
<1>4. /\ i # 1 => i - 1 \in 1 .. Len(q) /\ q[i - 1] \in Threads /\ q[i - 1] # NULL
      /\ i # Len(q) => i + 1 \in 1 .. Len(q) /\ q[i + 1] \in Threads /\ q[i + 1] # NULL
  <2>1. i # 1 => i - 1 \in 1 .. Len(q)
    BY <1>2
  <2>2. i # Len(q) => i + 1 \in 1 .. Len(q)
    BY <1>2
  <2> QED
    BY <1>1, <2>1, <2>2, EndsAre
<1>5. p \in Node /\ n \in Node
  BY <1>3, <1>4, NullNode
<1> HIDE DEF p, n
<1>6. IF i # 1 THEN NextSet(m, a, q[i - 1], n) ELSE EndsSet(m, a, l, n, m.tail[l])
  <2>1. CASE i # 1
    BY <1>2, <1>3, <1>4, <1>5, <2>1, SetNextIs
  <2>2. CASE i = 1
    <3>1. EndsSet(m, [m EXCEPT !.head[l] = n], l, n, m.tail[l])
      BY <1>1, <1>2, <1>5 DEF Memory, EndsSet
    <3> QED
      BY <1>3, <2>2, <3>1
  <2> QED
    BY <2>1, <2>2
<1>7. a \in Memory /\ a.head[l] \in Node
  BY <1>1, <1>6, MemoryFields DEF NextSet, EndsSet
<1> HIDE DEF a
<1>8. IF i # Len(q) THEN PrevSet(a, c, q[i + 1], p) ELSE EndsSet(a, c, l, a.head[l], p)
  <2>1. CASE i # Len(q)
    BY <1>3, <1>4, <1>5, <1>7, <2>1, SetPrevIs
  <2>2. CASE i = Len(q)
    <3>1. EndsSet(a, [a EXCEPT !.tail[l] = p], l, a.head[l], p)
      BY <1>1, <1>5, <1>7 DEF Memory, EndsSet
    <3> QED
      BY <1>3, <2>2, <3>1
  <2> QED
    BY <2>1, <2>2
<1>9. Unlink(m, t) = c
  BY DEF Unlink, p, n, a
<1> HIDE DEF c, q, t
<1>10. SplicedOut(m, c, l, q, i)
  <2>1. c \in Memory /\ c.state = m.state /\ c.prio = m.prio
    BY <1>6, <1>8 DEF NextSet, PrevSet, EndsSet
  <2>2. \A u \in Threads : c.next[u] = IF i > 1 /\ u = q[i - 1] THEN n ELSE m.next[u]
    BY <1>2, <1>6, <1>8 DEF NextSet, PrevSet, EndsSet
  <2>3. \A u \in Threads : c.prev[u] = IF i < Len(q) /\ u = q[i + 1] THEN p ELSE m.prev[u]
    <3>1. a.prev = m.prev
      BY <1>6 DEF NextSet, EndsSet
    <3>2. i < Len(q) <=> i # Len(q)
      BY <1>2
    <3> QED
      BY <1>8, <3>1, <3>2 DEF PrevSet, EndsSet
  <2>4. \A k \in Lists : /\ c.head[k] = IF k = l /\ i = 1 THEN n ELSE m.head[k]
                         /\ c.tail[k] = IF k = l /\ i = Len(q) THEN p ELSE m.tail[k]
    BY <1>2, <1>6, <1>8 DEF NextSet, PrevSet, EndsSet
  <2>5. /\ i = 1 => n = IF Len(q) = 1 THEN NULL ELSE q[2]
        /\ i = Len(q) => p = IF Len(q) = 1 THEN NULL ELSE q[Len(q) - 1]
    <3>1. i = 1 => (i = Len(q) <=> Len(q) = 1) /\ i + 1 = 2
      OBVIOUS
    <3>2. i = Len(q) => (i = 1 <=> Len(q) = 1) /\ i - 1 = Len(q) - 1
      OBVIOUS
    <3> QED
      BY <1>3, <3>1, <3>2
  <2> HIDE DEF l
  <2> QED
    BY <1>3, <2>1, <2>2, <2>3, <2>4, <2>5 DEF SplicedOut
<1> QED
  BY <1>9, <1>10 DEF q, t

-----------------------------------------------------------------------------
(* The walk along a list. *)

LEMMA Distinct ==
  ASSUME NEW q \in Seq(Threads), \A i, j \in 1 .. Len(q) : q[i] = q[j] => i = j
  PROVE  Cardinality(Threads) \in Nat /\ Len(q) <= Cardinality(Threads)
<1>1. IsFiniteSet(Threads) /\ Cardinality(Threads) \in Nat /\ Len(q) \in Nat
  BY ConstantsAssumption, FS_CardinalityType
<1>2. IsFiniteSet(1 .. Len(q)) /\ Cardinality(1 .. Len(q)) = Len(q)
  <2>1. /\ IsFiniteSet(1 .. Len(q))
        /\ Cardinality(1 .. Len(q)) = IF 1 > Len(q) THEN 0 ELSE Len(q) - 1 + 1
    <3>1. 1 \in Int /\ Len(q) \in Int
      BY <1>1
    <3> QED
      BY <3>1, FS_Interval, Zenon
  <2> QED
    BY <1>1, <2>1
<1>3. q \in [1 .. Len(q) -> Threads]
  OBVIOUS
<1>4. ~(Cardinality(Threads) < Cardinality(1 .. Len(q)))
  BY <1>1, <1>2, <1>3, FS_PigeonHole
<1> QED
  BY <1>1, <1>2, <1>4

LEMMA HopsAre ==
  ASSUME NEW m, NEW Q, Chains(m, Q), NEW l \in Lists
  PROVE  /\ Cardinality(Threads) \in Nat /\ Len(Q[l]) <= Cardinality(Threads)
         /\ DOMAIN Hops(m, m.head[l]) = 0 .. Cardinality(Threads)
         /\ \A k \in 0 .. Cardinality(Threads) :
              Hops(m, m.head[l])[k] = IF k < Len(Q[l]) THEN Q[l][k + 1] ELSE NULL
<1> DEFINE N == Cardinality(Threads)
           q == Q[l]
           g == [k \in 0 .. N |-> IF k < Len(q) THEN q[k + 1] ELSE NULL]
           Hop(f) == f = [k \in 0 .. N |-> IF k = 0 THEN m.head[l] ELSE NextOf(m, f[k - 1])]
           h == CHOOSE f : Hop(f)
<1>1. N \in Nat /\ Len(q) \in Nat /\ Len(q) <= N
  BY ChainFacts, Distinct DEF Chain
<1>2. Hop(g)
  <2> DEFINE w == [k \in 0 .. N |-> IF k = 0 THEN m.head[l] ELSE NextOf(m, g[k - 1])]
  <2>1. ASSUME NEW k \in 0 .. N PROVE g[k] = w[k]
    <3>1. CASE k = 0
      <4>1. w[k] = m.head[l] /\ g[k] = IF 0 < Len(q) THEN q[1] ELSE NULL
        BY <3>1
      <4>2. m.head[l] = IF Len(q) = 0 THEN NULL ELSE q[1]
        BY EndsAre
      <4> HIDE DEF g, w
      <4> QED
        BY <1>1, <4>1, <4>2
    <3>2. CASE k # 0 /\ k <= Len(q)
      <4>1. k - 1 \in 0 .. N /\ k - 1 < Len(q) /\ k \in 1 .. Len(q) /\ (k - 1) + 1 = k
        BY <1>1, <3>2
      <4>2. g[k - 1] = q[k] /\ w[k] = NextOf(m, g[k - 1])
        BY <3>2, <4>1
      <4>3. /\ q[k] # NULL /\ m.next[q[k]] = IF k = Len(q) THEN NULL ELSE q[k + 1]
        BY <4>1, EndsAre
      <4>4. g[k] = IF k < Len(q) THEN q[k + 1] ELSE NULL
        OBVIOUS
      <4> HIDE DEF g, w
      <4> QED
        BY <1>1, <3>2, <4>2, <4>3, <4>4 DEF NextOf
    <3>3. CASE k > Len(q)
      <4>1. k - 1 \in 0 .. N /\ ~(k - 1 < Len(q)) /\ k # 0 /\ ~(k < Len(q))
        BY <1>1, <3>3
      <4>2. g[k - 1] = NULL /\ w[k] = NextOf(m, g[k - 1]) /\ g[k] = NULL
        BY <4>1
      <4> HIDE DEF g, w
      <4> QED
        BY <4>2 DEF NextOf
    <3> QED
      BY <1>1, <3>1, <3>2, <3>3
  <2>2. g = w
    BY <2>1
  <2> QED
    BY <2>2
<1> HIDE DEF g
<1>3. Hop(h)
  BY <1>2
<1>4. Hops(m, m.head[l]) = h
  BY DEF Hops
<1> HIDE DEF h
<1>5. \A k \in 0 .. N : h[k] = g[k]
  <2> DEFINE T == {k \in 0 .. N : h[k] = g[k]}
  <2>1. /\ h[0] = m.head[l] /\ g[0] = m.head[l]
        /\ \A k \in 0 .. N - 1 : /\ h[k + 1] = NextOf(m, h[k]) /\ g[k + 1] = NextOf(m, g[k])
    <3>1. ASSUME NEW f, Hop(f)
          PROVE  f[0] = m.head[l] /\ \A k \in 0 .. N - 1 : f[k + 1] = NextOf(m, f[k])
      <4>1. \A k \in 0 .. N : f[k] = IF k = 0 THEN m.head[l] ELSE NextOf(m, f[k - 1])
        BY <3>1
      <4> HIDE DEF Hop, N
      <4>2. \A k \in 0 .. N - 1 : k + 1 \in 0 .. N /\ k + 1 # 0 /\ (k + 1) - 1 = k
        BY <1>1 DEF N
      <4>3. 0 \in 0 .. N
        BY <1>1
      <4> QED
        BY <4>1, <4>2, <4>3
    <3> HIDE DEF Hop
    <3> QED
      BY <1>2, <1>3, <3>1
  <2>2. 0 \in T /\ \A k \in 0 .. N - 1 : k \in T => k + 1 \in T
    <3>1. 0 \in 0 .. N /\ \A k \in 0 .. N - 1 : k + 1 \in 0 .. N
      BY <1>1
    <3> QED
      BY <2>1, <3>1
  <2> HIDE DEF T
  <2>3. \A k \in 0 .. N : k \in T
    BY <1>1, <2>2, UpTo
  <2> QED
    BY <2>3 DEF T
<1>6. \A k \in 0 .. N : g[k] = IF k < Len(q) THEN q[k + 1] ELSE NULL
  BY DEF g
<1>7. DOMAIN h = 0 .. N
  BY <1>3
<1> QED
  BY <1>1, <1>4, <1>5, <1>6, <1>7


\* The nodes that a walk finds are those of the list.
LEMMA NodesAre ==
  ASSUME NEW m, NEW Q, Chains(m, Q), NEW l \in Lists
  PROVE  NodesOf(m, l) = Q[l]
<1> DEFINE N == Cardinality(Threads)
           hop == Hops(m, m.head[l])
           q == Q[l]
           some == {k \in DOMAIN hop : hop[k] # NULL}
<1>1. /\ N \in Nat /\ Len(q) \in Nat /\ Len(q) <= N /\ DOMAIN hop = 0 .. N
      /\ \A k \in 0 .. N : hop[k] = IF k < Len(q) THEN q[k + 1] ELSE NULL
      /\ \A k \in 1 .. Len(q) : q[k] # NULL
      /\ q \in Seq(Threads)
  BY HopsAre, EndsAre, ChainFacts
<1> HIDE DEF hop
<1>2. some = 0 .. Len(q) - 1
  <2>1. \A k \in 0 .. N : hop[k] # NULL <=> k < Len(q)
    BY <1>1
  <2> QED
    BY <1>1, <2>1
<1>3. Cardinality(some) = Len(q)
  <2>1. Cardinality(0 .. Len(q) - 1) = IF 0 > Len(q) - 1 THEN 0 ELSE Len(q) - 1 - 0 + 1
    <3>1. 0 \in Int /\ Len(q) - 1 \in Int
      BY <1>1
    <3> QED
      BY <3>1, FS_Interval, Zenon
  <2>2. \A n \in Nat : (IF 0 > n - 1 THEN 0 ELSE n - 1 - 0 + 1) = n
    OBVIOUS
  <2> QED
    BY <1>1, <1>2, <2>1, <2>2
<1>4. NodesOf(m, l) = [i \in 1 .. Len(q) |-> hop[i - 1]]
  BY <1>3 DEF NodesOf, hop
<1>5. \A i \in 1 .. Len(q) : hop[i - 1] = q[i]
  <2>1. \A i \in 1 .. Len(q) : i - 1 \in 0 .. N /\ i - 1 < Len(q) /\ (i - 1) + 1 = i
    BY <1>1
  <2> QED
    BY <1>1, <2>1
<1> QED
  BY <1>1, <1>4, <1>5

LEMMA AllNodesAre ==
  ASSUME NEW m, NEW Q, Chains(m, Q)
  PROVE  AllNodes(m) = Q
BY NodesAre DEF AllNodes, Chains

-----------------------------------------------------------------------------
(* The sorted insertion. *)

\* The first i threads of q go before t, and t goes before the others.
Place(prio, q, t, i) ==
  /\ i \in 0 .. Len(q)
  /\ \A j \in 1 .. i : prio[q[j]] >= prio[t]
  /\ \A j \in i + 1 .. Len(q) : prio[q[j]] < prio[t]

\* Node n is linked between r, which is node i, and the one after it.
LEMMA LinkAfterIs ==
  ASSUME NEW m, NEW Q, Chains(m, Q), NEW l \in Lists, NEW t \in Threads, Free(Q, t),
         NEW i \in 1 .. Len(Q[l]) - 1
  PROVE  SplicedIn(m, LinkAfter(m, t, Q[l][i]), l, Q[l], i, t)
<1> DEFINE q == Q[l]
           r == q[i]
           x == q[i + 1]
           a == SetNext(m, t, NextOf(m, r))
           b == SetPrev(a, NextOf(a, r), t)
           d == SetNext(b, r, t)
           c == SetPrev(d, t, r)
<1>1. /\ m \in Memory /\ Len(q) \in Nat /\ i \in 1 .. Len(q) /\ i + 1 \in 1 .. Len(q)
      /\ i < Len(q) /\ i # Len(q) /\ i > 0
  BY EndsAre
<1>2. /\ r \in Threads /\ r # NULL /\ r # t /\ x \in Threads /\ x # NULL /\ x # t
      /\ r \in Node /\ x \in Node /\ t \in Node
      /\ m.next[r] = x
  <2>1. r # t /\ x # t
    BY <1>1 DEF Free
  <2>2. r \in Threads /\ r # NULL /\ x \in Threads /\ x # NULL /\ m.next[r] = x
    BY <1>1, EndsAre
  <2> QED
    BY <2>1, <2>2, NullNode
<1> HIDE DEF x
<1>3. NextSet(m, a, t, x)
  <2>1. NextOf(m, r) = x
    BY <1>2 DEF NextOf
  <2> QED
    BY <1>1, <1>2, <2>1, SetNextIs
<1> HIDE DEF a
<1>4. PrevSet(a, b, x, t)
  <2>1. NextOf(a, r) = x
    BY <1>2, <1>3 DEF NextOf, NextSet
  <2> QED
    BY <1>2, <1>3, <2>1, SetPrevIs DEF NextSet
<1> HIDE DEF b
<1>5. NextSet(b, d, r, t)
  BY <1>2, <1>4, SetNextIs DEF PrevSet
<1> HIDE DEF d
<1>6. PrevSet(d, c, t, r)
  BY <1>2, <1>5, SetPrevIs DEF NextSet
<1>7. LinkAfter(m, t, r) = c
  BY DEF LinkAfter, a, b, d
<1> HIDE DEF c, q, r
<1>8. SplicedIn(m, c, l, q, i, t)
  BY <1>1, <1>2, <1>3, <1>4, <1>5, <1>6 DEF SplicedIn, NextSet, PrevSet, r, x
<1> QED
  BY <1>7, <1>8 DEF q, r

\* The loop finds the place of t in a list with threads before and after it.
LEMMA BeforeIs ==
  ASSUME NEW m, NEW Q, Chains(m, Q), NEW l \in Lists, NEW t \in Threads,
         InOrder(m.prio, Q[l]), Len(Q[l]) > 0,
         m.prio[Q[l][1]] >= m.prio[t], m.prio[Q[l][Len(Q[l])]] < m.prio[t]
  PROVE  \E i \in 1 .. Len(Q[l]) - 1 :
           Place(m.prio, Q[l], t, i) /\ Before(m, t, m.head[l]) = Q[l][i]
<1> DEFINE N == Cardinality(Threads)
           hop == Hops(m, m.head[l])
           q == Q[l]
           P(j) == m.prio[q[j]]
           last == {k \in DOMAIN hop :
                      NextOf(m, hop[k]) # NULL => Precedes(m, t, NextOf(m, hop[k]))}
           k0 == CHOOSE k \in last : \A j \in last : k <= j
<1>1. /\ N \in Nat /\ Len(q) \in Nat /\ Len(q) <= N /\ DOMAIN hop = 0 .. N
      /\ \A k \in 0 .. N : hop[k] = IF k < Len(q) THEN q[k + 1] ELSE NULL
  BY HopsAre, EndsAre
<1>2. /\ m.prio[t] \in Int /\ \A j \in 1 .. Len(q) : P(j) \in Int
      /\ \A j \in 1 .. Len(q) : q[j] # NULL
      /\ P(1) >= m.prio[t] /\ P(Len(q)) < m.prio[t]
      /\ \A j, k \in 1 .. Len(q) : j < k => P(j) >= P(k)
  <2>1. m.prio \in [Threads -> Prios] /\ Prios \subseteq Int
    BY ConstantsAssumption, MemoryFields DEF Chains
  <2>2. \A j \in 1 .. Len(q) : q[j] \in Threads /\ q[j] # NULL
    BY EndsAre
  <2> QED
    BY <2>1, <2>2 DEF InOrder
<1>3. Len(q) >= 2
  <2>1. Len(q) # 1
    BY <1>2
  <2>2. Len(q) \in Nat /\ Len(q) > 0
    BY <1>1
  <2>3. \A k \in Nat : k > 0 /\ k # 1 => k >= 2
    OBVIOUS
  <2> QED
    BY <2>1, <2>2, <2>3, Zenon
<1> HIDE DEF hop
<1>4. \A k \in 0 .. Len(q) - 2 : k \in last <=> P(k + 2) < m.prio[t]
  <2> SUFFICES ASSUME NEW k \in 0 .. Len(q) - 2 PROVE k \in last <=> P(k + 2) < m.prio[t]
    OBVIOUS
  <2>1. /\ k \in 0 .. N /\ k < Len(q) /\ k + 1 \in 1 .. Len(q) /\ k + 2 \in 1 .. Len(q)
        /\ k + 1 # Len(q) /\ (k + 1) + 1 = k + 2
    BY <1>1, <1>3
  <2>2. hop[k] = q[k + 1] /\ q[k + 1] # NULL /\ q[k + 2] # NULL
    BY <1>1, <1>2, <2>1
  <2>3. m.next[q[k + 1]] = q[k + 2]
    BY <2>1, EndsAre
  <2>4. NextOf(m, hop[k]) = q[k + 2]
    BY <2>2, <2>3 DEF NextOf
  <2>5. Precedes(m, t, q[k + 2]) <=> P(k + 2) < m.prio[t]
    BY <1>2, <2>1 DEF Precedes, Compare
  <2> QED
    BY <1>1, <2>1, <2>2, <2>4, <2>5
<1>5. k0 \in last /\ \A j \in last : k0 <= j
  <2>1. last \subseteq Nat
    BY <1>1
  <2>2. Len(q) - 2 \in last
    <3>1. Len(q) - 2 \in 0 .. Len(q) - 2 /\ (Len(q) - 2) + 2 = Len(q)
      BY <1>1, <1>3
    <3> HIDE DEF last
    <3> QED
      BY <1>2, <1>4, <3>1
  <2> HIDE DEF last
  <2>3. \E k \in last : \A j \in last : k <= j
    BY <2>1, <2>2, Least
  <2> QED
    BY <2>3
<1>6. k0 \in 0 .. Len(q) - 2
  <2>1. Len(q) - 2 \in last
    <3>1. Len(q) - 2 \in 0 .. Len(q) - 2 /\ (Len(q) - 2) + 2 = Len(q)
      BY <1>1, <1>3
    <3> HIDE DEF last
    <3> QED
      BY <1>2, <1>4, <3>1
  <2>2. k0 \in 0 .. N
    BY <1>1, <1>5
  <2> HIDE DEF last, k0
  <2> QED
    BY <1>1, <1>3, <1>5, <2>1, <2>2
<1> HIDE DEF k0
<1>7. Before(m, t, m.head[l]) = hop[k0]
  BY DEF Before, hop, k0
<1> DEFINE i == k0 + 1
<1>8. i \in 1 .. Len(q) - 1 /\ k0 \in 0 .. N /\ k0 < Len(q) /\ i \in 0 .. Len(q)
  BY <1>1, <1>3, <1>6
<1>9. \A j \in 1 .. i : P(j) >= m.prio[t]
  <2> SUFFICES ASSUME NEW j \in 1 .. i, j # 1 PROVE P(j) >= m.prio[t]
    BY <1>2
  <2>1. j - 2 \in 0 .. Len(q) - 2 /\ j - 2 < k0 /\ (j - 2) + 2 = j /\ j \in 1 .. Len(q)
    BY <1>1, <1>6
  <2>2. j - 2 \notin last
    <3> HIDE DEF last
    <3> QED
      BY <1>5, <1>6, <2>1
  <2>3. ~(P(j) < m.prio[t])
    <3> HIDE DEF last
    <3> QED
      BY <1>4, <2>1, <2>2
  <2> QED
    BY <1>2, <2>1, <2>3
<1>10. \A j \in i + 1 .. Len(q) : P(j) < m.prio[t]
  <2> SUFFICES ASSUME NEW j \in i + 1 .. Len(q) PROVE P(j) < m.prio[t]
    OBVIOUS
  <2>1. P(k0 + 2) < m.prio[t]
    <3> HIDE DEF last
    <3> QED
      BY <1>4, <1>5, <1>6
  <2>2. k0 + 2 \in 1 .. Len(q) /\ j \in 1 .. Len(q) /\ (k0 + 2 < j \/ k0 + 2 = j)
    BY <1>1, <1>6
  <2> QED
    BY <1>2, <2>1, <2>2
<1> QED
  <2>1. Place(m.prio, q, t, i)
    BY <1>8, <1>9, <1>10 DEF Place
  <2>2. Before(m, t, m.head[l]) = q[i]
    BY <1>1, <1>7, <1>8
  <2> QED
    BY <1>8, <2>1, <2>2


PlaceOf(prio, q, t) == CHOOSE i : Place(prio, q, t, i)

LEMMA OnePlace ==
  ASSUME NEW prio, NEW q \in Seq(Threads), NEW t, NEW i, Place(prio, q, t, i),
         prio[t] \in Int, \A j \in 1 .. Len(q) : prio[q[j]] \in Int
  PROVE  i = PlaceOf(prio, q, t) /\ Place(prio, q, t, PlaceOf(prio, q, t))
<1>1. Place(prio, q, t, PlaceOf(prio, q, t))
  BY DEF PlaceOf
<1>2. ASSUME NEW a, NEW b, Place(prio, q, t, a), Place(prio, q, t, b), a < b PROVE FALSE
  <2>1. b \in 1 .. b /\ b \in a + 1 .. Len(q) /\ b \in 1 .. Len(q)
    BY <1>2, SeqFacts DEF Place
  <2>2. prio[q[b]] >= prio[t] /\ prio[q[b]] < prio[t]
    BY <1>2, <2>1 DEF Place
  <2> QED
    BY <2>1, <2>2
<1>3. i \in Int /\ PlaceOf(prio, q, t) \in Int
  BY <1>1, SeqFacts DEF Place
<1>4. ~(i < PlaceOf(prio, q, t)) /\ ~(PlaceOf(prio, q, t) < i)
  BY <1>1, <1>2
<1> QED
  BY <1>1, <1>3, <1>4

LEMMA PriosAre ==
  ASSUME NEW m, NEW Q, Chains(m, Q), NEW l \in Lists
  PROVE  /\ \A u \in Threads : m.prio[u] \in Int
         /\ \A j \in 1 .. Len(Q[l]) : m.prio[Q[l][j]] \in Int
<1>1. m.prio \in [Threads -> Prios] /\ Prios \subseteq Int
  BY ConstantsAssumption, MemoryFields DEF Chains
<1> QED
  BY <1>1, ChainFacts

LEMMA InsertSortedIs ==
  ASSUME NEW m, NEW Q, Chains(m, Q), NEW l \in Lists, NEW t \in Threads, Free(Q, t),
         InOrder(m.prio, Q[l])
  PROVE  /\ Place(m.prio, Q[l], t, PlaceOf(m.prio, Q[l], t))
         /\ SplicedIn(m, InsertSorted(m, l, t), l, Q[l], PlaceOf(m.prio, Q[l], t), t)
<1> DEFINE q == Q[l]
           P(j) == m.prio[q[j]]
<1>1. /\ m \in Memory /\ Len(q) \in Nat /\ q \in Seq(Threads)
      /\ m.head[l] = IF Len(q) = 0 THEN NULL ELSE q[1]
      /\ m.tail[l] = IF Len(q) = 0 THEN NULL ELSE q[Len(q)]
      /\ m.head[l] \in Node /\ m.tail[l] \in Node
      /\ m.head[l] = NULL <=> Len(q) = 0
      /\ t \in Node
  BY EndsAre, ChainFacts, NullNode
<1>2. /\ m.prio[t] \in Int /\ \A j \in 1 .. Len(q) : P(j) \in Int
      /\ \A j, k \in 1 .. Len(q) : j < k => P(j) >= P(k)
  BY PriosAre DEF InOrder
<1>3. SUFFICES \E i : Place(m.prio, q, t, i) /\ SplicedIn(m, InsertSorted(m, l, t), l, q, i, t)
  BY <1>1, <1>2, OnePlace
<1>4. CASE Len(q) = 0
  <2> DEFINE a == SetNext(m, t, NULL)
             b == SetPrev(a, t, NULL)
             c == SetEnds(b, l, t, t)
  <2>1. NextSet(m, a, t, NULL)
    BY <1>1, SetNextIs, NullNode
  <2> HIDE DEF a
  <2>2. PrevSet(a, b, t, NULL)
    BY <2>1, SetPrevIs, NullNode DEF NextSet
  <2> HIDE DEF b
  <2>3. EndsSet(b, c, l, t, t)
    BY <1>1, <2>2, SetEndsIs DEF PrevSet
  <2>4. InsertSorted(m, l, t) = c
    BY <1>1, <1>4 DEF InsertSorted, a, b
  <2> HIDE DEF c
  <2>5. SplicedIn(m, c, l, q, 0, t)
    <3> HIDE DEF q
    <3> QED
      BY <1>4, <2>1, <2>2, <2>3 DEF SplicedIn, NextSet, PrevSet, EndsSet
  <2>6. Place(m.prio, q, t, 0)
    BY <1>4 DEF Place
  <2> QED
    BY <2>4, <2>5, <2>6
<1>5. CASE Len(q) # 0 /\ P(1) < m.prio[t]
  <2> DEFINE r == q[1]
             a == SetNext(m, t, r)
             b == SetPrev(a, t, NULL)
             d == SetPrev(b, r, t)
             c == SetEnds(d, l, t, m.tail[l])
  <2>1. 1 \in 1 .. Len(q) /\ r \in Threads /\ r \in Node /\ r # t /\ m.head[l] = r /\ r # NULL
    <3>1. 1 \in 1 .. Len(q)
      BY <1>1, <1>5
    <3> QED
      BY <1>1, <1>5, <3>1, NullNode DEF Free
  <2>2. Precedes(m, t, r)
    BY <1>2, <1>5, <2>1 DEF Precedes, Compare
  <2>3. InsertSorted(m, l, t) = c
    BY <2>1, <2>2 DEF InsertSorted
  <2> HIDE DEF r
  <2>4. NextSet(m, a, t, r)
    BY <1>1, <2>1, SetNextIs
  <2> HIDE DEF a
  <2>5. PrevSet(a, b, t, NULL)
    BY <2>4, SetPrevIs, NullNode DEF NextSet
  <2> HIDE DEF b
  <2>6. PrevSet(b, d, r, t)
    BY <1>1, <2>1, <2>5, SetPrevIs DEF PrevSet
  <2> HIDE DEF d
  <2>7. EndsSet(d, c, l, t, m.tail[l])
    BY <1>1, <2>6, SetEndsIs DEF PrevSet
  <2> HIDE DEF c
  <2>8. SplicedIn(m, c, l, q, 0, t)
    <3>1. 0 < Len(q) /\ 0 # Len(q)
      BY <1>1, <1>5
    <3>2. r = q[0 + 1]
      BY DEF r
    <3> HIDE DEF q
    <3> QED
      BY <2>1, <2>4, <2>5, <2>6, <2>7, <3>1, <3>2 DEF SplicedIn, NextSet, PrevSet, EndsSet
  <2>9. Place(m.prio, q, t, 0)
    <3>1. ASSUME NEW j \in 0 + 1 .. Len(q) PROVE P(j) < m.prio[t]
      <4>1. j \in 1 .. Len(q) /\ (1 < j \/ j = 1)
        BY <1>1
      <4> QED
        BY <1>2, <1>5, <2>1, <4>1
    <3>2. 0 \in 0 .. Len(q)
      BY <1>1
    <3> QED
      BY <3>1, <3>2 DEF Place
  <2> QED
    BY <2>3, <2>8, <2>9
<1>6. CASE Len(q) # 0 /\ ~(P(1) < m.prio[t])
  <2>1. /\ 1 \in 1 .. Len(q) /\ Len(q) \in 1 .. Len(q) /\ m.head[l] = q[1] /\ m.tail[l] = q[Len(q)]
        /\ m.head[l] # NULL /\ P(1) >= m.prio[t]
    <3>1. 1 \in 1 .. Len(q) /\ Len(q) \in 1 .. Len(q)
      BY <1>1, <1>6
    <3>2. P(1) \in Int
      BY <1>2, <3>1
    <3> QED
      BY <1>1, <1>2, <1>6, <3>1, <3>2
  <2>2. ~Precedes(m, t, m.head[l])
    BY <1>2, <1>6, <2>1 DEF Precedes, Compare
  <2>3. Precedes(m, t, m.tail[l]) <=> P(Len(q)) < m.prio[t]
    BY <1>2, <2>1 DEF Precedes, Compare
  <2>4. CASE ~(P(Len(q)) < m.prio[t])
    <3>1. InsertSorted(m, l, t) = InsertTail(m, l, t)
      BY <2>1, <2>2, <2>3, <2>4 DEF InsertSorted
    <3>2. Place(m.prio, q, t, Len(q))
      <4>1. ASSUME NEW j \in 1 .. Len(q) PROVE P(j) >= m.prio[t]
        <5>1. P(Len(q)) \in Int /\ P(j) \in Int /\ m.prio[t] \in Int
          BY <1>2, <2>1
        <5>2. P(Len(q)) >= m.prio[t]
          BY <2>4, <5>1
        <5>3. j < Len(q) \/ j = Len(q)
          BY <1>1
        <5>4. P(j) >= P(Len(q))
          <6>1. CASE j < Len(q)
            BY <1>2, <2>1, <6>1
          <6>2. CASE j = Len(q)
            BY <5>1, <6>2
          <6> QED
            BY <5>3, <6>1, <6>2
        <5> QED
          BY <5>1, <5>2, <5>4
      <4>2. Len(q) \in 0 .. Len(q) /\ Len(q) + 1 .. Len(q) = {}
        BY <1>1
      <4> QED
        BY <4>1, <4>2 DEF Place
    <3> QED
      BY <3>1, <3>2, InsertTailIs
  <2>5. CASE P(Len(q)) < m.prio[t]
    <3>1. PICK i \in 1 .. Len(q) - 1 :
            Place(m.prio, q, t, i) /\ Before(m, t, m.head[l]) = q[i]
      <4>1. Len(q) > 0
        BY <1>1, <1>6
      <4> QED
        BY <2>1, <2>5, <4>1, BeforeIs
    <3>2. InsertSorted(m, l, t) = LinkAfter(m, t, q[i])
      BY <2>1, <2>2, <2>3, <2>5, <3>1 DEF InsertSorted
    <3>3. SplicedIn(m, LinkAfter(m, t, q[i]), l, q, i, t)
      BY LinkAfterIs
    <3> QED
      BY <3>1, <3>2, <3>3
  <2> QED
    BY <2>4, <2>5
<1> QED
  BY <1>4, <1>5, <1>6

-----------------------------------------------------------------------------
(* Loops.                                                                    *)

\* f[i] is what a loop has after i of its n rounds, from s0 on.
Rounds(f, n, s0, step) == f = [i \in 0 .. n |-> IF i = 0 THEN s0 ELSE step[i][f[i - 1]]]

LEMMA Iteration ==
  ASSUME NEW n \in Nat, NEW S, NEW step, NEW s0, s0 \in S[0],
         \A i \in 1 .. n : \A x \in S[i - 1] : step[i][x] \in S[i]
  PROVE  \E f : Rounds(f, n, s0, step) /\ \A i \in 0 .. n : f[i] \in S[i]
<1> DEFINE T == {k \in 0 .. n : \E f : Rounds(f, k, s0, step)}
<1>1. 0 \in T
  <2>1. Rounds([i \in 0 .. 0 |-> s0], 0, s0, step)
    BY DEF Rounds
  <2>2. 0 \in 0 .. n
    OBVIOUS
  <2> QED
    BY <2>1, <2>2
<1>2. ASSUME NEW k \in 0 .. n - 1, k \in T PROVE k + 1 \in T
  <2>1. PICK f : Rounds(f, k, s0, step)
    BY <1>2
  <2> DEFINE g == [i \in 0 .. k + 1 |-> IF i = k + 1 THEN step[k + 1][f[k]] ELSE f[i]]
             h == [i \in 0 .. k + 1 |-> IF i = 0 THEN s0 ELSE step[i][g[i - 1]]]
  <2>2. ASSUME NEW i \in 0 .. k + 1 PROVE g[i] = h[i]
    <3>1. \A j \in 0 .. k : g[j] = f[j]
      OBVIOUS
    <3>2. \A j \in 0 .. k : f[j] = IF j = 0 THEN s0 ELSE step[j][f[j - 1]]
      BY <2>1 DEF Rounds
    <3>3. g[k + 1] = step[k + 1][f[k]]
      OBVIOUS
    <3>4. h[i] = IF i = 0 THEN s0 ELSE step[i][g[i - 1]]
      OBVIOUS
    <3>5. CASE i = 0
      <4>1. 0 \in 0 .. k
        OBVIOUS
      <4> HIDE DEF g, h
      <4> QED
        BY <3>1, <3>2, <3>4, <3>5, <4>1
    <3>6. CASE i = k + 1
      <4>1. k \in 0 .. k /\ i - 1 = k /\ i # 0
        BY <3>6
      <4> HIDE DEF g, h
      <4> QED
        BY <3>1, <3>3, <3>4, <3>6, <4>1
    <3>7. CASE i # 0 /\ i # k + 1
      <4>1. i \in 0 .. k /\ i - 1 \in 0 .. k
        BY <3>7
      <4> HIDE DEF g, h
      <4> QED
        BY <3>1, <3>2, <3>4, <3>7, <4>1
    <3> QED
      BY <3>5, <3>6, <3>7
  <2>3. g = h
    BY <2>2
  <2>4. Rounds(g, k + 1, s0, step)
    BY <2>3 DEF Rounds
  <2>5. k + 1 \in 0 .. n
    OBVIOUS
  <2> HIDE DEF g
  <2> QED
    BY <2>4, <2>5
<1> HIDE DEF T
<1>3. \A i \in 0 .. n : i \in T
  BY <1>1, <1>2, UpTo
<1>4. PICK f : Rounds(f, n, s0, step)
  <2>1. n \in 0 .. n
    OBVIOUS
  <2> QED
    BY <1>3, <2>1 DEF T
<1>5. f[0] = s0 /\ \A i \in 1 .. n : f[i] = step[i][f[i - 1]]
  BY <1>4 DEF Rounds
<1> DEFINE U == {k \in 0 .. n : f[k] \in S[k]}
<1>6. 0 \in U /\ \A i \in 0 .. n - 1 : i \in U => i + 1 \in U
  <2>1. ASSUME NEW i \in 0 .. n - 1, i \in U PROVE i + 1 \in U
    <3>1. i + 1 \in 1 .. n /\ i + 1 \in 0 .. n /\ (i + 1) - 1 = i
      OBVIOUS
    <3> QED
      BY <1>5, <2>1, <3>1
  <2> QED
    BY <1>5, <2>1
<1> HIDE DEF U
<1>7. \A i \in 0 .. n : i \in U
  BY <1>6, UpTo
<1> QED
  BY <1>4, <1>7 DEF U

-----------------------------------------------------------------------------
(* The threads of one priority.                                              *)

\* f[i] has the threads of priority p among the first i of q.
Filters(f, prio, q, p) ==
  /\ f[0] = <<>> /\ OfPrio(prio, q, p) = f[Len(q)]
  /\ \A i \in 0 .. Len(q) : f[i] \in Seq(Threads)
  /\ \A i \in 1 .. Len(q) :
       f[i] = IF prio[q[i]] = p THEN Append(f[i - 1], q[i]) ELSE f[i - 1]

LEMMA OfPrioIs ==
  ASSUME NEW prio, NEW q \in Seq(Threads), NEW p
  PROVE  \E f : Filters(f, prio, q, p)
<1> DEFINE n == Len(q)
           S == [i \in 0 .. n |-> Seq(Threads)]
           step == [i \in 1 .. n |->
                      [x \in Seq(Threads) |-> IF prio[q[i]] = p THEN Append(x, q[i]) ELSE x]]
           Of(f) == f = [i \in 0 .. n |-> IF i = 0 THEN <<>>
                           ELSE IF prio[q[i]] = p THEN Append(f[i - 1], q[i]) ELSE f[i - 1]]
           g == CHOOSE f : Of(f)
<1>1. n \in Nat /\ \A i \in 1 .. n : q[i] \in Threads
  BY SeqFacts
<1>2. \A i \in 1 .. n : \A x \in S[i - 1] : step[i][x] \in S[i]
  <2>1. ASSUME NEW i \in 1 .. n, NEW x \in S[i - 1] PROVE step[i][x] \in S[i]
    <3>1. i - 1 \in 0 .. n /\ i \in 0 .. n
      BY <1>1
    <3>2. x \in Seq(Threads)
      BY <3>1
    <3>3. step[i][x] = IF prio[q[i]] = p THEN Append(x, q[i]) ELSE x
      BY <3>2
    <3> HIDE DEF step
    <3> QED
      BY <1>1, <3>1, <3>2, <3>3
  <2> QED
    BY <2>1
<1>3. <<>> \in S[0]
  BY <1>1
<1> HIDE DEF S, step, n
<1>4. PICK f : Rounds(f, n, <<>>, step) /\ \A i \in 0 .. n : f[i] \in S[i]
  BY <1>1, <1>2, <1>3, Iteration
<1>5. \A i \in 0 .. n : f[i] \in Seq(Threads)
  BY <1>4 DEF S
<1>6. ASSUME NEW i \in 1 .. n
      PROVE  step[i][f[i - 1]] = IF prio[q[i]] = p THEN Append(f[i - 1], q[i]) ELSE f[i - 1]
  <2>1. i - 1 \in 0 .. n
    BY <1>1
  <2> QED
    BY <1>5, <2>1 DEF step
<1>7. Of(f)
  <2> DEFINE w == [i \in 0 .. n |-> IF i = 0 THEN <<>>
                     ELSE IF prio[q[i]] = p THEN Append(f[i - 1], q[i]) ELSE f[i - 1]]
             v == [i \in 0 .. n |-> IF i = 0 THEN <<>> ELSE step[i][f[i - 1]]]
  <2>1. ASSUME NEW i \in 0 .. n PROVE v[i] = w[i]
    <3>1. i = 0 \/ i \in 1 .. n
      BY <1>1
    <3> QED
      BY <1>6, <3>1
  <2>2. v = w
    BY <2>1
  <2> QED
    BY <1>4, <2>2 DEF Rounds
<1>8. Of(g)
  BY <1>7
<1>9. OfPrio(prio, q, p) = g[n]
  BY DEF OfPrio, n
<1> HIDE DEF g
<1>10. /\ g[0] = <<>>
       /\ \A i \in 1 .. n : g[i] = IF prio[q[i]] = p THEN Append(g[i - 1], q[i]) ELSE g[i - 1]
  <2>1. \A i \in 0 .. n : g[i] = IF i = 0 THEN <<>>
                     ELSE IF prio[q[i]] = p THEN Append(g[i - 1], q[i]) ELSE g[i - 1]
    BY <1>8
  <2>2. 0 \in 0 .. n /\ \A i \in 1 .. n : i \in 0 .. n /\ i # 0
    BY <1>1
  <2> HIDE DEF Of
  <2> QED
    BY <2>1, <2>2
<1> HIDE DEF Of
<1>11. \A i \in 0 .. n : g[i] \in Seq(Threads)
  <2> DEFINE U == {k \in 0 .. n : g[k] \in Seq(Threads)}
  <2>1. 0 \in U
    <3>1. 0 \in 0 .. n /\ <<>> \in Seq(Threads)
      BY <1>1
    <3> QED
      BY <1>10, <3>1
  <2>2. ASSUME NEW i \in 0 .. n - 1, i \in U PROVE i + 1 \in U
    <3>1. i + 1 \in 1 .. n /\ i + 1 \in 0 .. n /\ (i + 1) - 1 = i
      BY <1>1
    <3>2. g[i] \in Seq(Threads) /\ q[i + 1] \in Threads
      BY <1>1, <2>2, <3>1
    <3>3. g[i + 1] = IF prio[q[i + 1]] = p THEN Append(g[i], q[i + 1]) ELSE g[i]
      BY <1>10, <3>1
    <3>4. g[i + 1] \in Seq(Threads)
      BY <3>2, <3>3
    <3> QED
      BY <3>1, <3>4
  <2> HIDE DEF U
  <2>3. \A i \in 0 .. n : i \in U
    BY <1>1, <2>1, <2>2, UpTo
  <2> QED
    BY <2>3 DEF U
<1> QED
  BY <1>9, <1>10, <1>11 DEF Filters, n

LEMMA FiltersAre ==
  ASSUME NEW prio, NEW q \in Seq(Threads), NEW p
  PROVE  (\E f : Filters(f, prio, q, p)) /\ OfPrio(prio, q, p) \in Seq(Threads)
<1>1. PICK f : Filters(f, prio, q, p)
  BY OfPrioIs
<1>2. Len(q) \in 0 .. Len(q)
  BY SeqFacts
<1> QED
  BY <1>1, <1>2 DEF Filters

Agrees(prio, q, prio2, r) ==
  /\ Len(q) <= Len(r)
  /\ \A i \in 1 .. Len(q) : r[i] = q[i] /\ prio2[q[i]] = prio[q[i]]

LEMMA SameStart ==
  ASSUME NEW prio, NEW prio2, NEW q \in Seq(Threads), NEW r \in Seq(Threads), NEW p,
         NEW f, Filters(f, prio, q, p), NEW g, Filters(g, prio2, r, p),
         Agrees(prio, q, prio2, r)
  PROVE  g[Len(q)] = f[Len(q)]
<1> DEFINE U == {k \in 0 .. Len(q) : g[k] = f[k]}
<1>1. Len(q) \in Nat /\ Len(r) \in Nat
  BY SeqFacts
<1> USE DEF Agrees
<1>2. 0 \in U
  BY <1>1 DEF Filters
<1>3. ASSUME NEW i \in 0 .. Len(q) - 1, i \in U PROVE i + 1 \in U
  <2>1. /\ i + 1 \in 1 .. Len(q) /\ i + 1 \in 1 .. Len(r) /\ i + 1 \in 0 .. Len(q)
        /\ (i + 1) - 1 = i
    BY <1>1
  <2>2. f[i + 1] = IF prio[q[i + 1]] = p THEN Append(f[i], q[i + 1]) ELSE f[i]
    BY <2>1 DEF Filters
  <2>3. g[i + 1] = IF prio2[r[i + 1]] = p THEN Append(g[i], r[i + 1]) ELSE g[i]
    BY <2>1 DEF Filters
  <2>4. r[i + 1] = q[i + 1] /\ prio2[q[i + 1]] = prio[q[i + 1]] /\ g[i] = f[i]
    BY <1>3, <2>1
  <2> QED
    BY <2>1, <2>2, <2>3, <2>4
<1> HIDE DEF U
<1>4. \A i \in 0 .. Len(q) : i \in U
  BY <1>1, <1>2, <1>3, UpTo
<1>5. Len(q) \in 0 .. Len(q)
  BY <1>1
<1> QED
  BY <1>4, <1>5 DEF U

\* Priorities of threads that are not in q do not matter.
LEMMA OfPrioSame ==
  \A prio, prio2, p : \A q \in Seq(Threads) :
    (\A i \in 1 .. Len(q) : prio2[q[i]] = prio[q[i]]) => OfPrio(prio2, q, p) = OfPrio(prio, q, p)
<1> SUFFICES ASSUME NEW prio, NEW prio2, NEW q \in Seq(Threads), NEW p,
                    \A i \in 1 .. Len(q) : prio2[q[i]] = prio[q[i]]
             PROVE  OfPrio(prio2, q, p) = OfPrio(prio, q, p)
  OBVIOUS
<1>1. PICK f : Filters(f, prio, q, p)
  BY FiltersAre
<1>2. PICK g : Filters(g, prio2, q, p)
  BY FiltersAre
<1>3. Agrees(prio, q, prio2, q)
  BY SeqFacts DEF Agrees
<1>4. g[Len(q)] = f[Len(q)]
  BY <1>1, <1>2, <1>3, SameStart
<1> QED
  BY <1>1, <1>2, <1>4 DEF Filters

LEMMA ConcatIs ==
  ASSUME NEW q \in Seq(Threads), NEW r \in Seq(Threads)
  PROVE  /\ q \o r \in Seq(Threads) /\ Len(q \o r) = Len(q) + Len(r)
         /\ \A i \in 1 .. Len(q) : (q \o r)[i] = q[i]
         /\ \A i \in 1 .. Len(r) : (q \o r)[Len(q) + i] = r[i]
<1>1. q \o r \in Seq(Threads) /\ Len(q \o r) = Len(q) + Len(r)
  OBVIOUS
<1>2. \A i \in 1 .. Len(q) : (q \o r)[i] = q[i]
  OBVIOUS
<1>3. \A i \in 1 .. Len(r) : (q \o r)[Len(q) + i] = r[i]
  OBVIOUS
<1> QED
  BY <1>1, <1>2, <1>3

LEMMA AppendIs ==
  ASSUME NEW q \in Seq(Threads), NEW t \in Threads
  PROVE  /\ Append(q, t) \in Seq(Threads) /\ Len(Append(q, t)) = Len(q) + 1
         /\ \A i \in 1 .. Len(q) : Append(q, t)[i] = q[i]
         /\ Append(q, t)[Len(q) + 1] = t
OBVIOUS

LEMMA ConcatAppend ==
  ASSUME NEW q \in Seq(Threads), NEW r \in Seq(Threads), NEW t \in Threads
  PROVE  q \o Append(r, t) = Append(q \o r, t)
<1> DEFINE a == q \o Append(r, t)
           b == Append(q \o r, t)
<1>1. Len(q) \in Nat /\ Len(r) \in Nat
      /\ Append(r, t) \in Seq(Threads) /\ Len(Append(r, t)) = Len(r) + 1
  BY SeqFacts, AppendIs
<1>2. /\ a \in Seq(Threads) /\ Len(a) = Len(q) + (Len(r) + 1)
      /\ \A i \in 1 .. Len(q) : a[i] = q[i]
      /\ \A i \in 1 .. Len(r) + 1 : a[Len(q) + i] = Append(r, t)[i]
  BY <1>1, ConcatIs
<1>3. /\ q \o r \in Seq(Threads) /\ Len(q \o r) = Len(q) + Len(r)
      /\ \A i \in 1 .. Len(q) : (q \o r)[i] = q[i]
      /\ \A i \in 1 .. Len(r) : (q \o r)[Len(q) + i] = r[i]
  BY ConcatIs
<1>4. /\ b \in Seq(Threads) /\ Len(b) = (Len(q) + Len(r)) + 1
      /\ \A i \in 1 .. Len(q) + Len(r) : b[i] = (q \o r)[i]
      /\ b[(Len(q) + Len(r)) + 1] = t
  BY <1>3, AppendIs
<1>5. (\A i \in 1 .. Len(r) : Append(r, t)[i] = r[i]) /\ Append(r, t)[Len(r) + 1] = t
  BY AppendIs
<1> HIDE DEF a, b
<1>6. ASSUME NEW k \in 1 .. Len(a) PROVE a[k] = b[k]
  <2>1. CASE k <= Len(q)
    <3>1. k \in 1 .. Len(q) /\ k \in 1 .. Len(q) + Len(r)
      BY <1>1, <2>1
    <3> QED
      BY <1>2, <1>3, <1>4, <3>1
  <2>2. CASE k > Len(q)
    <3>1. PICK i \in 1 .. Len(r) + 1 : k = Len(q) + i
      <4>1. k - Len(q) \in 1 .. Len(r) + 1 /\ k = Len(q) + (k - Len(q))
        BY <1>1, <1>2, <2>2
      <4> QED
        BY <4>1
    <3>2. a[k] = Append(r, t)[i]
      BY <1>2, <3>1
    <3>3. CASE i = Len(r) + 1
      <4>1. k = (Len(q) + Len(r)) + 1
        BY <1>1, <3>1, <3>3
      <4> QED
        BY <1>4, <1>5, <3>2, <3>3, <4>1
    <3>4. CASE i # Len(r) + 1
      <4>1. i \in 1 .. Len(r) /\ k \in 1 .. Len(q) + Len(r)
        BY <1>1, <3>1, <3>4
      <4> QED
        BY <1>3, <1>4, <1>5, <3>1, <3>2, <4>1
    <3> QED
      BY <3>3, <3>4
  <2> QED
    BY <1>1, <1>2, <2>1, <2>2
<1>7. Len(a) = Len(b)
  BY <1>1, <1>2, <1>4
<1> QED
  BY <1>2, <1>4, <1>6, <1>7, SameSeq DEF a, b

LEMMA OfPrioConcat ==
  \A prio, p : \A q, r \in Seq(Threads) :
    OfPrio(prio, q \o r, p) = OfPrio(prio, q, p) \o OfPrio(prio, r, p)
<1> SUFFICES ASSUME NEW prio, NEW p, NEW q \in Seq(Threads), NEW r \in Seq(Threads)
             PROVE  OfPrio(prio, q \o r, p) = OfPrio(prio, q, p) \o OfPrio(prio, r, p)
  OBVIOUS
<1> DEFINE s == q \o r
<1>1. /\ Len(q) \in Nat /\ Len(r) \in Nat /\ s \in Seq(Threads) /\ Len(s) = Len(q) + Len(r)
      /\ \A i \in 1 .. Len(q) : s[i] = q[i]
      /\ \A i \in 1 .. Len(r) : s[Len(q) + i] = r[i]
  BY SeqFacts, ConcatIs
<1> HIDE DEF s
<1>2. PICK f : Filters(f, prio, q, p)
  BY FiltersAre
<1>3. PICK g : Filters(g, prio, r, p)
  BY FiltersAre
<1>4. PICK h : Filters(h, prio, s, p)
  BY <1>1, FiltersAre
<1> DEFINE U == {k \in 0 .. Len(r) : h[Len(q) + k] = f[Len(q)] \o g[k]}
<1>5. f[Len(q)] \in Seq(Threads)
  <2>1. Len(q) \in 0 .. Len(q)
    BY <1>1
  <2> QED
    BY <1>2, <2>1 DEF Filters
<1>6. 0 \in U
  <2>1. h[Len(q)] = f[Len(q)]
    <3>1. Agrees(prio, q, prio, s)
      BY <1>1 DEF Agrees
    <3> QED
      BY <1>1, <1>2, <1>4, <3>1, SameStart
  <2>2. g[0] = <<>> /\ Len(q) + 0 = Len(q) /\ 0 \in 0 .. Len(r)
    BY <1>1, <1>3 DEF Filters
  <2>3. f[Len(q)] \o <<>> = f[Len(q)]
    BY <1>5
  <2> QED
    BY <2>1, <2>2, <2>3
<1>7. ASSUME NEW k \in 0 .. Len(r) - 1, k \in U PROVE k + 1 \in U
  <2>1. /\ k + 1 \in 1 .. Len(r) /\ k + 1 \in 0 .. Len(r) /\ (k + 1) - 1 = k /\ k \in 0 .. Len(r)
        /\ Len(q) + (k + 1) \in 1 .. Len(s) /\ (Len(q) + (k + 1)) - 1 = Len(q) + k
    BY <1>1
  <2>2. g[k + 1] = IF prio[r[k + 1]] = p THEN Append(g[k], r[k + 1]) ELSE g[k]
    BY <1>3, <2>1 DEF Filters
  <2>3. h[Len(q) + (k + 1)] = IF prio[s[Len(q) + (k + 1)]] = p
                              THEN Append(h[Len(q) + k], s[Len(q) + (k + 1)]) ELSE h[Len(q) + k]
    BY <1>4, <2>1 DEF Filters
  <2>4. s[Len(q) + (k + 1)] = r[k + 1] /\ h[Len(q) + k] = f[Len(q)] \o g[k]
    BY <1>1, <1>7, <2>1
  <2>5. g[k] \in Seq(Threads) /\ r[k + 1] \in Threads
    BY <1>3, <2>1, SeqFacts DEF Filters
  <2>6. f[Len(q)] \o Append(g[k], r[k + 1]) = Append(f[Len(q)] \o g[k], r[k + 1])
    BY <1>5, <2>5, ConcatAppend
  <2>7. h[Len(q) + (k + 1)] = f[Len(q)] \o g[k + 1]
    BY <2>2, <2>3, <2>4, <2>6
  <2> QED
    BY <2>1, <2>7
<1> HIDE DEF U
<1>8. \A k \in 0 .. Len(r) : k \in U
  BY <1>1, <1>6, <1>7, UpTo
<1>9. Len(r) \in U
  <2>1. Len(r) \in 0 .. Len(r)
    BY <1>1
  <2> QED
    BY <1>8, <2>1
<1>10. h[Len(s)] = f[Len(q)] \o g[Len(r)]
  BY <1>1, <1>9 DEF U
<1> QED
  BY <1>2, <1>3, <1>4, <1>10 DEF Filters, s

LEMMA OfPrioAppend ==
  ASSUME NEW prio, NEW q \in Seq(Threads), NEW t \in Threads, NEW p
  PROVE  OfPrio(prio, Append(q, t), p) =
           IF prio[t] = p THEN Append(OfPrio(prio, q, p), t) ELSE OfPrio(prio, q, p)
<1> DEFINE s == Append(q, t)
<1>1. /\ Len(q) \in Nat /\ s \in Seq(Threads) /\ Len(s) = Len(q) + 1
      /\ \A i \in 1 .. Len(q) : s[i] = q[i]
      /\ s[Len(q) + 1] = t
  BY SeqFacts, AppendIs
<1> HIDE DEF s
<1>2. PICK f : Filters(f, prio, q, p)
  BY FiltersAre
<1>3. PICK h : Filters(h, prio, s, p)
  BY <1>1, FiltersAre
<1>4. Agrees(prio, q, prio, s)
  BY <1>1 DEF Agrees
<1>5. h[Len(q)] = f[Len(q)]
  BY <1>1, <1>2, <1>3, <1>4, SameStart
<1>6. Len(s) \in 1 .. Len(s) /\ Len(s) - 1 = Len(q)
  BY <1>1
<1>7. h[Len(s)] = IF prio[t] = p THEN Append(h[Len(q)], t) ELSE h[Len(q)]
  BY <1>1, <1>3, <1>6 DEF Filters
<1> QED
  BY <1>2, <1>3, <1>5, <1>7 DEF Filters, s

Extended(x2, x, prio, p, t) == x2 = IF prio[t] = p THEN Append(x, t) ELSE x

LEMMA OfPrioExtends ==
  ASSUME NEW prio, NEW q \in Seq(Threads), NEW t \in Threads, NEW p
  PROVE  Extended(OfPrio(prio, Append(q, t), p), OfPrio(prio, q, p), prio, p, t)
BY OfPrioAppend DEF Extended

LEMMA OfPrioEmpty ==
  ASSUME NEW prio, NEW p
  PROVE  OfPrio(prio, <<>>, p) = <<>>
<1>1. <<>> \in Seq(Threads) /\ Len(<<>>) = 0
  OBVIOUS
<1>2. PICK f : Filters(f, prio, <<>>, p)
  BY <1>1, FiltersAre
<1> QED
  BY <1>1, <1>2 DEF Filters

\* t is in q.
Has(q, t) == \E i \in 1 .. Len(q) : q[i] = t

LEMMA HasAppend ==
  ASSUME NEW q \in Seq(Threads), NEW t \in Threads, NEW u
  PROVE  Has(Append(q, t), u) <=> Has(q, u) \/ u = t
<1>1. /\ Len(q) \in Nat /\ Len(Append(q, t)) = Len(q) + 1
      /\ \A i \in 1 .. Len(q) : Append(q, t)[i] = q[i]
      /\ Append(q, t)[Len(q) + 1] = t
  BY SeqFacts, AppendIs
<1>2. /\ \A i \in 1 .. Len(q) + 1 : i \in 1 .. Len(q) \/ i = Len(q) + 1
      /\ \A i \in 1 .. Len(q) : i \in 1 .. Len(q) + 1
      /\ Len(q) + 1 \in 1 .. Len(q) + 1
  BY <1>1
<1> QED
  BY <1>1, <1>2 DEF Has

LEMMA HasConcat ==
  ASSUME NEW q \in Seq(Threads), NEW r \in Seq(Threads), NEW u
  PROVE  Has(q \o r, u) <=> Has(q, u) \/ Has(r, u)
<1>1. /\ Len(q) \in Nat /\ Len(r) \in Nat /\ Len(q \o r) = Len(q) + Len(r)
      /\ \A i \in 1 .. Len(q) : (q \o r)[i] = q[i]
      /\ \A i \in 1 .. Len(r) : (q \o r)[Len(q) + i] = r[i]
  BY SeqFacts, ConcatIs
<1>2. ASSUME NEW i \in 1 .. Len(q) + Len(r), i \notin 1 .. Len(q)
      PROVE  i - Len(q) \in 1 .. Len(r) /\ i = Len(q) + (i - Len(q))
  BY <1>1, <1>2
<1>3. /\ \A i \in 1 .. Len(q) : i \in 1 .. Len(q) + Len(r)
      /\ \A i \in 1 .. Len(r) : Len(q) + i \in 1 .. Len(q) + Len(r)
  BY <1>1
<1>4. Has(q \o r, u) => Has(q, u) \/ Has(r, u)
  BY <1>1, <1>2 DEF Has
<1>5. Has(q, u) => Has(q \o r, u)
  BY <1>1, <1>3 DEF Has
<1>6. Has(r, u) => Has(q \o r, u)
  BY <1>1, <1>3 DEF Has
<1> QED
  BY <1>4, <1>5, <1>6

LEMMA OfPrioHas ==
  \A prio, p, u : \A q \in Seq(Threads) :
    Has(OfPrio(prio, q, p), u) <=> Has(q, u) /\ prio[u] = p
<1> SUFFICES ASSUME NEW prio, NEW p, NEW u, NEW q \in Seq(Threads)
             PROVE  Has(OfPrio(prio, q, p), u) <=> Has(q, u) /\ prio[u] = p
  OBVIOUS
<1>1. Len(q) \in Nat /\ \A i \in 1 .. Len(q) : q[i] \in Threads
  BY SeqFacts
<1>2. PICK f : Filters(f, prio, q, p)
  BY FiltersAre
<1> DEFINE Among(k) == \E i \in 1 .. k : q[i] = u
           U == {k \in 0 .. Len(q) : Has(f[k], u) <=> Among(k) /\ prio[u] = p}
<1>3. 0 \in U
  <2>1. f[0] = <<>> /\ 0 \in 0 .. Len(q) /\ ~Among(0) /\ Len(<<>>) = 0
    BY <1>1, <1>2 DEF Filters
  <2> HIDE DEF Among
  <2> QED
    BY <2>1 DEF Has
<1>4. ASSUME NEW k \in 0 .. Len(q) - 1, k \in U PROVE k + 1 \in U
  <2>1. k + 1 \in 1 .. Len(q) /\ k + 1 \in 0 .. Len(q) /\ (k + 1) - 1 = k /\ k \in 0 .. Len(q)
    BY <1>1
  <2>2. /\ f[k + 1] = IF prio[q[k + 1]] = p THEN Append(f[k], q[k + 1]) ELSE f[k]
        /\ f[k] \in Seq(Threads) /\ q[k + 1] \in Threads
    BY <1>1, <1>2, <2>1 DEF Filters
  <2>3. Among(k + 1) <=> Among(k) \/ q[k + 1] = u
    <3>1. \A i \in 1 .. k + 1 : i \in 1 .. k \/ i = k + 1
      OBVIOUS
    <3>2. k + 1 \in 1 .. k + 1 /\ \A i \in 1 .. k : i \in 1 .. k + 1
      OBVIOUS
    <3> QED
      BY <3>1, <3>2
  <2>4. Has(Append(f[k], q[k + 1]), u) <=> Has(f[k], u) \/ u = q[k + 1]
    BY <2>2, HasAppend
  <2> HIDE DEF Among
  <2>5. Has(f[k], u) <=> Among(k) /\ prio[u] = p
    BY <1>4
  <2>6. Has(f[k + 1], u) <=> Among(k + 1) /\ prio[u] = p
    BY <2>2, <2>3, <2>4, <2>5
  <2> QED
    BY <2>1, <2>6
<1> HIDE DEF U
<1>5. \A k \in 0 .. Len(q) : k \in U
  BY <1>1, <1>3, <1>4, UpTo
<1>6. Len(q) \in U
  <2>1. Len(q) \in 0 .. Len(q)
    BY <1>1
  <2> QED
    BY <1>5, <2>1
<1>7. Has(f[Len(q)], u) <=> Among(Len(q)) /\ prio[u] = p
  BY <1>6 DEF U
<1> QED
  BY <1>2, <1>7 DEF Filters, Has

LEMMA HasNone ==
  ASSUME NEW q \in Seq(Threads), \A u \in Threads : ~Has(q, u)
  PROVE  q = <<>>
<1>1. Len(q) \in Nat /\ (q = <<>> <=> Len(q) = 0) /\ \A i \in 1 .. Len(q) : q[i] \in Threads
  BY SeqFacts
<1>2. Len(q) # 0 => 1 \in 1 .. Len(q)
  BY <1>1
<1> QED
  BY <1>1, <1>2 DEF Has

-----------------------------------------------------------------------------
(* Putting in and taking out.                                                *)

LEMMA SubSeqIs ==
  ASSUME NEW q \in Seq(Threads), NEW i \in 0 .. Len(q)
  PROVE  /\ SubSeq(q, 1, i) \in Seq(Threads) /\ Len(SubSeq(q, 1, i)) = i
         /\ \A k \in 1 .. i : SubSeq(q, 1, i)[k] = q[k]
         /\ SubSeq(q, i + 1, Len(q)) \in Seq(Threads)
         /\ Len(SubSeq(q, i + 1, Len(q))) = Len(q) - i
         /\ \A k \in 1 .. Len(q) - i : SubSeq(q, i + 1, Len(q))[k] = q[i + k]
<1>1. Len(q) \in Nat /\ i \in Nat
  BY SeqFacts
<1>2. SubSeq(q, 1, i) \in Seq(Threads) /\ Len(SubSeq(q, 1, i)) = i
  BY <1>1
<1>3. \A k \in 1 .. i : SubSeq(q, 1, i)[k] = q[k]
  BY <1>1
<1>4. SubSeq(q, i + 1, Len(q)) \in Seq(Threads) /\ Len(SubSeq(q, i + 1, Len(q))) = Len(q) - i
  BY <1>1
<1>5. \A k \in 1 .. Len(q) - i : SubSeq(q, i + 1, Len(q))[k] = q[i + k]
  BY <1>1
<1> QED
  BY <1>2, <1>3, <1>4, <1>5

\* s is a, of n threads, and then b, of m threads.
Joins(s, a, n, b, m) ==
  /\ s \in Seq(Threads) /\ a \in Seq(Threads) /\ b \in Seq(Threads)
  /\ Len(a) = n /\ Len(b) = m /\ Len(s) = n + m
  /\ \A k \in 1 .. n : s[k] = a[k]
  /\ \A k \in 1 .. m : s[n + k] = b[k]

LEMMA IsConcat ==
  ASSUME NEW a, NEW b, NEW s, NEW n, NEW m, Joins(s, a, n, b, m)
  PROVE  s = a \o b
<1> USE DEF Joins
<1> DEFINE r == a \o b
<1>1. n \in Nat /\ m \in Nat
  BY SeqFacts
<1>2. /\ r \in Seq(Threads) /\ Len(r) = Len(a) + Len(b)
      /\ \A k \in 1 .. Len(a) : r[k] = a[k]
      /\ \A k \in 1 .. Len(b) : r[Len(a) + k] = b[k]
  <2>1. a \in Seq(Threads) /\ b \in Seq(Threads)
    OBVIOUS
  <2> HIDE DEF Joins
  <2> QED
    BY <2>1, ConcatIs
<1> HIDE DEF r
<1>3. ASSUME NEW k \in 1 .. Len(s) PROVE s[k] = r[k]
  <2>1. CASE k <= n
    <3>1. k \in 1 .. n
      BY <1>1, <2>1
    <3> QED
      BY <1>2, <3>1
  <2>2. CASE k > n
    <3>1. k - n \in 1 .. m /\ n + (k - n) = k
      BY <1>1, <2>2
    <3>2. s[n + (k - n)] = b[k - n] /\ r[n + (k - n)] = b[k - n]
      BY <1>2, <3>1
    <3> QED
      BY <3>1, <3>2
  <2> QED
    BY <1>1, <2>1, <2>2
<1>4. Len(s) = Len(r)
  BY <1>1, <1>2
<1>5. s = r
  BY <1>2, <1>3, <1>4, SameSeq
<1> QED
  BY <1>5 DEF r

\* The parts of q around its threads i and j.
Fore(q, i) == SubSeq(q, 1, i)
Rear(q, i) == SubSeq(q, i + 1, Len(q))

LEMMA PartsAre ==
  ASSUME NEW q \in Seq(Threads), NEW i \in 0 .. Len(q)
  PROVE  /\ Fore(q, i) \in Seq(Threads) /\ Len(Fore(q, i)) = i
         /\ \A k \in 1 .. i : Fore(q, i)[k] = q[k]
         /\ Rear(q, i) \in Seq(Threads) /\ Len(Rear(q, i)) = Len(q) - i
         /\ \A k \in 1 .. Len(q) - i : Rear(q, i)[k] = q[i + k]
         /\ q = Fore(q, i) \o Rear(q, i)
<1> DEFINE a == Fore(q, i)
           b == Rear(q, i)
<1>1. /\ a \in Seq(Threads) /\ Len(a) = i /\ \A k \in 1 .. i : a[k] = q[k]
      /\ b \in Seq(Threads) /\ Len(b) = Len(q) - i /\ \A k \in 1 .. Len(q) - i : b[k] = q[i + k]
  BY SubSeqIs DEF Fore, Rear
<1> HIDE DEF a, b
<1>2. Len(q) = i + (Len(q) - i)
  BY SeqFacts
<1>3. (\A k \in 1 .. i : q[k] = a[k]) /\ \A k \in 1 .. Len(q) - i : q[i + k] = b[k]
  BY <1>1
<1> DEFINE m == Len(q) - i
<1>4. Len(b) = m /\ Len(q) = i + m /\ \A k \in 1 .. m : q[i + k] = b[k]
  BY <1>1, <1>2, <1>3
<1> HIDE DEF m
<1>5. Joins(q, a, i, b, m)
  BY <1>1, <1>3, <1>4 DEF Joins
<1>6. q = a \o b
  BY <1>5, IsConcat
<1> QED
  BY <1>1, <1>6 DEF a, b

\* t between the two parts of q, or q[i] taken out from between them.
LEMMA InsertionSplit ==
  ASSUME NEW q \in Seq(Threads), NEW i \in 0 .. Len(q), NEW t \in Threads
  PROVE  Insertion(q, i, t) = Append(Fore(q, i), t) \o Rear(q, i)
<1> DEFINE a == Fore(q, i)
           b == Rear(q, i)
           c == Append(a, t)
           r == Insertion(q, i, t)
           n == i + 1
           m == Len(q) - i
<1>1. /\ Len(q) \in Nat /\ i \in Nat
      /\ a \in Seq(Threads) /\ Len(a) = i /\ \A k \in 1 .. i : a[k] = q[k]
      /\ b \in Seq(Threads) /\ Len(b) = m /\ \A k \in 1 .. m : b[k] = q[i + k]
  <2>1. Len(q) \in Nat /\ i \in Nat
    BY SeqFacts
  <2>2. a \in Seq(Threads) /\ Len(a) = i /\ \A k \in 1 .. i : a[k] = q[k]
    BY PartsAre
  <2>3. b \in Seq(Threads) /\ Len(b) = m /\ \A k \in 1 .. m : b[k] = q[i + k]
    BY PartsAre
  <2> QED
    BY <2>1, <2>2, <2>3
<1>2. /\ r \in Seq(Threads) /\ Len(r) = Len(q) + 1
      /\ \A k \in 1 .. i : r[k] = q[k]
      /\ r[i + 1] = t
      /\ \A k \in i + 2 .. Len(q) + 1 : r[k] = q[k - 1]
  <2>1. r \in Seq(Threads) /\ Len(r) = Len(q) + 1
    BY InsertionIs
  <2>2. \A k \in 1 .. i : r[k] = q[k]
    BY InsertionIs
  <2>3. r[i + 1] = t
    BY InsertionIs
  <2>4. \A k \in i + 2 .. Len(q) + 1 : r[k] = q[k - 1]
    BY InsertionIs
  <2> QED
    BY <2>1, <2>2, <2>3, <2>4
<1> HIDE DEF a, b, r
<1>3. /\ c \in Seq(Threads) /\ Len(c) = n
      /\ \A k \in 1 .. i : c[k] = a[k]
      /\ c[n] = t
  BY <1>1, AppendIs
<1> HIDE DEF c
<1>4. ASSUME NEW k \in 1 .. n PROVE r[k] = c[k]
  <2>1. k \in 1 .. i \/ k = n
    BY <1>1
  <2> QED
    BY <1>1, <1>2, <1>3, <2>1
<1>5. ASSUME NEW k \in 1 .. m PROVE r[n + k] = b[k]
  <2>1. n + k \in i + 2 .. Len(q) + 1 /\ (n + k) - 1 = i + k
    BY <1>1
  <2> QED
    BY <1>1, <1>2, <2>1
<1>6. Len(r) = n + m
  BY <1>1, <1>2
<1> HIDE DEF n, m
<1>7. Joins(r, c, n, b, m)
  BY <1>1, <1>2, <1>3, <1>4, <1>5, <1>6 DEF Joins
<1>8. r = c \o b
  BY <1>7, IsConcat
<1> QED
  BY <1>8 DEF a, b, c, r

LEMMA DeletionSplit ==
  ASSUME NEW q \in Seq(Threads), NEW i \in 1 .. Len(q)
  PROVE  /\ q = Append(Fore(q, i - 1), q[i]) \o Rear(q, i)
         /\ Deletion(q, i) = Fore(q, i - 1) \o Rear(q, i)
<1> DEFINE a == Fore(q, i - 1)
           b == Rear(q, i)
           c == Append(a, q[i])
           r == Deletion(q, i)
           n == i - 1
           m == Len(q) - i
<1>1. /\ Len(q) \in Nat /\ i \in Nat /\ n \in 0 .. Len(q) /\ i \in 0 .. Len(q)
      /\ q[i] \in Threads /\ n + 1 = i
  BY SeqFacts
<1>2. a \in Seq(Threads) /\ Len(a) = n /\ \A k \in 1 .. n : a[k] = q[k]
  BY <1>1, PartsAre
<1>3. b \in Seq(Threads) /\ Len(b) = m /\ \A k \in 1 .. m : b[k] = q[i + k]
  BY <1>1, PartsAre
<1>4. /\ r \in Seq(Threads) /\ Len(r) = Len(q) - 1
      /\ \A k \in 1 .. n : r[k] = q[k]
      /\ \A k \in i .. Len(q) - 1 : r[k] = q[k + 1]
  BY DeletionIs
<1> HIDE DEF a, b, r
<1>5. /\ c \in Seq(Threads) /\ Len(c) = i
      /\ \A k \in 1 .. n : c[k] = a[k]
      /\ c[i] = q[i]
  BY <1>1, <1>2, AppendIs
<1> HIDE DEF c
<1>6. ASSUME NEW k \in 1 .. i PROVE q[k] = c[k]
  <2>1. k \in 1 .. n \/ k = i
    BY <1>1
  <2> QED
    BY <1>2, <1>5, <2>1
<1>7. ASSUME NEW k \in 1 .. m PROVE r[n + k] = b[k]
  <2>1. n + k \in i .. Len(q) - 1 /\ (n + k) + 1 = i + k
    BY <1>1
  <2> QED
    BY <1>3, <1>4, <2>1
<1>8. Len(q) = i + m /\ Len(r) = n + m
  BY <1>1, <1>4
<1>9. (\A k \in 1 .. n : r[k] = a[k]) /\ \A k \in 1 .. m : q[i + k] = b[k]
  BY <1>2, <1>3, <1>4
<1> HIDE DEF n, m
<1>10. Joins(r, a, n, b, m)
  BY <1>2, <1>3, <1>4, <1>7, <1>8, <1>9 DEF Joins
<1>11. Joins(q, c, i, b, m)
  BY <1>3, <1>5, <1>6, <1>8, <1>9 DEF Joins
<1>12. r = a \o b /\ q = c \o b
  BY <1>10, <1>11, IsConcat
<1> QED
  BY <1>12 DEF a, b, c, r

\* q without t.
Without(q, t) ==
  IF Has(q, t) THEN Deletion(q, CHOOSE i \in 1 .. Len(q) : q[i] = t) ELSE q

LEMMA WithoutIs ==
  ASSUME NEW q, Once(q), NEW i \in 1 .. Len(q)
  PROVE  Without(q, q[i]) = Deletion(q, i)
<1>1. Has(q, q[i])
  BY DEF Has
<1>2. (CHOOSE k \in 1 .. Len(q) : q[k] = q[i]) = i
  BY DEF Once
<1> QED
  BY <1>1, <1>2 DEF Without

LEMMA WithoutSplit ==
  ASSUME NEW a \in Seq(Threads), NEW b \in Seq(Threads), NEW t \in Threads,
         ~Has(a, t), ~Has(b, t)
  PROVE  Without(Append(a, t) \o b, t) = a \o b
<1> DEFINE c == Append(a, t)
           q == c \o b
           n == Len(a) + 1
<1>1. /\ Len(a) \in Nat /\ Len(b) \in Nat
      /\ c \in Seq(Threads) /\ Len(c) = n
      /\ \A k \in 1 .. Len(a) : c[k] = a[k]
      /\ c[n] = t
  BY SeqFacts, AppendIs
<1> HIDE DEF c
<1>2. /\ q \in Seq(Threads) /\ Len(q) = n + Len(b)
      /\ \A k \in 1 .. n : q[k] = c[k]
      /\ \A k \in 1 .. Len(b) : q[n + k] = b[k]
  <2>1. q \in Seq(Threads) /\ Len(q) = Len(c) + Len(b)
    BY <1>1, ConcatIs
  <2>2. \A k \in 1 .. Len(c) : q[k] = c[k]
    BY <1>1, ConcatIs
  <2>3. \A k \in 1 .. Len(b) : q[Len(c) + k] = b[k]
    BY <1>1, ConcatIs
  <2> HIDE DEF n, q
  <2> QED
    BY <1>1, <2>1, <2>2, <2>3
<1> HIDE DEF q
<1>3. n \in 1 .. Len(q) /\ q[n] = t
  <2>1. n \in 1 .. n /\ n \in 1 .. Len(q)
    BY <1>1, <1>2
  <2> QED
    BY <1>1, <1>2, <2>1
<1>4. ASSUME NEW k \in 1 .. Len(q), q[k] = t PROVE k = n
  <2>1. CASE k < n
    <3>1. k \in 1 .. Len(a) /\ k \in 1 .. n
      BY <1>1, <2>1
    <3> QED
      BY <1>1, <1>2, <1>4, <3>1 DEF Has
  <2>2. CASE k > n
    <3>1. k - n \in 1 .. Len(b) /\ n + (k - n) = k
      BY <1>1, <1>2, <2>2
    <3> QED
      BY <1>2, <1>4, <3>1 DEF Has
  <2>3. k < n \/ k > n \/ k = n
    BY <1>1, <1>2
  <2> QED
    BY <2>1, <2>2, <2>3
<1>5. Has(q, t)
  BY <1>3 DEF Has
<1>6. (CHOOSE k \in 1 .. Len(q) : q[k] = t) = n
  <2> HIDE DEF n
  <2> QED
    BY <1>3, <1>4
<1>7. Without(q, t) = Deletion(q, n)
  BY <1>5, <1>6 DEF Without
<1> DEFINE r == Deletion(q, n)
<1>8. /\ r \in Seq(Threads) /\ Len(r) = Len(q) - 1
      /\ \A k \in 1 .. n - 1 : r[k] = q[k]
      /\ \A k \in n .. Len(q) - 1 : r[k] = q[k + 1]
  BY <1>2, <1>3, DeletionIs
<1> HIDE DEF r
<1>9. ASSUME NEW k \in 1 .. Len(a) PROVE r[k] = a[k]
  <2>1. k \in 1 .. n - 1 /\ k \in 1 .. n
    BY <1>1
  <2> QED
    BY <1>1, <1>2, <1>8, <2>1
<1>10. ASSUME NEW k \in 1 .. Len(b) PROVE r[Len(a) + k] = b[k]
  <2>1. Len(a) + k \in n .. Len(q) - 1 /\ (Len(a) + k) + 1 = n + k
    BY <1>1, <1>2
  <2> QED
    BY <1>2, <1>8, <2>1
<1>11. Len(r) = Len(a) + Len(b)
  BY <1>1, <1>2, <1>8
<1>12. Joins(r, a, Len(a), b, Len(b))
  BY <1>8, <1>9, <1>10, <1>11 DEF Joins
<1>13. r = a \o b
  BY <1>12, IsConcat
<1> QED
  BY <1>7, <1>13 DEF q, r, c

\* r is q with t behind the threads of its priority.
Gains(prio, r, q, t) ==
  \A p : OfPrio(prio, r, p) = IF prio[t] = p THEN Append(OfPrio(prio, q, p), t)
                             ELSE OfPrio(prio, q, p)

LEMMA OfPrioInserted ==
  ASSUME NEW prio, NEW i, NEW q \in Seq(Threads), NEW t \in Threads,
         Place(prio, q, t, i), prio[t] \in Int
  PROVE  Gains(prio, Insertion(q, i, t), q, t)
<1> SUFFICES ASSUME NEW p
             PROVE  OfPrio(prio, Insertion(q, i, t), p) =
                      IF prio[t] = p THEN Append(OfPrio(prio, q, p), t) ELSE OfPrio(prio, q, p)
  BY DEF Gains
<1> DEFINE a == Fore(q, i)
           b == Rear(q, i)
<1>1. i \in 0 .. Len(q) /\ Len(q) \in Nat
  BY SeqFacts DEF Place
<1>2. /\ a \in Seq(Threads) /\ q = a \o b
      /\ b \in Seq(Threads) /\ Len(b) = Len(q) - i /\ \A k \in 1 .. Len(q) - i : b[k] = q[i + k]
  BY <1>1, PartsAre
<1>3. Insertion(q, i, t) = Append(a, t) \o b /\ Append(a, t) \in Seq(Threads)
  BY <1>1, <1>2, InsertionSplit, AppendIs
<1>4. ASSUME NEW u \in Threads, Has(b, u) PROVE prio[u] < prio[t]
  <2>1. PICK k \in 1 .. Len(b) : b[k] = u
    BY <1>4 DEF Has
  <2>2. i + k \in i + 1 .. Len(q) /\ k \in 1 .. Len(q) - i
    BY <1>1, <1>2, <2>1
  <2> HIDE DEF b
  <2>3. q[i + k] = u
    BY <1>2, <2>1, <2>2
  <2>4. prio[q[i + k]] < prio[t]
    BY <2>2 DEF Place
  <2> QED
    BY <2>3, <2>4
<1> HIDE DEF a, b
<1>5. /\ OfPrio(prio, q, p) = OfPrio(prio, a, p) \o OfPrio(prio, b, p)
      /\ OfPrio(prio, Insertion(q, i, t), p) = OfPrio(prio, Append(a, t), p) \o OfPrio(prio, b, p)
  <2>1. OfPrio(prio, a \o b, p) = OfPrio(prio, a, p) \o OfPrio(prio, b, p)
    BY <1>2, OfPrioConcat
  <2>2. OfPrio(prio, Append(a, t) \o b, p) =
          OfPrio(prio, Append(a, t), p) \o OfPrio(prio, b, p)
    BY <1>2, <1>3, OfPrioConcat
  <2> QED
    BY <1>2, <1>3, <2>1, <2>2
<1>6. OfPrio(prio, Append(a, t), p) =
        IF prio[t] = p THEN Append(OfPrio(prio, a, p), t) ELSE OfPrio(prio, a, p)
  BY <1>2, OfPrioAppend
<1>7. /\ OfPrio(prio, a, p) \in Seq(Threads) /\ OfPrio(prio, b, p) \in Seq(Threads)
  BY <1>2, FiltersAre
<1>8. CASE prio[t] = p
  <2>1. \A u \in Threads : ~Has(OfPrio(prio, b, p), u)
    <3>1. ASSUME NEW u \in Threads, Has(b, u) PROVE prio[u] # p
      BY <1>4, <1>8, <3>1
    <3> QED
      BY <1>2, <3>1, OfPrioHas
  <2>2. OfPrio(prio, b, p) = <<>>
    BY <1>7, <2>1, HasNone
  <2>3. Append(OfPrio(prio, a, p), t) \in Seq(Threads)
    BY <1>7, AppendIs
  <2>4. \A s \in Seq(Threads) : s \o <<>> = s
    OBVIOUS
  <2> QED
    BY <1>5, <1>6, <1>7, <1>8, <2>2, <2>3, <2>4
<1>9. CASE prio[t] # p
  BY <1>5, <1>6, <1>9
<1> QED
  BY <1>8, <1>9

\* A thread of q, with what is before it and after it.
LEMMA Around ==
  ASSUME NEW q \in Seq(Threads), Once(q), NEW t, Has(q, t)
  PROVE  \E a, b \in Seq(Threads) :
           /\ q = Append(a, t) \o b /\ Without(q, t) = a \o b
           /\ ~Has(a, t) /\ ~Has(b, t)
<1>1. PICK i \in 1 .. Len(q) : q[i] = t
  BY DEF Has
<1> DEFINE a == Fore(q, i - 1)
           b == Rear(q, i)
<1>2. i - 1 \in 0 .. Len(q) /\ i \in 0 .. Len(q) /\ Len(q) \in Nat
  BY SeqFacts
<1>3. a \in Seq(Threads) /\ Len(a) = i - 1 /\ \A k \in 1 .. i - 1 : a[k] = q[k]
  BY <1>2, PartsAre
<1>4. b \in Seq(Threads) /\ Len(b) = Len(q) - i /\ \A k \in 1 .. Len(q) - i : b[k] = q[i + k]
  BY <1>2, PartsAre
<1>5. q = Append(a, t) \o b /\ Without(q, t) = a \o b
  <2>1. q = Append(Fore(q, i - 1), q[i]) \o Rear(q, i)
    BY DeletionSplit
  <2>2. Deletion(q, i) = Fore(q, i - 1) \o Rear(q, i)
    BY DeletionSplit
  <2>3. Without(q, q[i]) = Deletion(q, i)
    BY WithoutIs
  <2> QED
    BY <1>1, <2>1, <2>2, <2>3
<1> HIDE DEF a, b
<1>6. ~Has(a, t)
  <2>1. \A k \in 1 .. i - 1 : k \in 1 .. Len(q) /\ k # i
    BY <1>2
  <2> QED
    BY <1>1, <1>3, <2>1 DEF Has, Once
<1>7. ~Has(b, t)
  <2>1. \A k \in 1 .. Len(q) - i : i + k \in 1 .. Len(q) /\ i + k # i
    BY <1>2
  <2> QED
    BY <1>1, <1>4, <2>1 DEF Has, Once
<1> QED
  BY <1>3, <1>4, <1>5, <1>6, <1>7

LEMMA WithoutHas ==
  ASSUME NEW q \in Seq(Threads), Once(q), NEW t \in Threads
  PROVE  /\ Without(q, t) \in Seq(Threads)
         /\ \A u : Has(Without(q, t), u) <=> Has(q, u) /\ u # t
         /\ ~Has(q, t) => Without(q, t) = q
<1>1. CASE ~Has(q, t)
  BY <1>1 DEF Without
<1>2. CASE Has(q, t)
  <2>1. PICK a \in Seq(Threads), b \in Seq(Threads) :
           /\ q = Append(a, t) \o b /\ Without(q, t) = a \o b
           /\ ~Has(a, t) /\ ~Has(b, t)
    BY <1>2, Around
  <2>2. a \o b \in Seq(Threads) /\ Append(a, t) \in Seq(Threads)
    BY ConcatIs, AppendIs
  <2>3. ASSUME NEW u PROVE Has(a \o b, u) <=> Has(q, u) /\ u # t
    <3>1. Has(a \o b, u) <=> Has(a, u) \/ Has(b, u)
      BY HasConcat
    <3>2. Has(Append(a, t) \o b, u) <=> Has(Append(a, t), u) \/ Has(b, u)
      BY <2>2, HasConcat
    <3>3. Has(Append(a, t), u) <=> Has(a, u) \/ u = t
      BY HasAppend
    <3> QED
      BY <2>1, <3>1, <3>2, <3>3
  <2> QED
    BY <1>2, <2>1, <2>2, <2>3
<1> QED
  BY <1>1, <1>2

LEMMA OfPrioWithout ==
  ASSUME NEW prio, NEW q \in Seq(Threads), Once(q), NEW t \in Threads, NEW p
  PROVE  OfPrio(prio, Without(q, t), p) = Without(OfPrio(prio, q, p), t)
<1>1. CASE ~Has(q, t)
  <2>1. ~Has(OfPrio(prio, q, p), t)
    BY <1>1, OfPrioHas
  <2> QED
    BY <1>1, <2>1 DEF Without
<1>2. CASE Has(q, t)
  <2>1. PICK a \in Seq(Threads), b \in Seq(Threads) :
           /\ q = Append(a, t) \o b /\ Without(q, t) = a \o b
           /\ ~Has(a, t) /\ ~Has(b, t)
    BY <1>2, Around
  <2> DEFINE x == OfPrio(prio, a, p)
             y == OfPrio(prio, b, p)
  <2>2. /\ x \in Seq(Threads) /\ y \in Seq(Threads) /\ ~Has(x, t) /\ ~Has(y, t)
        /\ Append(a, t) \in Seq(Threads)
    BY <2>1, FiltersAre, OfPrioHas, AppendIs
  <2>3. /\ OfPrio(prio, a \o b, p) = x \o y
        /\ OfPrio(prio, q, p) = OfPrio(prio, Append(a, t), p) \o y
    <3>1. OfPrio(prio, a \o b, p) = x \o y
      BY OfPrioConcat
    <3>2. OfPrio(prio, Append(a, t) \o b, p) = OfPrio(prio, Append(a, t), p) \o y
      BY <2>2, OfPrioConcat
    <3> QED
      BY <2>1, <3>1, <3>2
  <2>4. OfPrio(prio, Append(a, t), p) = IF prio[t] = p THEN Append(x, t) ELSE x
    <3>1. Extended(OfPrio(prio, Append(a, t), p), OfPrio(prio, a, p), prio, p, t)
      BY OfPrioExtends
    <3> QED
      BY <3>1 DEF Extended
  <2> HIDE DEF x, y
  <2>5. CASE prio[t] = p
    <3>1. Without(Append(x, t) \o y, t) = x \o y
      BY <2>2, WithoutSplit
    <3> QED
      BY <2>1, <2>3, <2>4, <2>5, <3>1
  <2>6. CASE prio[t] # p
    <3>1. ~Has(OfPrio(prio, q, p), t)
      BY <2>6, OfPrioHas
    <3> QED
      BY <2>1, <2>3, <2>4, <2>6, <3>1 DEF Without
  <2> QED
    BY <2>5, <2>6
<1> QED
  BY <1>1, <1>2

\* Removing a thread is the same operation in both specifications.
LEMMA OutIs ==
  ASSUME NEW q \in Seq(Threads)
  PROVE  /\ \A t : t \in TQ!Held(q) <=> Has(q, t)
         /\ \A t : TQ!Out(q, t) = Without(q, t)
<1>1. DOMAIN q = 1 .. Len(q)
  BY SeqFacts
<1>2. ASSUME NEW t PROVE t \in TQ!Held(q) <=> Has(q, t)
  BY <1>1 DEF TQ!Held, Has
<1>3. ASSUME NEW t PROVE TQ!Out(q, t) = Without(q, t)
  <2>1. CASE ~Has(q, t)
    BY <1>2, <2>1 DEF TQ!Out, Without
  <2>2. CASE Has(q, t)
    <3> DEFINE i == CHOOSE k \in 1 .. Len(q) : q[k] = t
    <3>1. i \in 1 .. Len(q)
      BY <2>2 DEF Has
    <3>2. TQ!Out(q, t) = SubSeq(q, 1, i - 1) \o SubSeq(q, i + 1, Len(q))
      BY <1>1, <1>2, <2>2 DEF TQ!Out
    <3>3. Without(q, t) = Deletion(q, i)
      BY <2>2 DEF Without
    <3> HIDE DEF i
    <3>4. Deletion(q, i) = SubSeq(q, 1, i - 1) \o SubSeq(q, i + 1, Len(q))
      BY <3>1, DeletionSplit DEF Fore, Rear
    <3> QED
      BY <3>2, <3>3, <3>4
  <2> QED
    BY <2>1, <2>2
<1> QED
  BY <1>2, <1>3

-----------------------------------------------------------------------------
(* A thread on its way from one list to another.                             *)

\* t is in no list, whatever its state; all else is as in Linked.
Loose(m, Q, t) ==
  /\ Chains(m, Q) /\ Free(Q, t)
  /\ \A l \in Lists \ {"running", "zombie"} : InOrder(m.prio, Q[l])
  /\ \A l \in Lists : \A i \in 1 .. Len(Q[l]) : m.state[Q[l][i]] = StateIn(l)
  /\ \A l \in VmLists, u \in Threads \ {t} : m.state[u] = StateIn(l) => Has(Q[l], u)

\* The lists without t.
Drop(Q, t) == [l \in Lists |-> Without(Q[l], t)]

\* m2 differs from m in what belongs to t.
OnlyAt(m, m2, t) ==
  /\ m2 \in Memory /\ m2.head = m.head /\ m2.tail = m.tail
  /\ \A u \in Threads \ {t} : /\ m2.next[u] = m.next[u] /\ m2.prev[u] = m.prev[u]
                              /\ m2.state[u] = m.state[u] /\ m2.prio[u] = m.prio[u]

LEMMA ListNames ==
  /\ VmLists \subseteq Lists /\ Locks \subseteq Lists /\ Lists = VmLists \cup Locks
  /\ \A l \in Locks : l \notin VmLists /\ StateIn(l) = "Blocked"
  /\ StateIn("ready") = "Ready" /\ StateIn("running") = "Running"
  /\ StateIn("zombie") = "Zombie"
BY ConstantsAssumption DEF VmLists, Lists, StateIn

LEMMA ListFacts ==
  ASSUME NEW m, NEW Q, Chains(m, Q), NEW l \in Lists
  PROVE  Q[l] \in Seq(Threads) /\ Once(Q[l])
BY ChainFacts DEF Chain, Once

LEMMA DroppedNone ==
  ASSUME NEW m, NEW Q, Chains(m, Q), NEW t, Free(Q, t)
  PROVE  Drop(Q, t) = Q
<1>1. Q \in [Lists -> Seq(Threads)] /\ \A l \in Lists : Without(Q[l], t) = Q[l]
  BY DEF Chains, Free, Without, Has
<1> QED
  BY <1>1 DEF Drop

LEMMA LooseFrom ==
  ASSUME NEW m, NEW Q, Linked(m, Q), NEW t, Free(Q, t)
  PROVE  Loose(m, Q, t)
BY DEF Linked, Loose, Has

LEMMA LooseOff ==
  ASSUME NEW m, NEW Q, NEW t, Loose(m, Q, t), m.state[t] \notin {"Ready", "Running", "Zombie"}
  PROVE  Linked(m, Q)
<1>1. \A l \in VmLists : m.state[t] # StateIn(l)
  BY ListNames DEF VmLists
<1> QED
  BY <1>1 DEF Linked, Loose, Has

LEMMA LooseKept ==
  ASSUME NEW m, NEW Q, NEW t, Loose(m, Q, t), NEW m2, OnlyAt(m, m2, t)
  PROVE  Loose(m2, Q, t)
<1>1. \A l \in Lists : \A i \in 1 .. Len(Q[l]) : Q[l][i] \in Threads \ {t}
  BY ChainFacts DEF Loose, Free
<1>2. \A l \in Lists : Chain(m2, l, Q[l])
  <2>1. ASSUME NEW l \in Lists PROVE Chain(m2, l, Q[l])
    <3>1. Chain(m, l, Q[l])
      BY DEF Loose, Chains
    <3>2. m2.head[l] = m.head[l] /\ m2.tail[l] = m.tail[l]
      BY DEF OnlyAt
    <3>3. \A i \in 1 .. Len(Q[l]) : m2.next[Q[l][i]] = m.next[Q[l][i]]
                                    /\ m2.prev[Q[l][i]] = m.prev[Q[l][i]]
      BY <1>1 DEF OnlyAt
    <3> QED
      BY <3>1, <3>2, <3>3, ChainKept
  <2> QED
    BY <2>1
<1>3. Chains(m2, Q)
  BY <1>2 DEF Loose, Chains, OnlyAt
<1>4. \A l \in Lists \ {"running", "zombie"} : InOrder(m2.prio, Q[l])
  BY <1>1 DEF Loose, OnlyAt, InOrder
<1>5. \A l \in Lists : \A i \in 1 .. Len(Q[l]) : m2.state[Q[l][i]] = StateIn(l)
  BY <1>1 DEF Loose, OnlyAt
<1>6. \A l \in VmLists, u \in Threads \ {t} : m2.state[u] = StateIn(l) => Has(Q[l], u)
  BY DEF Loose, OnlyAt
<1> QED
  BY <1>3, <1>4, <1>5, <1>6 DEF Loose

LEMMA LooseOut ==
  ASSUME NEW m, NEW Q, Linked(m, Q), NEW l \in Lists, NEW i \in 1 .. Len(Q[l]),
         NEW m2, SplicedOut(m, m2, l, Q[l], i)
  PROVE  Loose(m2, Drop(Q, Q[l][i]), Q[l][i])
<1> DEFINE t == Q[l][i]
           r == Deletion(Q[l], i)
           R == [Q EXCEPT ![l] = r]
<1>1. /\ Chains(m, Q) /\ Q \in [Lists -> Seq(Threads)] /\ Q[l] \in Seq(Threads) /\ Once(Q[l])
      /\ Len(Q[l]) \in Nat /\ t \in Threads
  BY ListFacts, ChainFacts DEF Linked, Chains
<1>2. Chains(m2, R) /\ Free(R, t)
  BY <1>1, SplicesOut
<1>3. Drop(Q, t) = R
  <2>1. Without(Q[l], t) = r
    BY <1>1, WithoutIs
  <2>2. ASSUME NEW k \in Lists \ {l} PROVE Without(Q[k], t) = Q[k]
    <3>1. ~Has(Q[k], t)
      BY <1>1 DEF Has, Chains
    <3> QED
      BY <3>1 DEF Without
  <2> HIDE DEF r, t
  <2> QED
    BY <1>1, <2>1, <2>2 DEF Drop
<1>4. /\ Len(r) = Len(Q[l]) - 1
      /\ \A k \in 1 .. Len(Q[l]) - 1 : r[k] = IF k < i THEN Q[l][k] ELSE Q[l][k + 1]
  BY <1>1, DeletionIs DEF Deletion
<1> DEFINE at(k) == IF k < i THEN k ELSE k + 1
<1>5. \A k \in 1 .. Len(r) : r[k] = Q[l][at(k)] /\ at(k) \in 1 .. Len(Q[l])
  <2> HIDE DEF r
  <2> QED
    BY <1>1, <1>4
<1>6. \A j, k \in 1 .. Len(r) : j < k => at(j) < at(k)
  <2> HIDE DEF r
  <2> QED
    BY <1>1, <1>4
<1>7. R[l] = r /\ \A k \in Lists \ {l} : R[k] = Q[k]
  BY <1>1
<1> HIDE DEF r, R, at, t
<1>8. m2.prio = m.prio /\ m2.state = m.state
  BY DEF SplicedOut
<1>9. \A k \in Lists \ {"running", "zombie"} : InOrder(m2.prio, R[k])
  <2>1. l \notin {"running", "zombie"} => InOrder(m2.prio, r)
    <3>1. SUFFICES ASSUME l \notin {"running", "zombie"}, NEW j \in 1 .. Len(r),
                          NEW k \in 1 .. Len(r), j < k
                   PROVE  m2.prio[r[j]] >= m2.prio[r[k]]
      BY DEF InOrder
    <3>2. InOrder(m.prio, Q[l])
      BY <3>1 DEF Linked
    <3>3. /\ at(j) \in 1 .. Len(Q[l]) /\ at(k) \in 1 .. Len(Q[l]) /\ at(j) < at(k)
          /\ r[j] = Q[l][at(j)] /\ r[k] = Q[l][at(k)]
      BY <1>5, <1>6, <3>1
    <3> QED
      BY <1>8, <3>2, <3>3 DEF InOrder
  <2> QED
    BY <1>7, <1>8, <2>1 DEF Linked
<1>10. \A k \in Lists : \A j \in 1 .. Len(R[k]) : m2.state[R[k][j]] = StateIn(k)
  BY <1>5, <1>7, <1>8 DEF Linked
<1>11. ASSUME NEW k \in VmLists, NEW u \in Threads \ {t}, m2.state[u] = StateIn(k)
       PROVE  Has(R[k], u)
  <2>1. Has(Q[k], u) /\ k \in Lists
    BY <1>8, <1>11, ListNames DEF Linked, Has
  <2>2. Without(Q[k], t) = R[k] /\ Q[k] \in Seq(Threads) /\ Once(Q[k])
    BY <1>1, <1>3, <2>1, ListFacts DEF Drop
  <2> QED
    BY <1>1, <2>1, <2>2, WithoutHas
<1>12. Loose(m2, R, t)
  BY <1>2, <1>9, <1>10, <1>11 DEF Loose
<1> QED
  BY <1>3, <1>12 DEF t

\* The sorted insertion keeps a list in order.
LEMMA InsertedInOrder ==
  ASSUME NEW prio, NEW q \in Seq(Threads), NEW t \in Threads, NEW i, Place(prio, q, t, i),
         prio[t] \in Int, \A j \in 1 .. Len(q) : prio[q[j]] \in Int, InOrder(prio, q)
  PROVE  InOrder(prio, Insertion(q, i, t))
<1> DEFINE r == Insertion(q, i, t)
           P(k) == prio[r[k]]
<1>1. i \in 0 .. Len(q) /\ Len(q) \in Nat
  BY SeqFacts DEF Place
<1>2. /\ Len(r) = Len(q) + 1
      /\ \A k \in 1 .. Len(q) + 1 :
           r[k] = IF k <= i THEN q[k] ELSE IF k = i + 1 THEN t ELSE q[k - 1]
  BY <1>1, InsertionIs DEF Insertion
<1> HIDE DEF r
<1>3. ASSUME NEW j \in 1 .. Len(r), NEW k \in 1 .. Len(r), j < k PROVE P(j) >= P(k)
  <2>1. CASE j <= i /\ k <= i
    <3>1. j \in 1 .. Len(q) /\ k \in 1 .. Len(q) /\ r[j] = q[j] /\ r[k] = q[k]
      BY <1>1, <1>2, <2>1
    <3> QED
      BY <1>3, <3>1 DEF InOrder
  <2>2. CASE j <= i /\ k = i + 1
    <3>1. j \in 1 .. i /\ r[j] = q[j] /\ r[k] = t
      BY <1>1, <1>2, <2>2
    <3> QED
      BY <3>1 DEF Place
  <2>3. CASE j <= i /\ k > i + 1
    <3>1. /\ j \in 1 .. Len(q) /\ k - 1 \in 1 .. Len(q) /\ j < k - 1
          /\ r[j] = q[j] /\ r[k] = q[k - 1]
      BY <1>1, <1>2, <2>3
    <3> QED
      BY <3>1 DEF InOrder
  <2>4. CASE j = i + 1
    <3>1. k - 1 \in i + 1 .. Len(q) /\ k - 1 \in 1 .. Len(q) /\ r[j] = t /\ r[k] = q[k - 1]
      BY <1>1, <1>2, <1>3, <2>4
    <3>2. prio[q[k - 1]] < prio[t] /\ prio[q[k - 1]] \in Int
      BY <3>1 DEF Place
    <3> QED
      BY <3>1, <3>2
  <2>5. CASE j > i + 1
    <3>1. /\ j - 1 \in 1 .. Len(q) /\ k - 1 \in 1 .. Len(q) /\ j - 1 < k - 1
          /\ r[j] = q[j - 1] /\ r[k] = q[k - 1]
      BY <1>1, <1>2, <1>3, <2>5
    <3> QED
      BY <3>1 DEF InOrder
  <2>6. (j <= i \/ j = i + 1 \/ j > i + 1) /\ (k <= i \/ k = i + 1 \/ k > i + 1)
    BY <1>1, <1>2
  <2> QED
    BY <2>1, <2>2, <2>3, <2>4, <2>5, <2>6
<1>4. InOrder(prio, r)
  BY <1>3 DEF InOrder
<1> QED
  BY <1>4 DEF r

LEMMA LooseIn ==
  ASSUME NEW m, NEW Q, NEW t \in Threads, Loose(m, Q, t), NEW l \in Lists,
         m.state[t] = StateIn(l), NEW i \in 0 .. Len(Q[l]),
         l \notin {"running", "zombie"} => Place(m.prio, Q[l], t, i),
         NEW m2, SplicedIn(m, m2, l, Q[l], i, t)
  PROVE  Linked(m2, [Q EXCEPT ![l] = Insertion(Q[l], i, t)])
<1> DEFINE q == Q[l]
           r == Insertion(q, i, t)
           R == [Q EXCEPT ![l] = r]
<1>1. /\ Chains(m, Q) /\ Free(Q, t) /\ Q \in [Lists -> Seq(Threads)] /\ q \in Seq(Threads)
      /\ Len(q) \in Nat
  BY ChainFacts DEF Loose, Chains
<1>2. Chains(m2, R)
  BY <1>1, SplicesIn
<1>3. m.prio[t] \in Int /\ \A j \in 1 .. Len(q) : m.prio[q[j]] \in Int
  BY <1>1, PriosAre
<1>4. R[l] = r /\ \A k \in Lists \ {l} : R[k] = Q[k]
  BY <1>1
<1>5. m2.prio = m.prio /\ m2.state = m.state
  BY DEF SplicedIn
<1>6. \A k \in Lists \ {"running", "zombie"} : InOrder(m2.prio, R[k])
  <2>1. l \notin {"running", "zombie"} => InOrder(m2.prio, r)
    <3>1. SUFFICES ASSUME l \notin {"running", "zombie"} PROVE InOrder(m.prio, r)
      BY <1>5
    <3>2. InOrder(m.prio, q) /\ Place(m.prio, q, t, i)
      BY <3>1 DEF Loose
    <3> HIDE DEF q
    <3> QED
      BY <1>1, <1>3, <3>2, InsertedInOrder
  <2> HIDE DEF r, R
  <2> QED
    BY <1>4, <1>5, <2>1 DEF Loose
<1>7. \A u : Has(r, u) <=> Has(q, u) \/ u = t
  <2>1. r = Append(Fore(q, i), t) \o Rear(q, i) /\ q = Fore(q, i) \o Rear(q, i)
    BY <1>1, InsertionSplit, PartsAre
  <2>2. Fore(q, i) \in Seq(Threads) /\ Rear(q, i) \in Seq(Threads)
    BY <1>1, PartsAre
  <2> DEFINE a == Fore(q, i)
             b == Rear(q, i)
  <2>3. Append(a, t) \in Seq(Threads)
    BY <2>2, AppendIs
  <2> HIDE DEF a, b, r, q
  <2>4. ASSUME NEW u PROVE Has(r, u) <=> Has(q, u) \/ u = t
    <3>1. Has(Append(a, t) \o b, u) <=> Has(Append(a, t), u) \/ Has(b, u)
      BY <2>2, <2>3, HasConcat DEF a, b
    <3>2. Has(a \o b, u) <=> Has(a, u) \/ Has(b, u)
      BY <2>2, HasConcat DEF a, b
    <3>3. Has(Append(a, t), u) <=> Has(a, u) \/ u = t
      BY <2>2, HasAppend DEF a, b
    <3>4. r = Append(a, t) \o b /\ q = a \o b
      BY <2>1 DEF a, b
    <3> QED
      BY <3>1, <3>2, <3>3, <3>4
  <2> QED
    BY <2>4
<1> HIDE DEF r, R
<1>8. ASSUME NEW k \in Lists, NEW j \in 1 .. Len(R[k]) PROVE m2.state[R[k][j]] = StateIn(k)
  <2>1. CASE k = l
    <3>1. Has(r, R[k][j])
      BY <1>4, <2>1 DEF Has
    <3>2. R[k][j] = t \/ \E n \in 1 .. Len(q) : q[n] = R[k][j]
      BY <1>7, <3>1 DEF Has
    <3> QED
      BY <1>5, <2>1, <3>2 DEF Loose
  <2>2. CASE k # l
    BY <1>4, <1>5, <2>2 DEF Loose
  <2> QED
    BY <2>1, <2>2
<1>9. ASSUME NEW k \in VmLists, NEW u \in Threads, m2.state[u] = StateIn(k)
      PROVE  Has(R[k], u)
  <2>1. k \in Lists
    BY ListNames
  <2>2. CASE u = t
    <3>1. k = l
      BY <1>5, <1>9, <2>2, ConstantsAssumption DEF StateIn, VmLists, Lists
    <3> QED
      BY <1>4, <1>7, <2>2, <3>1
  <2>3. CASE u # t
    <3>1. Has(Q[k], u)
      BY <1>5, <1>9, <2>3 DEF Loose
    <3> QED
      BY <1>4, <1>7, <2>1, <3>1
  <2> QED
    BY <2>2, <2>3
<1>10. Linked(m2, R)
  BY <1>2, <1>6, <1>8, <1>9 DEF Linked, Has
<1> QED
  BY <1>10 DEF R, r, q

LEMMA InsertionLast ==
  ASSUME NEW q \in Seq(Threads), NEW t \in Threads
  PROVE  Insertion(q, Len(q), t) = Append(q, t)
<1> DEFINE n == Len(q)
           r == Insertion(q, n, t)
<1>1. n \in 0 .. Len(q) /\ n \in Nat /\ n = Len(q)
  BY SeqFacts
<1>2. \A k \in 1 .. n + 1 : r[k] = IF k <= n THEN q[k] ELSE IF k = n + 1 THEN t ELSE q[k - 1]
  BY <1>1 DEF Insertion
<1> HIDE DEF n
<1>3. r \in Seq(Threads) /\ Len(r) = Len(q) + 1
  <2>1. \A i \in 0 .. Len(q) : /\ Insertion(q, i, t) \in Seq(Threads)
                                /\ Len(Insertion(q, i, t)) = Len(q) + 1
    BY InsertionIs
  <2> QED
    BY <1>1, <2>1
<1>4. /\ Append(q, t) \in Seq(Threads) /\ Len(Append(q, t)) = Len(q) + 1
      /\ \A k \in 1 .. Len(q) : Append(q, t)[k] = q[k]
      /\ Append(q, t)[Len(q) + 1] = t
  BY AppendIs
<1> HIDE DEF r
<1>5. ASSUME NEW k \in 1 .. n + 1 PROVE r[k] = Append(q, t)[k]
  <2>1. (k \in 1 .. n /\ k <= n) \/ (k = n + 1 /\ ~(k <= n))
    BY <1>1
  <2> QED
    BY <1>1, <1>2, <1>4, <2>1
<1>6. r = Append(q, t)
  BY <1>1, <1>3, <1>4, <1>5, SameSeq
<1> QED
  BY <1>6 DEF r, n

\* What thread_set_state does: t leaves its list for the one of state s.
Moved(m, Q, m2, Q2, t, s) ==
  /\ Linked(m2, Q2) /\ m2.prio = m.prio /\ m2.state = [m.state EXCEPT ![t] = s]
  /\ Q2["running"] = IF s = "Running" THEN Append(Without(Q["running"], t), t)
                     ELSE Without(Q["running"], t)
  /\ \A p : OfPrio(m.prio, Q2["ready"], p) =
              IF s = "Ready" /\ m.prio[t] = p
              THEN Append(Without(OfPrio(m.prio, Q["ready"], p), t), t)
              ELSE Without(OfPrio(m.prio, Q["ready"], p), t)
  /\ \A x \in Locks : Q2[x] = Q[x]

\* t is ready or runs, or is in no list.
Movable(m, Q, t) ==
  m.state[t] \in {"Ready", "Running"} \/ (Free(Q, t) /\ m.state[t] \notin {"Ready", "Running"})

LEMMA SetStateIs ==
  ASSUME NEW m, NEW Q, Linked(m, Q), NEW t \in Threads, Movable(m, Q, t),
         NEW s \in {"Zombie", "Ready", "Running", "Blocked"}
  PROVE  \E Q2 : Moved(m, Q, SetState(m, t, s), Q2, t, s)
<1> DEFINE out == IF m.state[t] = "Ready" THEN RemoveNode(m, "ready", t)
                  ELSE IF m.state[t] = "Running" THEN RemoveNode(m, "running", t) ELSE m
           new == [out EXCEPT !.state[t] = s]
           D == Drop(Q, t)
<1>1. /\ SetState(m, t, s) = CASE s = "Zombie"  -> InsertTail(new, "zombie", t)
                               [] s = "Ready"   -> InsertSorted(new, "ready", t)
                               [] s = "Running" -> InsertTail(new, "running", t)
                               [] OTHER -> new
  BY DEF SetState
<1>2. /\ Chains(m, Q) /\ m \in Memory /\ Q \in [Lists -> Seq(Threads)]
      /\ \A l \in Lists : Q[l] \in Seq(Threads) /\ Once(Q[l])
      /\ {"ready", "running", "zombie"} \subseteq Lists
  BY ListFacts, ListNames DEF Linked, Chains, VmLists
<1>3. Loose(out, D, t) /\ out.prio = m.prio /\ out.state = m.state
  <2>1. CASE m.state[t] \in {"Ready", "Running"}
    <3> DEFINE l == IF m.state[t] = "Ready" THEN "ready" ELSE "running"
    <3>1. out = RemoveNode(m, l, t) /\ l \in VmLists /\ l \in Lists /\ m.state[t] = StateIn(l)
      BY <1>2, <2>1, ListNames DEF VmLists
    <3>2. PICK i \in 1 .. Len(Q[l]) : Q[l][i] = t
      BY <3>1 DEF Linked
    <3>3. SplicedOut(m, out, l, Q[l], i)
      BY <1>2, <3>1, <3>2, RemoveNodeIs
    <3> HIDE DEF l, out, D
    <3>4. Loose(out, D, t)
      BY <3>1, <3>2, <3>3, LooseOut DEF D
    <3> QED
      BY <3>3, <3>4 DEF SplicedOut
  <2>2. CASE m.state[t] \notin {"Ready", "Running"}
    <3>1. out = m /\ Free(Q, t)
      BY <2>2 DEF Movable
    <3> HIDE DEF out, D
    <3> QED
      BY <1>2, <3>1, LooseFrom, DroppedNone DEF D
  <2> QED
    BY <2>1, <2>2
<1> HIDE DEF out
<1>4. out \in Memory /\ s \in States
  BY <1>3 DEF Loose, Chains, States
<1>5. /\ OnlyAt(out, new, t) /\ new.prio = m.prio /\ new.state = [m.state EXCEPT ![t] = s]
      /\ new.state[t] = s
  <2>1. new \in Memory
    BY <1>4 DEF Memory
  <2> QED
    BY <1>3, <1>4, <2>1 DEF OnlyAt, Memory
<1> HIDE DEF new, D
<1>6. Loose(new, D, t)
  BY <1>3, <1>5, LooseKept
<1>7. Chains(new, D) /\ Free(D, t) /\ D["ready"] \in Seq(Threads) /\ D \in [Lists -> Seq(Threads)]
  BY <1>2, <1>6 DEF Loose, Chains
<1>8. /\ D["running"] = Without(Q["running"], t) /\ D["running"] \in Seq(Threads)
      /\ \A p : OfPrio(m.prio, D["ready"], p) = Without(OfPrio(m.prio, Q["ready"], p), t)
  BY <1>2, <1>7, OfPrioWithout DEF D, Drop
<1>9. \A x \in Locks : D[x] = Q[x]
  <2>1. ASSUME NEW x \in Locks PROVE ~Has(Q[x], t)
    <3>1. Has(Q[x], t) => m.state[t] = "Blocked"
      BY ListNames DEF Has, Linked
    <3> QED
      BY <3>1, ListNames DEF Movable, Free, Has
  <2> QED
    BY <2>1, ListNames DEF D, Drop, Without
<1>10. CASE s = "Zombie"
  <2> DEFINE q == D["zombie"]
             m2 == InsertTail(new, "zombie", t)
             R == [D EXCEPT !["zombie"] = Insertion(q, Len(q), t)]
  <2>1. SplicedIn(new, m2, "zombie", q, Len(q), t) /\ Len(q) \in 0 .. Len(q)
    BY <1>2, <1>7, InsertTailIs, ChainFacts
  <2>2. Linked(m2, R)
    BY <1>2, <1>5, <1>6, <1>10, <2>1, LooseIn, ListNames
  <2>3. R["running"] = D["running"] /\ R["ready"] = D["ready"] /\ \A x \in Locks : R[x] = D[x]
    BY <1>7, ListNames, ConstantsAssumption DEF VmLists
  <2>4. m2.prio = m.prio /\ m2.state = [m.state EXCEPT ![t] = s]
    BY <1>5, <2>1 DEF SplicedIn
  <2> HIDE DEF m2, R
  <2>5. Moved(m, Q, m2, R, t, s)
    BY <1>8, <1>9, <1>10, <2>2, <2>3, <2>4 DEF Moved
  <2> QED
    BY <1>1, <1>10, <2>5 DEF m2
<1>11. CASE s = "Running"
  <2> DEFINE q == D["running"]
             m2 == InsertTail(new, "running", t)
             R == [D EXCEPT !["running"] = Insertion(q, Len(q), t)]
  <2>1. SplicedIn(new, m2, "running", q, Len(q), t) /\ Len(q) \in 0 .. Len(q)
    BY <1>2, <1>7, InsertTailIs, ChainFacts
  <2>2. Linked(m2, R)
    BY <1>2, <1>5, <1>6, <1>11, <2>1, LooseIn, ListNames
  <2>3. /\ R["running"] = Append(q, t) /\ R["ready"] = D["ready"] /\ \A x \in Locks : R[x] = D[x]
    BY <1>2, <1>7, <1>8, ListNames, InsertionLast DEF VmLists
  <2>4. m2.prio = m.prio /\ m2.state = [m.state EXCEPT ![t] = s]
    BY <1>5, <2>1 DEF SplicedIn
  <2> HIDE DEF m2, R
  <2>5. Moved(m, Q, m2, R, t, s)
    BY <1>8, <1>9, <1>11, <2>2, <2>3, <2>4 DEF Moved
  <2> QED
    BY <1>1, <1>11, <2>5 DEF m2
<1>12. CASE s = "Ready"
  <2> DEFINE q == D["ready"]
             m2 == InsertSorted(new, "ready", t)
             i == PlaceOf(new.prio, q, t)
             R == [D EXCEPT !["ready"] = Insertion(q, i, t)]
  <2>1. InOrder(new.prio, q)
    BY <1>2, <1>6 DEF Loose
  <2>2. Place(new.prio, q, t, i) /\ SplicedIn(new, m2, "ready", q, i, t)
    BY <1>2, <1>7, <2>1, InsertSortedIs
  <2>3. i \in 0 .. Len(q)
    BY <2>2 DEF Place
  <2>4. Linked(m2, R)
    BY <1>2, <1>5, <1>6, <1>12, <2>2, <2>3, LooseIn, ListNames
  <2>5. /\ R["running"] = D["running"] /\ R["ready"] = Insertion(q, i, t)
        /\ \A x \in Locks : R[x] = D[x]
    BY <1>2, <1>7, ListNames DEF VmLists
  <2>6. m.prio[t] \in Int /\ new.prio[t] \in Int
    BY <1>2, <1>5, PriosAre
  <2> HIDE DEF i
  <2>7. \A p : OfPrio(m.prio, R["ready"], p) =
                 IF m.prio[t] = p THEN Append(OfPrio(m.prio, q, p), t) ELSE OfPrio(m.prio, q, p)
    <3>1. Place(m.prio, q, t, i) /\ m.prio[t] \in Int /\ q \in Seq(Threads)
      BY <1>5, <1>7, <2>2, <2>6
    <3> HIDE DEF q
    <3>2. Gains(m.prio, Insertion(q, i, t), q, t)
      BY <3>1, OfPrioInserted
    <3> QED
      BY <2>5, <3>2 DEF Gains
  <2>8. m2.prio = m.prio /\ m2.state = [m.state EXCEPT ![t] = s]
    BY <1>5, <2>2 DEF SplicedIn
  <2> HIDE DEF m2, R
  <2>9. Moved(m, Q, m2, R, t, s)
    BY <1>8, <1>9, <1>12, <2>4, <2>5, <2>7, <2>8 DEF Moved
  <2> QED
    BY <1>1, <1>12, <2>9 DEF m2
<1>13. CASE s = "Blocked"
  <2>1. Linked(new, D)
    BY <1>5, <1>6, <1>13, LooseOff
  <2>2. Moved(m, Q, new, D, t, s)
    BY <1>5, <1>8, <1>9, <1>13, <2>1 DEF Moved
  <2> QED
    BY <1>1, <1>13, <2>2
<1> QED
  BY <1>10, <1>11, <1>12, <1>13

-----------------------------------------------------------------------------
(* Waiting and waking up.                                                    *)

LEMMA NotIn ==
  ASSUME NEW m, NEW Q, Linked(m, Q), NEW l \in Lists, NEW t, m.state[t] # StateIn(l)
  PROVE  ~Has(Q[l], t)
BY DEF Linked, Has

LEMMA FreeIs ==
  ASSUME NEW m, NEW Q, Linked(m, Q), NEW t, m.state[t] \notin {"Ready", "Running", "Zombie"},
         \A x \in Locks : ~Has(Q[x], t)
  PROVE  Free(Q, t)
<1>1. ASSUME NEW l \in Lists PROVE ~Has(Q[l], t)
  <2>1. l \in Locks \/ StateIn(l) \in {"Ready", "Running", "Zombie"}
    BY ListNames DEF VmLists
  <2> QED
    BY <2>1, NotIn
<1> QED
  BY <1>1 DEF Free, Has

\* A running thread joins the waiting list of l.
Waits(m, Q, m2, Q2, t, l) ==
  /\ Linked(m2, Q2) /\ m2.prio = m.prio /\ m2.state = [m.state EXCEPT ![t] = "Blocked"]
  /\ Q2["running"] = Without(Q["running"], t)
  /\ \A p : OfPrio(m.prio, Q2["ready"], p) = OfPrio(m.prio, Q["ready"], p)
  /\ \A x \in Locks \ {l} : Q2[x] = Q[x]
  /\ Gains(m.prio, Q2[l], Q[l], t)

LEMMA WaitsIs ==
  ASSUME NEW m, NEW Q, Linked(m, Q), NEW t \in Threads, m.state[t] = "Running",
         NEW l \in Locks
  PROVE  \E Q2 : Waits(m, Q, InsertSorted(SetState(m, t, "Blocked"), l, t), Q2, t, l)
<1> DEFINE m1 == SetState(m, t, "Blocked")
<1>1. PICK Q1 : Moved(m, Q, m1, Q1, t, "Blocked")
  BY SetStateIs DEF Movable
<1> HIDE DEF m1
<1>2. /\ Linked(m1, Q1) /\ m1.prio = m.prio /\ m1.state = [m.state EXCEPT ![t] = "Blocked"]
      /\ Q1["running"] = Without(Q["running"], t)
      /\ \A x \in Locks : Q1[x] = Q[x]
      /\ m.state \in [Threads -> States] /\ m1.state[t] = "Blocked"
  BY <1>1, MemoryFields DEF Moved, Linked, Chains
<1>3. \A x \in Lists \ {"running"} : ~Has(Q[x], t)
  <2>1. \A x \in Lists \ {"running"} : m.state[t] # StateIn(x)
    BY ListNames DEF VmLists
  <2> QED
    BY <2>1, NotIn
<1>4. Free(Q1, t)
  BY <1>2, <1>3, FreeIs, ListNames DEF VmLists
<1>5. Loose(m1, Q1, t) /\ Chains(m1, Q1) /\ Chains(m, Q)
  BY <1>2, <1>4, LooseFrom DEF Linked
<1>6. l \in Lists /\ l \notin {"running", "zombie", "ready"} /\ StateIn(l) = "Blocked"
  BY ListNames DEF VmLists
<1> DEFINE q == Q1[l]
           i == PlaceOf(m1.prio, q, t)
           m2 == InsertSorted(m1, l, t)
           R == [Q1 EXCEPT ![l] = Insertion(q, i, t)]
<1>7. InOrder(m1.prio, q)
  BY <1>2, <1>6 DEF Linked
<1>8. Place(m1.prio, q, t, i) /\ SplicedIn(m1, m2, l, q, i, t)
  BY <1>4, <1>5, <1>6, <1>7, InsertSortedIs
<1>9. i \in 0 .. Len(q)
  BY <1>8 DEF Place
<1>10. Linked(m2, R)
  BY <1>2, <1>5, <1>6, <1>8, <1>9, LooseIn
<1>11. Q1 \in [Lists -> Seq(Threads)] /\ q \in Seq(Threads)
  BY <1>5, <1>6 DEF Chains
<1>12. /\ R["running"] = Q1["running"] /\ R["ready"] = Q1["ready"]
       /\ R[l] = Insertion(q, i, t) /\ \A x \in Locks \ {l} : R[x] = Q1[x]
  BY <1>6, <1>11, ListNames DEF VmLists
<1>13. m2.prio = m.prio /\ m2.state = [m.state EXCEPT ![t] = "Blocked"]
  BY <1>2, <1>8 DEF SplicedIn
<1>14. m.prio[t] \in Int
  BY <1>5, <1>6, PriosAre
<1>15. Gains(m.prio, R[l], Q[l], t)
  <2>1. Place(m.prio, q, t, i) /\ q \in Seq(Threads) /\ q = Q[l]
    BY <1>2, <1>8, <1>11
  <2> HIDE DEF q, i
  <2>2. Gains(m.prio, Insertion(q, i, t), q, t)
    BY <1>14, <2>1, OfPrioInserted
  <2> QED
    BY <1>12, <2>1, <2>2
<1>16. ASSUME NEW p
       PROVE  OfPrio(m.prio, R["ready"], p) = OfPrio(m.prio, Q["ready"], p)
  <2>1. OfPrio(m.prio, Q1["ready"], p) = Without(OfPrio(m.prio, Q["ready"], p), t)
    BY <1>1 DEF Moved
  <2>2. ~Has(Q["ready"], t) /\ Q["ready"] \in Seq(Threads)
    BY <1>3, <1>5, ListNames, ListFacts DEF VmLists
  <2>3. ~Has(OfPrio(m.prio, Q["ready"], p), t)
    BY <2>2, OfPrioHas
  <2> QED
    BY <1>12, <2>1, <2>3 DEF Without
<1> HIDE DEF m2, R
<1>17. Waits(m, Q, m2, R, t, l)
  BY <1>2, <1>10, <1>12, <1>13, <1>15, <1>16 DEF Waits
<1> QED
  BY <1>17 DEF m2, m1

\* The first thread that waits for l is ready.
\* Thread h, the first that waited for l, is ready in m2.
Woke(m, Q, m2, Q2, l, h) ==
  /\ Linked(m2, Q2) /\ m2.prio = m.prio /\ m2.state = [m.state EXCEPT ![h] = "Ready"]
  /\ Q2["running"] = Q["running"] /\ Gains(m.prio, Q2["ready"], Q["ready"], h)
  /\ \A x \in Locks \ {l} : Q2[x] = Q[x]
  /\ Q2[l] = Without(Q[l], h) /\ Q2[l] = Deletion(Q[l], 1)

LEMMA WakeOneIs ==
  ASSUME NEW m, NEW Q, Linked(m, Q), NEW l \in Locks, Len(Q[l]) > 0
  PROVE  \E Q2 : Woke(m, Q, WakeOne(m, l), Q2, l, Q[l][1])
<1> DEFINE h == Q[l][1]
           m1 == Pop(m, l)
           m2 == WakeOne(m, l)
           D == Drop(Q, h)
<1>1. l \in Lists /\ Chains(m, Q) /\ Len(Q[l]) \in Nat /\ 1 \in 1 .. Len(Q[l])
  <2>1. l \in Lists /\ Chains(m, Q)
    BY ListNames DEF Linked
  <2>2. Len(Q[l]) \in Nat
    BY <2>1, ChainFacts
  <2> QED
    BY <2>1, <2>2
<1>2. h \in Threads /\ m.head[l] = h /\ h # NULL
  BY <1>1, EndsAre
<1>3. m2 = SetState(m1, h, "Ready")
  BY <1>2 DEF WakeOne
<1>4. SplicedOut(m, m1, l, Q[l], 1)
  BY <1>1, PopIs
<1>5. Loose(m1, D, h)
  BY <1>1, <1>4, LooseOut
<1>6. m1.state = m.state /\ m1.prio = m.prio /\ m.state[h] = "Blocked"
  BY <1>1, <1>4, ListNames DEF SplicedOut, Linked
<1> HIDE DEF m1, m2
<1>7. Linked(m1, D) /\ Free(D, h) /\ Movable(m1, D, h)
  BY <1>5, <1>6, LooseOff DEF Movable, Loose
<1>8. PICK Q2 : Moved(m1, D, m2, Q2, h, "Ready")
  BY <1>2, <1>3, <1>7, SetStateIs
<1>9. \A x \in Lists \ {l} : ~Has(Q[x], h)
  BY <1>1 DEF Chains, Has
<1>10. \A x \in Lists : D[x] = Without(Q[x], h)
  BY DEF D, Drop
<1> HIDE DEF D
<1>11. (\A x \in Lists \ {l} : D[x] = Q[x]) /\ D[l] = Deletion(Q[l], 1)
  <2>1. \A x \in Lists \ {l} : D[x] = Q[x]
    BY <1>9, <1>10 DEF Without
  <2>2. Without(Q[l], Q[l][1]) = Deletion(Q[l], 1)
    BY <1>1, ListFacts, WithoutIs
  <2> QED
    BY <1>1, <1>10, <2>1, <2>2
<1>12. "running" \in Lists \ {l} /\ "ready" \in Lists \ {l} /\ Locks \subseteq Lists
  BY ListNames DEF VmLists
<1>13. ASSUME NEW x \in {"running", "ready"} PROVE Without(D[x], h) = Q[x] /\ ~Has(Q[x], h)
  <2>1. D[x] = Q[x] /\ ~Has(Q[x], h)
    BY <1>9, <1>11, <1>12
  <2> QED
    BY <2>1 DEF Without
<1>14. Q["ready"] \in Seq(Threads)
  BY <1>1, <1>12, ListFacts
<1>15. \A p : Without(OfPrio(m.prio, D["ready"], p), h) = OfPrio(m.prio, Q["ready"], p)
  <2>1. ASSUME NEW p PROVE ~Has(OfPrio(m.prio, Q["ready"], p), h)
    BY <1>13, <1>14, OfPrioHas
  <2>2. D["ready"] = Q["ready"]
    BY <1>11, <1>12
  <2> QED
    BY <2>1, <2>2 DEF Without
<1>16. /\ Linked(m2, Q2) /\ m2.prio = m.prio /\ m2.state = [m.state EXCEPT ![h] = "Ready"]
       /\ Q2["running"] = Q["running"]
  BY <1>6, <1>8, <1>13 DEF Moved
<1>17. Gains(m.prio, Q2["ready"], Q["ready"], h)
  BY <1>6, <1>8, <1>15 DEF Moved, Gains
<1>18. \A x \in Locks : Q2[x] = D[x]
  BY <1>8 DEF Moved
<1>19. /\ \A x \in Locks \ {l} : Q2[x] = Q[x]
       /\ Q2[l] = Without(Q[l], h) /\ Q2[l] = Deletion(Q[l], 1)
  BY <1>10, <1>11, <1>12, <1>18
<1> QED
  BY <1>16, <1>17, <1>19 DEF h, m2, Woke

LEMMA ConcatAssoc ==
  \A q, r, s \in Seq(Threads) : (q \o r) \o s = q \o (r \o s)
<1> SUFFICES ASSUME NEW q \in Seq(Threads), NEW r \in Seq(Threads), NEW s \in Seq(Threads)
             PROVE  (q \o r) \o s = q \o (r \o s)
  OBVIOUS
<1> DEFINE a == q \o r
           b == r \o s
           c == a \o s
           n == Len(q)
           m == Len(r) + Len(s)
<1>1. /\ Len(q) \in Nat /\ Len(r) \in Nat /\ Len(s) \in Nat
      /\ a \in Seq(Threads) /\ Len(a) = Len(q) + Len(r)
      /\ \A k \in 1 .. Len(q) : a[k] = q[k]
      /\ \A k \in 1 .. Len(r) : a[Len(q) + k] = r[k]
  BY SeqFacts, ConcatIs
<1>2. /\ b \in Seq(Threads) /\ Len(b) = m
      /\ \A k \in 1 .. Len(r) : b[k] = r[k]
      /\ \A k \in 1 .. Len(s) : b[Len(r) + k] = s[k]
  BY SeqFacts, ConcatIs
<1> HIDE DEF a, b
<1>3. /\ c \in Seq(Threads) /\ Len(c) = Len(a) + Len(s)
      /\ \A k \in 1 .. Len(a) : c[k] = a[k]
      /\ \A k \in 1 .. Len(s) : c[Len(a) + k] = s[k]
  BY <1>1, ConcatIs
<1> HIDE DEF c
<1>4. \A k \in 1 .. n : c[k] = q[k]
  <2>1. \A k \in 1 .. n : k \in 1 .. Len(a)
    BY <1>1
  <2> QED
    BY <1>1, <1>3, <2>1
<1>5. ASSUME NEW k \in 1 .. m PROVE c[n + k] = b[k]
  <2>1. CASE k <= Len(r)
    <3>1. k \in 1 .. Len(r) /\ n + k \in 1 .. Len(a)
      BY <1>1, <2>1
    <3> QED
      BY <1>1, <1>2, <1>3, <3>1
  <2>2. CASE k > Len(r)
    <3>1. PICK j \in 1 .. Len(s) : k = Len(r) + j
      <4>1. k - Len(r) \in 1 .. Len(s) /\ k = Len(r) + (k - Len(r))
        BY <1>1, <2>2
      <4> QED
        BY <4>1
    <3>2. n + k = Len(a) + j
      BY <1>1, <3>1
    <3> QED
      BY <1>2, <1>3, <3>1, <3>2
  <2> QED
    BY <1>1, <2>1, <2>2
<1>6. Len(c) = n + m /\ Len(q) = n
  BY <1>1, <1>3
<1> HIDE DEF n, m
<1>7. Joins(c, q, n, b, m)
  BY <1>2, <1>3, <1>4, <1>5, <1>6 DEF Joins
<1>8. c = q \o b
  BY <1>7, IsConcat
<1> QED
  BY <1>8 DEF a, b, c

\* The first thread of q may as well be behind the threads before q.
LEMMA FirstOut ==
  ASSUME NEW prio, NEW q \in Seq(Threads), Len(q) > 0, NEW r \in Seq(Threads), NEW p
  PROVE  r \o OfPrio(prio, q, p) =
           (IF prio[q[1]] = p THEN Append(r, q[1]) ELSE r) \o OfPrio(prio, Deletion(q, 1), p)
<1> DEFINE h == q[1]
           a == Fore(q, 0)
           b == Rear(q, 1)
           e == Append(a, h)
           x == OfPrio(prio, b, p)
<1>1. /\ 1 \in 1 .. Len(q) /\ 0 \in 0 .. Len(q) /\ 1 \in 0 .. Len(q) /\ h \in Threads
      /\ 1 - 1 = 0
  <2>1. Len(q) \in Nat /\ \A k \in 1 .. Len(q) : q[k] \in Threads
    BY SeqFacts
  <2>2. 1 \in 1 .. Len(q) /\ 0 \in 0 .. Len(q) /\ 1 \in 0 .. Len(q)
    BY <2>1
  <2> QED
    BY <2>1, <2>2
<1>2. /\ q = Append(Fore(q, 1 - 1), q[1]) \o Rear(q, 1)
      /\ Deletion(q, 1) = Fore(q, 1 - 1) \o Rear(q, 1)
  BY <1>1, DeletionSplit
<1>3. q = e \o b /\ Deletion(q, 1) = a \o b
  BY <1>1, <1>2
<1>4. a \in Seq(Threads) /\ b \in Seq(Threads) /\ Len(a) = 0
  BY <1>1, PartsAre
<1>5. a = <<>> /\ e \in Seq(Threads)
  BY <1>1, <1>4, AppendIs
<1> HIDE DEF a, b, e, h
<1>6. Deletion(q, 1) = b
  BY <1>3, <1>4, <1>5
<1>7. x \in Seq(Threads) /\ OfPrio(prio, q, p) = OfPrio(prio, e, p) \o x
  BY <1>3, <1>4, <1>5, FiltersAre, OfPrioConcat
<1>8. OfPrio(prio, e, p) = IF prio[h] = p THEN Append(OfPrio(prio, a, p), h) ELSE OfPrio(prio, a, p)
  <2>1. a \in Seq(Threads) /\ h \in Threads
    BY <1>1, <1>4
  <2> QED
    BY <2>1, OfPrioAppend DEF e
<1>9. OfPrio(prio, a, p) = <<>>
  BY <1>5, OfPrioEmpty
<1> HIDE DEF x
<1>10. CASE prio[h] = p
  <2>1. OfPrio(prio, e, p) = e
    BY <1>5, <1>8, <1>9, <1>10 DEF e
  <2>2. r \o e = Append(r, h)
    <3>1. r \o Append(a, h) = Append(r \o a, h)
      BY <1>1, <1>4, ConcatAppend
    <3>2. r \o a = r
      BY <1>5
    <3> QED
      BY <3>1, <3>2 DEF e
  <2>3. (r \o e) \o x = r \o (e \o x)
    BY <1>5, <1>7, ConcatAssoc
  <2>4. r \o OfPrio(prio, q, p) = Append(r, h) \o x
    BY <1>7, <2>1, <2>2, <2>3
  <2> QED
    BY <1>6, <1>10, <2>4 DEF x, h
<1>11. CASE prio[h] # p
  <2>1. OfPrio(prio, q, p) = x
    BY <1>7, <1>8, <1>9, <1>11
  <2> QED
    BY <1>6, <1>11, <2>1 DEF x, h
<1> QED
  BY <1>10, <1>11

\* Some of the threads that waited for l in m are ready in m2, behind the ones
\* that were, and the others still wait.
Woken(m, Q, m2, Q2, l) ==
  /\ Linked(m2, Q2) /\ m2.prio = m.prio /\ Q2["running"] = Q["running"]
  /\ \A x \in Locks \ {l} : Q2[x] = Q[x]
  /\ \A p : OfPrio(m.prio, Q2["ready"], p) \o OfPrio(m.prio, Q2[l], p) =
              OfPrio(m.prio, Q["ready"], p) \o OfPrio(m.prio, Q[l], p)
  /\ \A u \in Threads : \/ m2.state[u] = m.state[u]
                        \/ Has(Q[l], u) /\ m.state[u] = "Blocked" /\ m2.state[u] = "Ready"
  /\ \A u : Has(Q2[l], u) => Has(Q[l], u)

LEMMA WokenStep ==
  ASSUME NEW m, NEW Q, Linked(m, Q), NEW l \in Locks, NEW m1, NEW Q1, Woken(m, Q, m1, Q1, l)
  PROVE  \E Q2 : /\ Woken(m, Q, WakeOne(m1, l), Q2, l)
                 /\ Len(Q2[l]) = IF Len(Q1[l]) = 0 THEN 0 ELSE Len(Q1[l]) - 1
<1>1. l \in Lists /\ Linked(m1, Q1) /\ Chains(m1, Q1) /\ Len(Q1[l]) \in Nat /\ m1.prio = m.prio
  BY ListNames, ChainFacts DEF Woken, Linked
<1>2. CASE Len(Q1[l]) = 0
  <2>1. WakeOne(m1, l) = m1
    BY <1>1, <1>2, EndsAre DEF WakeOne
  <2> QED
    BY <1>2, <2>1
<1>3. CASE Len(Q1[l]) # 0
  <2> DEFINE h == Q1[l][1]
             m2 == WakeOne(m1, l)
  <2>1. Len(Q1[l]) > 0 /\ 1 \in 1 .. Len(Q1[l])
    BY <1>1, <1>3
  <2>2. PICK Q2 : Woke(m1, Q1, m2, Q2, l, h)
    BY <1>1, <2>1, WakeOneIs
  <2>3. /\ h \in Threads /\ Has(Q1[l], h) /\ Has(Q[l], h)
        /\ Q1[l] \in Seq(Threads) /\ Once(Q1[l]) /\ Q1["ready"] \in Seq(Threads)
        /\ m1.state \in [Threads -> States]
    <3>1. Has(Q1[l], h)
      BY <2>1 DEF Has
    <3>2. h \in Threads /\ "ready" \in Lists
      BY <1>1, <2>1, ChainFacts, ListNames DEF VmLists
    <3> QED
      BY <1>1, <3>1, <3>2, ListFacts, MemoryFields DEF Woken, Chains
  <2>4. m.state[h] = "Blocked"
    BY <1>1, <2>3, ListNames DEF Linked, Has
  <2> HIDE DEF m2
  <2>5. \A u \in Threads : \/ m2.state[u] = m.state[u]
                           \/ Has(Q[l], u) /\ m.state[u] = "Blocked" /\ m2.state[u] = "Ready"
    BY <2>2, <2>3, <2>4 DEF Woken, Woke
  <2>6. \A u : Has(Q2[l], u) => Has(Q[l], u)
    <3>1. \A u : Has(Without(Q1[l], h), u) <=> Has(Q1[l], u) /\ u # h
      BY <2>3, WithoutHas
    <3>2. Q2[l] = Without(Q1[l], h)
      BY <2>2 DEF Woke
    <3>3. ASSUME NEW u, Has(Q1[l], u) PROVE Has(Q[l], u)
      BY <3>3 DEF Woken
    <3> HIDE DEF h
    <3> QED
      BY <3>1, <3>2, <3>3
  <2>7. ASSUME NEW p
        PROVE  OfPrio(m.prio, Q2["ready"], p) \o OfPrio(m.prio, Q2[l], p) =
                 OfPrio(m.prio, Q["ready"], p) \o OfPrio(m.prio, Q[l], p)
    <3> DEFINE r == OfPrio(m.prio, Q1["ready"], p)
    <3>1. r \in Seq(Threads)
      BY <2>3, FiltersAre
    <3>2. r \o OfPrio(m.prio, Q1[l], p) = OfPrio(m.prio, Q["ready"], p) \o OfPrio(m.prio, Q[l], p)
      BY DEF Woken
    <3>3. OfPrio(m.prio, Q2["ready"], p) = IF m.prio[h] = p THEN Append(r, h) ELSE r
      BY <1>1, <2>2 DEF Gains, Woke
    <3> HIDE DEF r
    <3>4. r \o OfPrio(m.prio, Q1[l], p) =
            (IF m.prio[h] = p THEN Append(r, h) ELSE r) \o OfPrio(m.prio, Deletion(Q1[l], 1), p)
      <4>1. Q1[l] \in Seq(Threads) /\ Len(Q1[l]) > 0 /\ h = Q1[l][1]
        BY <2>1, <2>3
      <4> HIDE DEF h
      <4>2. r \o OfPrio(m.prio, Q1[l], p) =
              (IF m.prio[Q1[l][1]] = p THEN Append(r, Q1[l][1]) ELSE r)
                \o OfPrio(m.prio, Deletion(Q1[l], 1), p)
        BY <3>1, <4>1, FirstOut
      <4> QED
        BY <4>1, <4>2
    <3> QED
      BY <2>2, <3>2, <3>3, <3>4 DEF Woke
  <2>8. Len(Q2[l]) = Len(Q1[l]) - 1
    BY <2>1, <2>2, <2>3, DeletionIs DEF Woke
  <2>9. Woken(m, Q, m2, Q2, l)
    BY <1>1, <2>2, <2>5, <2>6, <2>7 DEF Woken, Woke
  <2> QED
    BY <1>3, <2>8, <2>9 DEF m2
<1> QED
  BY <1>2, <1>3

\* mutex_unlock wakes all the threads that wait for l, in their order.
LEMMA WakeAllIs ==
  ASSUME NEW m, NEW Q, Linked(m, Q), NEW l \in Locks
  PROVE  \E Q2 : Woken(m, Q, WakeAll(m, l), Q2, l) /\ Q2[l] = <<>>
<1> DEFINE N == Cardinality(Threads)
           Left(x, i) == \E Q2 : /\ Woken(m, Q, x, Q2, l)
                                 /\ Len(Q2[l]) = 0 \/ Len(Q2[l]) + i <= Len(Q[l])
           S == [i \in 0 .. N |-> {x \in Memory : Left(x, i)}]
           step == [i \in 1 .. N |-> [x \in Memory |-> WakeOne(x, l)]]
           Waking(f) == f = [k \in 0 .. N |-> IF k = 0 THEN m ELSE WakeOne(f[k - 1], l)]
           g == CHOOSE f : Waking(f)
<1>1. /\ l \in Lists /\ Chains(m, Q) /\ Q[l] \in Seq(Threads) /\ Len(Q[l]) \in Nat /\ m \in Memory
      /\ N \in Nat /\ Len(Q[l]) <= N
  <2>1. l \in Lists /\ Chains(m, Q)
    BY ListNames DEF Linked
  <2>2. Q[l] \in Seq(Threads) /\ Len(Q[l]) \in Nat /\ Chain(m, l, Q[l]) /\ m \in Memory
    BY <2>1, ChainFacts DEF Chains
  <2>3. N \in Nat /\ Len(Q[l]) <= N
    BY <2>2, Distinct DEF Chain
  <2> QED
    BY <2>1, <2>2, <2>3
<1> HIDE DEF N
<1>2. Left(m, 0)
  <2>1. Woken(m, Q, m, Q, l)
    BY DEF Woken
  <2>2. Len(Q[l]) + 0 <= Len(Q[l])
    BY <1>1
  <2> QED
    BY <2>1, <2>2
<1>3. ASSUME NEW i \in 1 .. N, NEW x \in Memory, Left(x, i - 1)
      PROVE  WakeOne(x, l) \in Memory /\ Left(WakeOne(x, l), i)
  <2>1. PICK Q1 : /\ Woken(m, Q, x, Q1, l)
                  /\ Len(Q1[l]) = 0 \/ Len(Q1[l]) + (i - 1) <= Len(Q[l])
    BY <1>3
  <2>2. PICK Q2 : /\ Woken(m, Q, WakeOne(x, l), Q2, l)
                  /\ Len(Q2[l]) = IF Len(Q1[l]) = 0 THEN 0 ELSE Len(Q1[l]) - 1
    BY <2>1, WokenStep
  <2>3. Len(Q1[l]) \in Nat
    BY <1>1, <2>1, ChainFacts DEF Woken, Linked
  <2>4. Len(Q2[l]) = 0 \/ Len(Q2[l]) + i <= Len(Q[l])
    BY <1>1, <2>1, <2>2, <2>3
  <2>5. WakeOne(x, l) \in Memory
    BY <2>2 DEF Woken, Linked, Chains
  <2> QED
    BY <2>2, <2>4, <2>5
<1> HIDE DEF Left
<1>4. m \in S[0] /\ \A i \in 1 .. N : \A x \in S[i - 1] : step[i][x] \in S[i]
  <2>1. m \in S[0]
    BY <1>1, <1>2
  <2>2. ASSUME NEW i \in 1 .. N, NEW x \in S[i - 1] PROVE step[i][x] \in S[i]
    <3>1. i - 1 \in 0 .. N /\ i \in 0 .. N
      BY <1>1
    <3>2. x \in Memory /\ Left(x, i - 1)
      BY <3>1
    <3>3. WakeOne(x, l) \in Memory /\ Left(WakeOne(x, l), i)
      BY <1>3, <3>2
    <3>4. step[i][x] = WakeOne(x, l)
      BY <3>2
    <3> HIDE DEF step
    <3> QED
      BY <3>1, <3>3, <3>4
  <2> QED
    BY <2>1, <2>2
<1> HIDE DEF S, step
<1>5. PICK f : Rounds(f, N, m, step) /\ \A i \in 0 .. N : f[i] \in S[i]
  BY <1>1, <1>4, Iteration
<1>6. Waking(f)
  <2> DEFINE w == [k \in 0 .. N |-> IF k = 0 THEN m ELSE WakeOne(f[k - 1], l)]
             v == [k \in 0 .. N |-> IF k = 0 THEN m ELSE step[k][f[k - 1]]]
  <2>1. ASSUME NEW k \in 0 .. N PROVE v[k] = w[k]
    <3>1. CASE k = 0
      BY <3>1
    <3>2. CASE k # 0
      <4>1. k \in 1 .. N /\ k - 1 \in 0 .. N
        BY <1>1, <3>2
      <4>2. f[k - 1] \in Memory
        BY <1>5, <4>1 DEF S
      <4>3. step[k][f[k - 1]] = WakeOne(f[k - 1], l)
        BY <4>1, <4>2 DEF step
      <4> QED
        BY <3>2, <4>3
    <3> QED
      BY <3>1, <3>2
  <2>2. v = w
    BY <2>1
  <2> QED
    BY <1>5, <2>2 DEF Rounds
<1>7. Waking(g)
  BY <1>6
<1>8. WakeAll(m, l) = g[N]
  BY DEF WakeAll, N
<1> HIDE DEF g
<1>9. g[0] = m /\ \A k \in 1 .. N : g[k] = WakeOne(g[k - 1], l)
  <2>1. \A k \in 0 .. N : g[k] = IF k = 0 THEN m ELSE WakeOne(g[k - 1], l)
    BY <1>7
  <2>2. 0 \in 0 .. N /\ \A k \in 1 .. N : k \in 0 .. N /\ k # 0
    BY <1>1
  <2> HIDE DEF Waking
  <2> QED
    BY <2>1, <2>2
<1> HIDE DEF Waking
<1> DEFINE T == {k \in 0 .. N : g[k] \in Memory /\ Left(g[k], k)}
<1>10. 0 \in T
  <2>1. 0 \in 0 .. N
    BY <1>1
  <2> QED
    BY <1>1, <1>2, <1>9, <2>1
<1>11. ASSUME NEW k \in 0 .. N - 1, k \in T PROVE k + 1 \in T
  <2>1. k + 1 \in 1 .. N /\ k + 1 \in 0 .. N /\ (k + 1) - 1 = k
    BY <1>1
  <2>2. g[k + 1] = WakeOne(g[k], l)
    BY <1>9, <2>1
  <2>3. g[k] \in Memory /\ Left(g[k], (k + 1) - 1)
    BY <1>11, <2>1
  <2>4. g[k + 1] \in Memory /\ Left(g[k + 1], k + 1)
    BY <1>3, <2>1, <2>2, <2>3
  <2> QED
    BY <2>1, <2>4
<1> HIDE DEF T
<1>12. \A k \in 0 .. N : k \in T
  BY <1>1, <1>10, <1>11, UpTo
<1>13. Left(g[N], N)
  <2>1. N \in 0 .. N
    BY <1>1
  <2> QED
    BY <1>12, <2>1 DEF T
<1>14. PICK Q2 : /\ Woken(m, Q, g[N], Q2, l)
                 /\ Len(Q2[l]) = 0 \/ Len(Q2[l]) + N <= Len(Q[l])
  BY <1>13 DEF Left
<1>15. Q2[l] \in Seq(Threads) /\ Len(Q2[l]) \in Nat
  BY <1>1, <1>14, ChainFacts DEF Woken, Linked
<1>16. Q2[l] = <<>>
  <2>1. Len(Q2[l]) = 0
    BY <1>1, <1>14, <1>15
  <2> QED
    BY <1>15, <2>1, SeqFacts
<1> QED
  BY <1>8, <1>14, <1>16


\* The threads of q, that waited for a blocker in m, are ready in m2.
Readied(m, Q, m2, Q2, q) ==
  /\ Linked(m2, Q2) /\ m2.prio = m.prio /\ Q2["running"] = Q["running"]
  /\ \A x \in Locks : Q2[x] = Q[x]
  /\ \A p : OfPrio(m.prio, Q2["ready"], p) =
              OfPrio(m.prio, Q["ready"], p) \o OfPrio(m.prio, q, p)
  /\ \A u \in Threads : m2.state[u] = IF Has(q, u) THEN "Ready" ELSE m.state[u]

LEMMA ReadiedNone ==
  ASSUME NEW m, NEW Q, Linked(m, Q)
  PROVE  Readied(m, Q, m, Q, <<>>)
<1>1. Q["ready"] \in Seq(Threads)
  BY ListNames, ListFacts DEF Linked, VmLists
<1>2. ASSUME NEW p
      PROVE  OfPrio(m.prio, Q["ready"], p) =
               OfPrio(m.prio, Q["ready"], p) \o OfPrio(m.prio, <<>>, p)
  <2> DEFINE r == OfPrio(m.prio, Q["ready"], p)
  <2>1. r \in Seq(Threads)
    BY <1>1, FiltersAre
  <2>2. OfPrio(m.prio, <<>>, p) = <<>>
    BY OfPrioEmpty
  <2> HIDE DEF r
  <2>3. r = r \o <<>>
    BY <2>1
  <2> QED
    BY <2>2, <2>3 DEF r
<1>3. \A u : ~Has(<<>>, u)
  BY DEF Has
<1> QED
  BY <1>2, <1>3 DEF Readied

LEMMA ReadiedStep ==
  ASSUME NEW m, NEW Q, Linked(m, Q), NEW a \in Seq(Threads), NEW t \in Threads,
         ~Has(a, t), m.state[t] = "Blocked", Free(Q, t),
         NEW m1, NEW Q1, Readied(m, Q, m1, Q1, a)
  PROVE  \E Q2 : Readied(m, Q, SetState(m1, t, "Ready"), Q2, Append(a, t))
<1> DEFINE m2 == SetState(m1, t, "Ready")
           e == Append(a, t)
<1>1. /\ Linked(m1, Q1) /\ Chains(m1, Q1) /\ m1.prio = m.prio /\ m1.state[t] = "Blocked"
      /\ m1.state \in [Threads -> States]
      /\ "ready" \in Lists /\ "running" \in Lists /\ Locks \subseteq Lists
  BY ListNames, MemoryFields DEF Readied, Linked, Chains, VmLists
<1>2. Free(Q1, t)
  <2>1. \A x \in Locks : ~Has(Q1[x], t)
    BY <1>1 DEF Readied, Free, Has
  <2> QED
    BY <1>1, <2>1, FreeIs
<1>3. PICK Q2 : Moved(m1, Q1, m2, Q2, t, "Ready")
  BY <1>1, <1>2, SetStateIs DEF Movable
<1>4. /\ Q1["ready"] \in Seq(Threads) /\ Q1["running"] \in Seq(Threads)
      /\ Q["ready"] \in Seq(Threads)
  BY <1>1, ListFacts DEF Linked
<1>5. ~Has(Q1["ready"], t) /\ ~Has(Q1["running"], t)
  BY <1>1, <1>2 DEF Free, Has
<1> HIDE DEF m2
<1>6. Linked(m2, Q2) /\ m2.prio = m.prio /\ Q2["running"] = Q["running"]
  <2>1. Q2["running"] = Q1["running"]
    BY <1>3, <1>5 DEF Moved, Without
  <2> QED
    BY <1>1, <1>3, <2>1 DEF Moved, Readied
<1>7. \A x \in Locks : Q2[x] = Q[x]
  BY <1>3 DEF Moved, Readied
<1>8. ASSUME NEW p
      PROVE  OfPrio(m.prio, Q2["ready"], p) = OfPrio(m.prio, Q["ready"], p) \o OfPrio(m.prio, e, p)
  <2> DEFINE r == OfPrio(m.prio, Q["ready"], p)
             s == OfPrio(m.prio, a, p)
             v == OfPrio(m.prio, Q1["ready"], p)
  <2>1. r \in Seq(Threads) /\ s \in Seq(Threads)
    BY <1>4, FiltersAre
  <2>2. v = r \o s
    BY DEF Readied
  <2>3. Without(v, t) = v
    <3>1. ~Has(v, t)
      BY <1>4, <1>5, OfPrioHas
    <3> QED
      BY <3>1 DEF Without
  <2>4. OfPrio(m.prio, Q2["ready"], p) = IF m.prio[t] = p THEN Append(v, t) ELSE v
    BY <1>1, <1>3, <2>3 DEF Moved
  <2>5. OfPrio(m.prio, e, p) = IF m.prio[t] = p THEN Append(s, t) ELSE s
    BY OfPrioAppend
  <2> HIDE DEF r, s, v, e
  <2>6. r \o Append(s, t) = Append(r \o s, t)
    BY <2>1, ConcatAppend
  <2> QED
    BY <2>2, <2>4, <2>5, <2>6 DEF r
<1>9. \A u \in Threads : m2.state[u] = IF Has(e, u) THEN "Ready" ELSE m.state[u]
  <2>1. \A u : Has(e, u) <=> Has(a, u) \/ u = t
    BY HasAppend
  <2> HIDE DEF e
  <2>2. \A u \in Threads : m2.state[u] = IF u = t THEN "Ready" ELSE m1.state[u]
    BY <1>1, <1>3 DEF Moved
  <2>3. \A u \in Threads : m1.state[u] = IF Has(a, u) THEN "Ready" ELSE m.state[u]
    BY DEF Readied
  <2> QED
    BY <2>1, <2>2, <2>3
<1>10. Readied(m, Q, m2, Q2, e)
  BY <1>6, <1>7, <1>8, <1>9 DEF Readied
<1> QED
  BY <1>10 DEF m2, e

LEMMA FrontNext ==
  ASSUME NEW q \in Seq(Threads), NEW i \in 0 .. Len(q) - 1
  PROVE  Fore(q, i + 1) = Append(Fore(q, i), q[i + 1])
<1>1. /\ Len(q) \in Nat /\ i \in 0 .. Len(q) /\ i + 1 \in 0 .. Len(q) /\ i + 1 \in 1 .. Len(q)
      /\ i \in Nat
  BY SeqFacts
<1>2. q[i + 1] \in Threads
  BY <1>1, SeqFacts
<1> DEFINE a == Fore(q, i)
           b == Fore(q, i + 1)
           e == Append(a, q[i + 1])
<1>3. a \in Seq(Threads) /\ Len(a) = i /\ \A k \in 1 .. i : a[k] = q[k]
  BY <1>1, PartsAre
<1>4. b \in Seq(Threads) /\ Len(b) = i + 1 /\ \A k \in 1 .. i + 1 : b[k] = q[k]
  BY <1>1, PartsAre
<1> HIDE DEF a, b
<1>5. /\ e \in Seq(Threads) /\ Len(e) = i + 1 /\ \A k \in 1 .. i : e[k] = q[k]
      /\ e[i + 1] = q[i + 1]
  BY <1>2, <1>3, AppendIs
<1> HIDE DEF e
<1>6. \A k \in 1 .. i + 1 : k \in 1 .. i \/ k = i + 1
  BY <1>1
<1>7. \A k \in 1 .. Len(b) : b[k] = e[k]
  BY <1>4, <1>5, <1>6
<1>8. b = e
  BY <1>4, <1>5, <1>7, SameSeq
<1> QED
  BY <1>8 DEF a, b, e

LEMMA FrontEnds ==
  ASSUME NEW q \in Seq(Threads)
  PROVE  Fore(q, 0) = <<>> /\ Fore(q, Len(q)) = q
<1>1. Len(q) \in Nat /\ 0 \in 0 .. Len(q) /\ Len(q) \in 0 .. Len(q)
  BY SeqFacts
<1>2. Fore(q, 0) \in Seq(Threads) /\ Len(Fore(q, 0)) = 0
  BY <1>1, PartsAre
<1>3. Fore(q, Len(q)) = q
  <2>1. /\ Fore(q, Len(q)) \in Seq(Threads) /\ Len(Fore(q, Len(q))) = Len(q)
        /\ \A k \in 1 .. Len(q) : Fore(q, Len(q))[k] = q[k]
    BY <1>1, PartsAre
  <2> QED
    BY <2>1, SameSeq
<1> QED
  BY <1>2, <1>3, SeqFacts


\* blocker_resume wakes the threads of a blocker in the order of its stack.
LEMMA ReadyAllIs ==
  ASSUME NEW m, NEW Q, Linked(m, Q), NEW q, Asleep(m, Q, q)
  PROVE  \E Q2 : Readied(m, Q, ReadyAll(m, q), Q2, q)
<1> DEFINE N == Len(q)
           Done(x, i) == \E Q2 : Readied(m, Q, x, Q2, Fore(q, i))
           S == [i \in 0 .. N |-> {x \in Memory : Done(x, i)}]
           step == [i \in 1 .. N |-> [x \in Memory |-> SetState(x, q[i], "Ready")]]
           Waking(f) ==
             f = [i \in 0 .. N |-> IF i = 0 THEN m ELSE SetState(f[i - 1], q[i], "Ready")]
           g == CHOOSE f : Waking(f)
<1>1. /\ q \in Seq(Threads) /\ Once(q) /\ N \in Nat /\ m \in Memory
      /\ \A i \in 1 .. N : q[i] \in Threads /\ m.state[q[i]] = "Blocked" /\ Free(Q, q[i])
  BY SeqFacts DEF Asleep, Linked, Chains
<1>2. Fore(q, 0) = <<>> /\ Fore(q, N) = q
  BY <1>1, FrontEnds
<1>3. Done(m, 0)
  BY <1>2, ReadiedNone
<1>4. ASSUME NEW i \in 0 .. N - 1, NEW x \in Memory, Done(x, i)
      PROVE  /\ SetState(x, q[i + 1], "Ready") \in Memory
             /\ Done(SetState(x, q[i + 1], "Ready"), i + 1)
  <2> DEFINE a == Fore(q, i)
             t == q[i + 1]
  <2>1. PICK Q1 : Readied(m, Q, x, Q1, a)
    BY <1>4
  <2>2. /\ i \in 0 .. N /\ i + 1 \in 1 .. N /\ t \in Threads
        /\ m.state[t] = "Blocked" /\ Free(Q, t)
    BY <1>1
  <2>3. a \in Seq(Threads) /\ Len(a) = i /\ \A k \in 1 .. i : a[k] = q[k]
    BY <1>1, <2>2, PartsAre
  <2>4. ~Has(a, t)
    <3>1. \A k \in 1 .. i : k \in 1 .. N /\ k # i + 1
      BY <1>1
    <3> QED
      BY <1>1, <2>2, <2>3, <3>1 DEF Has, Once
  <2>5. Fore(q, i + 1) = Append(a, t)
    BY <1>1, FrontNext
  <2> HIDE DEF a, t
  <2>6. PICK Q2 : Readied(m, Q, SetState(x, t, "Ready"), Q2, Append(a, t))
    BY <2>1, <2>2, <2>3, <2>4, ReadiedStep
  <2>7. Done(SetState(x, t, "Ready"), i + 1)
    BY <2>5, <2>6
  <2>8. SetState(x, t, "Ready") \in Memory
    BY <2>6 DEF Readied, Linked, Chains
  <2> QED
    BY <2>7, <2>8 DEF t
<1> HIDE DEF Done
<1>5. ASSUME NEW k \in 1 .. N, NEW x \in Memory, Done(x, k - 1)
      PROVE  SetState(x, q[k], "Ready") \in Memory /\ Done(SetState(x, q[k], "Ready"), k)
  <2>1. k - 1 \in 0 .. N - 1 /\ (k - 1) + 1 = k
    BY <1>1
  <2> QED
    BY <1>4, <1>5, <2>1
<1> HIDE DEF N
<1>6. m \in S[0] /\ \A i \in 1 .. N : \A x \in S[i - 1] : step[i][x] \in S[i]
  <2>1. m \in S[0]
    BY <1>1, <1>3
  <2>2. ASSUME NEW i \in 1 .. N, NEW x \in S[i - 1] PROVE step[i][x] \in S[i]
    <3>1. i - 1 \in 0 .. N /\ i \in 0 .. N
      BY <1>1
    <3>2. x \in Memory /\ Done(x, i - 1)
      BY <3>1
    <3>3. SetState(x, q[i], "Ready") \in Memory /\ Done(SetState(x, q[i], "Ready"), i)
      BY <1>5, <3>2
    <3>4. step[i][x] = SetState(x, q[i], "Ready")
      BY <3>2
    <3> HIDE DEF step
    <3> QED
      BY <3>1, <3>3, <3>4
  <2> QED
    BY <2>1, <2>2
<1> HIDE DEF S, step
<1>7. PICK f : Rounds(f, N, m, step) /\ \A i \in 0 .. N : f[i] \in S[i]
  BY <1>1, <1>6, Iteration
<1>8. Waking(f)
  <2> DEFINE w == [k \in 0 .. N |-> IF k = 0 THEN m ELSE SetState(f[k - 1], q[k], "Ready")]
             v == [k \in 0 .. N |-> IF k = 0 THEN m ELSE step[k][f[k - 1]]]
  <2>1. ASSUME NEW k \in 0 .. N PROVE v[k] = w[k]
    <3>1. CASE k = 0
      BY <3>1
    <3>2. CASE k # 0
      <4>1. k \in 1 .. N /\ k - 1 \in 0 .. N
        BY <1>1, <3>2
      <4>2. f[k - 1] \in Memory
        BY <1>7, <4>1 DEF S
      <4>3. step[k][f[k - 1]] = SetState(f[k - 1], q[k], "Ready")
        BY <4>1, <4>2 DEF step
      <4> QED
        BY <3>2, <4>3
    <3> QED
      BY <3>1, <3>2
  <2>2. v = w
    BY <2>1
  <2> QED
    BY <1>7, <2>2 DEF Rounds
<1>9. Waking(g)
  BY <1>8
<1>10. ReadyAll(m, q) = g[N]
  BY DEF ReadyAll, N
<1> HIDE DEF g
<1>11. g[0] = m /\ \A k \in 1 .. N : g[k] = SetState(g[k - 1], q[k], "Ready")
  <2>1. \A k \in 0 .. N : g[k] = IF k = 0 THEN m ELSE SetState(g[k - 1], q[k], "Ready")
    BY <1>9
  <2>2. 0 \in 0 .. N /\ \A k \in 1 .. N : k \in 0 .. N /\ k # 0
    BY <1>1
  <2> HIDE DEF Waking
  <2> QED
    BY <2>1, <2>2
<1> HIDE DEF Waking
<1> DEFINE T == {k \in 0 .. N : g[k] \in Memory /\ Done(g[k], k)}
<1>12. 0 \in T
  <2>1. 0 \in 0 .. N
    BY <1>1
  <2> QED
    BY <1>1, <1>3, <1>11, <2>1
<1>13. ASSUME NEW k \in 0 .. N - 1, k \in T PROVE k + 1 \in T
  <2>1. k + 1 \in 1 .. N /\ k + 1 \in 0 .. N /\ (k + 1) - 1 = k
    BY <1>1
  <2>2. g[k + 1] = SetState(g[k], q[k + 1], "Ready")
    BY <1>11, <2>1
  <2>3. g[k] \in Memory /\ Done(g[k], (k + 1) - 1)
    BY <1>13, <2>1
  <2>4. g[k + 1] \in Memory /\ Done(g[k + 1], k + 1)
    BY <1>5, <2>1, <2>2, <2>3
  <2> QED
    BY <2>1, <2>4
<1> HIDE DEF T
<1>14. \A k \in 0 .. N : k \in T
  BY <1>1, <1>12, <1>13, UpTo
<1>15. Done(g[N], N)
  <2>1. N \in 0 .. N
    BY <1>1
  <2> QED
    BY <1>14, <2>1 DEF T
<1> QED
  BY <1>2, <1>10, <1>15 DEF Done, N

-----------------------------------------------------------------------------
(* What ThreadQueues sees of the lists Q, and which of its steps a change of *)
(* the lists is.                                                             *)

Fifos(prio, q) == [p \in Prios |-> OfPrio(prio, q, p)]
Waiting(prio, Q, st) ==
  [x \in Locks \cup Blockers |-> Fifos(prio, IF x \in Locks THEN Q[x] ELSE st[x])]

LEMMA Views ==
  ASSUME NEW Q, Chains(mem, Q)
  PROVE  /\ ByPrio(Nodes("ready")) = Fifos(mem.prio, Q["ready"])
         /\ Nodes("running") = Q["running"]
         /\ [x \in Locks \cup Blockers |-> ByPrio(IF x \in Locks THEN Nodes(x) ELSE stack[x])]
              = Waiting(mem.prio, Q, stack)
<1>1. \A l \in Lists : Nodes(l) = Q[l]
  BY NodesAre DEF Nodes
<1> QED
  BY <1>1, ListNames DEF ByPrio, Fifos, Waiting, VmLists

LEMMA ViewsNext ==
  ASSUME NEW Q, Chains(mem', Q)
  PROVE  /\ ByPrio(Nodes("ready"))' = Fifos(mem'.prio, Q["ready"])
         /\ Nodes("running")' = Q["running"]
         /\ [x \in Locks \cup Blockers |-> ByPrio(IF x \in Locks THEN Nodes(x) ELSE stack[x])]'
              = Waiting(mem'.prio, Q, stack')
<1>1. \A l \in Lists : NodesOf(mem', l) = Q[l]
  BY NodesAre
<1>2. ByPrio(Nodes("ready"))' = Fifos(mem'.prio, Q["ready"])
  BY <1>1, ListNames DEF ByPrio, Fifos, Waiting, VmLists, Nodes
<1>3. Nodes("running")' = Q["running"]
  BY <1>1, ListNames DEF ByPrio, Fifos, Waiting, VmLists, Nodes
<1> QED
  BY <1>1, <1>2, <1>3, ListNames DEF ByPrio, Fifos, Waiting, VmLists, Nodes

\* The views of the four variables of ThreadQueues, in a state and in the next.
Seen(rdy, run, pd) ==
  /\ ByPrio(Nodes("ready")) = rdy /\ Nodes("running") = run
  /\ [x \in Locks \cup Blockers |-> ByPrio(IF x \in Locks THEN Nodes(x) ELSE stack[x])] = pd

\* Thread t, of priority p, waits for x besides the others; nobody does.
Behind(pd2, pd, x, p, t) ==
  pd2 = [pd EXCEPT ![x][p] = IF x \in Locks THEN Append(@, t) ELSE <<t>> \o @]
\* Thread t, of priority p, is ready after the others.
Enqueued(rdy2, rdy, p, t) == rdy2 = [rdy EXCEPT ![p] = Append(@, t)]
Emptied(pd2, pd, x) == pd2 = [pd EXCEPT ![x] = [p \in Prios |-> <<>>]]

LEMMA SeenIs ==
  ASSUME NEW Q, Chains(mem, Q)
  PROVE  Seen(Fifos(mem.prio, Q["ready"]), Q["running"], Waiting(mem.prio, Q, stack))
BY Views DEF Seen

LEMMA EnterSeen ==
  ASSUME NEW rdy, NEW run, NEW pd, Seen(rdy, run, pd), NEW t, NEW p,
         mem'.prio = [mem.prio EXCEPT ![t] = p], ~TQ!Listed(t),
         NEW Q2, Chains(mem', Q2), Enqueued(Fifos(mem'.prio, Q2["ready"]), rdy, p, t),
         Q2["running"] = run, Waiting(mem'.prio, Q2, stack') = pd
  PROVE  TQ!Enter(t, p)
<1> DEFINE vp == [x \in Locks \cup Blockers |-> ByPrio(IF x \in Locks THEN Nodes(x) ELSE stack[x])]
<1>1. ByPrio(Nodes("ready"))' = [ByPrio(Nodes("ready")) EXCEPT ![p] = Append(@, t)]
  BY ViewsNext DEF Seen, Enqueued
<1>2. Nodes("running")' = Nodes("running")
  BY ViewsNext DEF Seen
<1>3. vp' = vp
  BY ViewsNext DEF Seen
<1>4. UNCHANGED <<Nodes("running"), vp>>
  BY <1>2, <1>3
<1> QED
  BY <1>1, <1>4 DEF TQ!Enter

LEMMA DispatchSeen ==
  ASSUME NEW rdy, NEW run, NEW pd, Seen(rdy, run, pd), NEW p,
         mem'.prio = mem.prio, rdy[p] # <<>>, \A y \in Prios : y > p => rdy[y] = <<>>,
         NEW Q2, Chains(mem', Q2), Fifos(mem'.prio, Q2["ready"]) = [rdy EXCEPT ![p] = Tail(@)],
         Q2["running"] = Append(run, Head(rdy[p])), Waiting(mem'.prio, Q2, stack') = pd
  PROVE  TQ!Dispatch(p)
<1> DEFINE vp == [x \in Locks \cup Blockers |-> ByPrio(IF x \in Locks THEN Nodes(x) ELSE stack[x])]
<1>1. ByPrio(Nodes("ready"))' = [ByPrio(Nodes("ready")) EXCEPT ![p] = Tail(@)]
  BY ViewsNext DEF Seen
<1>2. Nodes("running")' = Append(Nodes("running"), Head(ByPrio(Nodes("ready"))[p]))
  BY ViewsNext DEF Seen
<1>3. vp' = vp
  BY ViewsNext DEF Seen
<1>4. UNCHANGED <<mem.prio, vp>>
  BY <1>3
<1>5. TQ!First(ByPrio(Nodes("ready")), p)
  BY DEF Seen, TQ!First
<1> QED
  BY <1>1, <1>2, <1>4, <1>5 DEF TQ!Dispatch

LEMMA YieldSeen ==
  ASSUME NEW rdy, NEW run, run \in Seq(Threads), NEW pd, Seen(rdy, run, pd), NEW t, Has(run, t),
         mem'.prio = mem.prio, NEW Q2, Chains(mem', Q2),
         Fifos(mem'.prio, Q2["ready"]) = [rdy EXCEPT ![mem.prio[t]] = Append(@, t)],
         Q2["running"] = Without(run, t), Waiting(mem'.prio, Q2, stack') = pd
  PROVE  TQ!Yield(t)
<1> DEFINE vp == [x \in Locks \cup Blockers |-> ByPrio(IF x \in Locks THEN Nodes(x) ELSE stack[x])]
<1>1. ByPrio(Nodes("ready"))' = [ByPrio(Nodes("ready")) EXCEPT ![mem.prio[t]] = Append(@, t)]
  BY ViewsNext DEF Seen
<1>2. t \in TQ!Held(Nodes("running")) /\ Nodes("running")' = TQ!Out(Nodes("running"), t)
  <2>1. t \in TQ!Held(run) /\ TQ!Out(run, t) = Without(run, t)
    BY OutIs
  <2>2. Nodes("running") = run
    BY DEF Seen
  <2>3. Nodes("running")' = Without(run, t)
    BY ViewsNext
  <2> QED
    BY <2>1, <2>2, <2>3
<1>3. vp' = vp
  BY ViewsNext DEF Seen
<1>4. UNCHANGED <<mem.prio, vp>>
  BY <1>3
<1> QED
  BY <1>1, <1>2, <1>4 DEF TQ!Yield

LEMMA WaitSeen ==
  ASSUME NEW rdy, NEW run, run \in Seq(Threads), NEW pd, Seen(rdy, run, pd), NEW t, Has(run, t),
         NEW x, mem'.prio = mem.prio, NEW Q2, Chains(mem', Q2),
         Fifos(mem'.prio, Q2["ready"]) = rdy, Q2["running"] = Without(run, t),
         Behind(Waiting(mem'.prio, Q2, stack'), pd, x, mem.prio[t], t)
  PROVE  TQ!Wait(t, x)
<1> DEFINE vp == [y \in Locks \cup Blockers |-> ByPrio(IF y \in Locks THEN Nodes(y) ELSE stack[y])]
<1>1. ByPrio(Nodes("ready"))' = ByPrio(Nodes("ready"))
  BY ViewsNext DEF Seen
<1>2. t \in TQ!Held(Nodes("running")) /\ Nodes("running")' = TQ!Out(Nodes("running"), t)
  <2>1. t \in TQ!Held(run) /\ TQ!Out(run, t) = Without(run, t)
    BY OutIs
  <2>2. Nodes("running") = run
    BY DEF Seen
  <2>3. Nodes("running")' = Without(run, t)
    BY ViewsNext
  <2> QED
    BY <2>1, <2>2, <2>3
<1>3. vp' = [vp EXCEPT ![x][mem.prio[t]] = IF x \in Locks THEN Append(@, t) ELSE <<t>> \o @]
  BY ViewsNext DEF Seen, Behind
<1>4. UNCHANGED <<mem.prio, ByPrio(Nodes("ready"))>>
  BY <1>1
<1> QED
  BY <1>2, <1>3, <1>4 DEF TQ!Wait

LEMMA WakeSeen ==
  ASSUME NEW rdy, NEW run, NEW pd, Seen(rdy, run, pd), NEW x,
         mem'.prio = mem.prio, NEW Q2, Chains(mem', Q2),
         Fifos(mem'.prio, Q2["ready"]) = [p \in Prios |-> rdy[p] \o pd[x][p]],
         Q2["running"] = run,
         Emptied(Waiting(mem'.prio, Q2, stack'), pd, x)
  PROVE  TQ!Wake(x)
<1> DEFINE vp == [y \in Locks \cup Blockers |-> ByPrio(IF y \in Locks THEN Nodes(y) ELSE stack[y])]
<1>1. ByPrio(Nodes("ready"))' = [p \in Prios |-> ByPrio(Nodes("ready"))[p] \o vp[x][p]]
  BY ViewsNext DEF Seen
<1>2. Nodes("running")' = Nodes("running")
  BY ViewsNext DEF Seen
<1>3. vp' = [vp EXCEPT ![x] = TQ!Nobody]
  BY ViewsNext DEF Seen, Emptied, TQ!Nobody
<1>4. UNCHANGED <<mem.prio, Nodes("running")>>
  BY <1>2
<1> QED
  BY <1>1, <1>3, <1>4 DEF TQ!Wake

LEMMA LeaveSeen ==
  ASSUME NEW rdy, NEW run, run \in Seq(Threads), rdy \in [Prios -> Seq(Threads)],
         NEW pd, Seen(rdy, run, pd), NEW t, Has(run, t) \/ \E p \in Prios : Has(rdy[p], t),
         mem'.prio = mem.prio, NEW Q2, Chains(mem', Q2),
         Fifos(mem'.prio, Q2["ready"]) = [p \in Prios |-> Without(rdy[p], t) \o pd[t][p]],
         Q2["running"] = Without(run, t),
         Emptied(Waiting(mem'.prio, Q2, stack'), pd, t)
  PROVE  TQ!Leave(t)
<1> DEFINE vp == [y \in Locks \cup Blockers |-> ByPrio(IF y \in Locks THEN Nodes(y) ELSE stack[y])]
<1>1. \A p \in Prios : /\ TQ!Out(rdy[p], t) = Without(rdy[p], t)
                       /\ t \in TQ!Held(rdy[p]) <=> Has(rdy[p], t)
  BY OutIs
<1>2. ByPrio(Nodes("ready"))' = [p \in Prios |-> TQ!Out(ByPrio(Nodes("ready"))[p], t) \o vp[t][p]]
  <2>1. [p \in Prios |-> TQ!Out(rdy[p], t) \o pd[t][p]] =
          [p \in Prios |-> Without(rdy[p], t) \o pd[t][p]]
    BY <1>1
  <2> QED
    BY <2>1, ViewsNext DEF Seen
<1>3. Nodes("running")' = TQ!Out(Nodes("running"), t)
  <2>1. TQ!Out(run, t) = Without(run, t) /\ Nodes("running") = run
    BY OutIs DEF Seen
  <2>2. Nodes("running")' = Without(run, t)
    BY ViewsNext
  <2> QED
    BY <2>1, <2>2
<1>4. vp' = [vp EXCEPT ![t] = TQ!Nobody]
  BY ViewsNext DEF Seen, Emptied, TQ!Nobody
<1>5. t \in TQ!Held(Nodes("running")) \/ TQ!In(t, ByPrio(Nodes("ready")))
  <2>1. Nodes("running") = run /\ ByPrio(Nodes("ready")) = rdy
    BY DEF Seen
  <2>2. Has(run, t) => t \in TQ!Held(run)
    BY OutIs
  <2>3. (\E p \in Prios : Has(rdy[p], t)) => TQ!In(t, rdy)
    BY <1>1 DEF TQ!In
  <2> QED
    BY <2>1, <2>2, <2>3
<1> QED
  BY <1>2, <1>3, <1>4, <1>5 DEF TQ!Leave

LEMMA NothingSeen ==
  ASSUME NEW rdy, NEW run, NEW pd, Seen(rdy, run, pd), mem'.prio = mem.prio,
         NEW Q2, Chains(mem', Q2), Fifos(mem'.prio, Q2["ready"]) = rdy,
         Q2["running"] = run, Waiting(mem'.prio, Q2, stack') = pd
  PROVE  UNCHANGED TQ!vars
<1> DEFINE vp == [y \in Locks \cup Blockers |-> ByPrio(IF y \in Locks THEN Nodes(y) ELSE stack[y])]
<1>1. ByPrio(Nodes("ready"))' = ByPrio(Nodes("ready"))
  BY ViewsNext DEF Seen
<1>2. Nodes("running")' = Nodes("running")
  BY ViewsNext DEF Seen
<1>3. vp' = vp
  BY ViewsNext DEF Seen
<1> QED
  BY <1>1, <1>2, <1>3 DEF TQ!vars

-----------------------------------------------------------------------------
(* What every step keeps. *)

\* The threads that sleep in m still do.
Undisturbed(m, Q, m2, Q2) ==
  \A u \in Threads :
    m.state[u] = "Blocked" /\ Free(Q, u) => m2.state[u] = "Blocked" /\ Free(Q2, u)

LEMMA SleepersKept ==
  ASSUME NEW m, NEW Q, NEW m2, NEW Q2, NEW st, Sleepers(m, Q, st), Undisturbed(m, Q, m2, Q2)
  PROVE  Sleepers(m2, Q2, st)
<1>1. ASSUME NEW b \in Blockers PROVE Asleep(m2, Q2, st[b])
  <2>1. Asleep(m, Q, st[b])
    BY DEF Sleepers
  <2>2. \A i \in 1 .. Len(st[b]) : st[b][i] \in Threads
    BY <2>1, SeqFacts DEF Asleep
  <2> QED
    BY <2>1, <2>2 DEF Asleep, Undisturbed
<1> QED
  BY <1>1 DEF Sleepers

LEMMA StillFree ==
  ASSUME NEW Q, NEW u, Free(Q, u), NEW m2, NEW Q2, Linked(m2, Q2), m2.state[u] = "Blocked",
         \A x \in Locks : Has(Q2[x], u) => Has(Q[x], u)
  PROVE  Free(Q2, u)
<1>1. \A x \in Locks : ~Has(Q2[x], u)
  BY ListNames DEF Free, Has
<1> QED
  BY <1>1, FreeIs

LEMMA MovedKeeps ==
  ASSUME NEW m, NEW Q, Linked(m, Q), NEW t \in Threads, m.state[t] # "Blocked",
         NEW m2, NEW Q2, NEW s, Moved(m, Q, m2, Q2, t, s)
  PROVE  Undisturbed(m, Q, m2, Q2)
<1> SUFFICES ASSUME NEW u \in Threads, m.state[u] = "Blocked", Free(Q, u)
             PROVE  m2.state[u] = "Blocked" /\ Free(Q2, u)
  BY DEF Undisturbed
<1>1. m2.state[u] = "Blocked"
  BY MemoryFields DEF Moved, Linked, Chains
<1>2. Linked(m2, Q2) /\ \A x \in Locks : Has(Q2[x], u) => Has(Q[x], u)
  BY DEF Moved
<1> QED
  BY <1>1, <1>2, StillFree

LEMMA WaitsHas ==
  ASSUME NEW m, NEW Q, Linked(m, Q), NEW t \in Threads, NEW l \in Locks,
         NEW m2, NEW Q2, Waits(m, Q, m2, Q2, t, l), NEW u, u # t, Has(Q2[l], u)
  PROVE  Has(Q[l], u)
<1> DEFINE p == m.prio[u]
           a == OfPrio(m.prio, Q[l], p)
           b == OfPrio(m.prio, Q2[l], p)
<1>1. Q[l] \in Seq(Threads) /\ Q2[l] \in Seq(Threads)
  BY ListNames, ListFacts DEF Waits, Linked
<1>2. a \in Seq(Threads)
  BY <1>1, FiltersAre
<1>3. b = IF m.prio[t] = p THEN Append(a, t) ELSE a
  BY DEF Waits, Gains
<1>4. Has(b, u)
  BY <1>1, OfPrioHas
<1>5. Has(a, u) <=> Has(Q[l], u)
  BY <1>1, OfPrioHas
<1> HIDE DEF a, b, p
<1>6. Has(Append(a, t), u) <=> Has(a, u) \/ u = t
  BY <1>2, HasAppend
<1> QED
  BY <1>3, <1>4, <1>5, <1>6

LEMMA WaitsKeeps ==
  ASSUME NEW m, NEW Q, Linked(m, Q), NEW t \in Threads, m.state[t] # "Blocked", NEW l \in Locks,
         NEW m2, NEW Q2, Waits(m, Q, m2, Q2, t, l)
  PROVE  Undisturbed(m, Q, m2, Q2)
<1> SUFFICES ASSUME NEW u \in Threads, m.state[u] = "Blocked", Free(Q, u)
             PROVE  m2.state[u] = "Blocked" /\ Free(Q2, u)
  BY DEF Undisturbed
<1>1. u # t
  OBVIOUS
<1>2. m2.state[u] = "Blocked" /\ Linked(m2, Q2)
  BY MemoryFields DEF Waits, Linked, Chains
<1>3. \A x \in Locks : Has(Q2[x], u) => Has(Q[x], u)
  <2>1. Has(Q2[l], u) => Has(Q[l], u)
    BY <1>1, WaitsHas
  <2>2. \A x \in Locks \ {l} : Q2[x] = Q[x]
    BY DEF Waits
  <2> QED
    BY <2>1, <2>2
<1> QED
  BY <1>2, <1>3, StillFree

LEMMA WokenKeeps ==
  ASSUME NEW m, NEW Q, Linked(m, Q), NEW l \in Locks, NEW m2, NEW Q2, Woken(m, Q, m2, Q2, l)
  PROVE  Undisturbed(m, Q, m2, Q2)
<1> SUFFICES ASSUME NEW u \in Threads, m.state[u] = "Blocked", Free(Q, u)
             PROVE  m2.state[u] = "Blocked" /\ Free(Q2, u)
  BY DEF Undisturbed
<1>1. ~Has(Q[l], u)
  BY ListNames DEF Free, Has
<1>2. m2.state[u] = "Blocked" /\ Linked(m2, Q2)
  BY <1>1 DEF Woken
<1>3. \A x \in Locks : Has(Q2[x], u) => Has(Q[x], u)
  <2>1. Has(Q2[l], u) => Has(Q[l], u)
    BY DEF Woken
  <2>2. \A x \in Locks \ {l} : Q2[x] = Q[x]
    BY DEF Woken
  <2> QED
    BY <2>1, <2>2
<1> QED
  BY <1>2, <1>3, StillFree

LEMMA WokenLives ==
  ASSUME NEW m, NEW Q, NEW l, NEW m2, NEW Q2, Woken(m, Q, m2, Q2, l)
  PROVE  \A u \in Threads : Dead(m2.state[u]) <=> Dead(m.state[u])
BY DEF Woken, Dead

LEMMA InvHolds ==
  ASSUME Inv
  PROVE  \E Q : /\ Linked(mem, Q) /\ Sleepers(mem, Q, stack)
                /\ TypeOK /\ CurrentRuns /\ JoinsHeld(mem.state, owner, count)
                /\ stack \in [Blockers -> Seq(Threads)]
BY DEF Inv

LEMMA InvNext ==
  ASSUME NEW Q, Linked(mem', Q), Sleepers(mem', Q, stack'), TypeOK', CurrentRuns',
         JoinsHeld(mem'.state, owner', count'), stack' \in [Blockers -> Seq(Threads)]
  PROVE  Inv'
<1>1. AllNodes(mem') = Q
  BY AllNodesAre DEF Linked
<1> QED
  BY <1>1 DEF Inv

-----------------------------------------------------------------------------
(* Every action keeps the invariant and is a step of ThreadQueues. *)

Queued == Inv' /\ [TQ!Next]_(TQ!vars)

\* Nothing moves.
LEMMA StillNext ==
  ASSUME Inv, UNCHANGED <<mem, stack>>, TypeOK', CurrentRuns', JoinsHeld(mem.state, owner', count')
  PROVE  Queued
<1>1. PICK Q : Linked(mem, Q) /\ Sleepers(mem, Q, stack) /\ stack \in [Blockers -> Seq(Threads)]
  BY InvHolds
<1>2. mem' = mem /\ stack' = stack
  OBVIOUS
<1>3. Inv'
  BY <1>1, <1>2, InvNext
<1>4. Chains(mem, Q) /\ Chains(mem', Q)
  BY <1>1, <1>2 DEF Linked
<1>5. Seen(Fifos(mem.prio, Q["ready"]), Q["running"], Waiting(mem.prio, Q, stack))
  BY <1>4, SeenIs
<1>6. UNCHANGED TQ!vars
  BY <1>2, <1>4, <1>5, NothingSeen
<1> QED
  BY <1>3, <1>6 DEF Queued

LEMMA WaitingSame ==
  ASSUME NEW prio, NEW Q, NEW Q2, NEW st, \A x \in Locks : Q2[x] = Q[x]
  PROVE  Waiting(prio, Q2, st) = Waiting(prio, Q, st)
BY DEF Waiting

LEMMA KeepStep == ASSUME Inv, Keep PROVE Queued
<1>1. TypeOK' /\ CurrentRuns' /\ JoinsHeld(mem.state, owner', count')
  BY NullNode DEF Inv, Keep, TypeOK, CurrentRuns, Node
<1> QED
  BY <1>1, StillNext DEF Keep

LEMMA OtherStep == ASSUME Inv, Other PROVE Queued
<1>1. TypeOK' /\ CurrentRuns' /\ JoinsHeld(mem.state, owner', count')
  BY DEF Inv, Other, Fresh, TypeOK, CurrentRuns
<1> QED
  BY <1>1, StillNext DEF Other

\* Thread h is the first one of its priority, the highest one.
Leads(prio, q, h) ==
  /\ Without(OfPrio(prio, q, prio[h]), h) \in Seq(Threads)
  /\ OfPrio(prio, q, prio[h]) = <<h>> \o Without(OfPrio(prio, q, prio[h]), h)
  /\ \A p \in Int : p > prio[h] => OfPrio(prio, q, p) = <<>>

LEMMA FirstReady ==
  ASSUME NEW m, NEW Q, Linked(m, Q), Len(Q["ready"]) > 0
  PROVE  Leads(m.prio, Q["ready"], Q["ready"][1])
<1> DEFINE q == Q["ready"]
           h == q[1]
           p0 == m.prio[h]
           s == OfPrio(m.prio, q, p0)
           x == OfPrio(m.prio, Deletion(q, 1), p0)
<1>1. /\ "ready" \in Lists /\ Chains(m, Q) /\ q \in Seq(Threads) /\ Once(q)
      /\ Len(q) \in Nat /\ 1 \in 1 .. Len(q) /\ h \in Threads
      /\ \A j \in 1 .. Len(q) : m.prio[q[j]] \in Int
  <2>1. "ready" \in Lists /\ Chains(m, Q)
    BY ListNames DEF Linked, VmLists
  <2>2. q \in Seq(Threads) /\ Once(q) /\ Len(q) \in Nat /\ \A j \in 1 .. Len(q) : q[j] \in Threads
    BY <2>1, ListFacts, ChainFacts
  <2>3. \A j \in 1 .. Len(q) : m.prio[q[j]] \in Int
    BY <2>1, PriosAre
  <2> QED
    BY <2>1, <2>2, <2>3
<1>2. Deletion(q, 1) \in Seq(Threads) /\ Deletion(q, 1) = Without(q, h)
  BY <1>1, DeletionIs, WithoutIs
<1>3. s \in Seq(Threads) /\ x \in Seq(Threads)
  BY <1>1, <1>2, FiltersAre
<1>4. <<>> \o s = Append(<<>>, h) \o x
  <2>1. <<>> \in Seq(Threads)
    OBVIOUS
  <2>2. <<>> \o s = (IF m.prio[q[1]] = p0 THEN Append(<<>>, q[1]) ELSE <<>>) \o x
    BY <1>1, <2>1, FirstOut
  <2> QED
    BY <2>2
<1>5. x = Without(s, h)
  BY <1>1, <1>2, OfPrioWithout
<1>6. ASSUME NEW p \in Int, p > p0 PROVE OfPrio(m.prio, q, p) = <<>>
  <2>1. InOrder(m.prio, q)
    BY <1>1 DEF Linked
  <2>2. \A j \in 1 .. Len(q) : m.prio[q[j]] <= p0
    BY <1>1, <2>1 DEF InOrder
  <2>3. \A j \in 1 .. Len(q) : m.prio[q[j]] # p
    BY <1>1, <1>6, <2>2
  <2>4. OfPrio(m.prio, q, p) \in Seq(Threads) /\ \A u \in Threads : ~Has(OfPrio(m.prio, q, p), u)
    <3>1. OfPrio(m.prio, q, p) \in Seq(Threads)
      BY <1>1, FiltersAre
    <3>2. ASSUME NEW u PROVE ~Has(OfPrio(m.prio, q, p), u)
      <4>1. Has(OfPrio(m.prio, q, p), u) <=> Has(q, u) /\ m.prio[u] = p
        BY <1>1, OfPrioHas
      <4>2. ~(Has(q, u) /\ m.prio[u] = p)
        BY <2>3 DEF Has
      <4> QED
        BY <4>1, <4>2
    <3> QED
      BY <3>1, <3>2
  <2> QED
    BY <2>4, HasNone
<1> HIDE DEF s, x
<1>7. s = <<h>> \o x
  <2>1. <<>> \o s = s /\ Append(<<>>, h) = <<h>>
    BY <1>3
  <2> QED
    BY <1>4, <2>1
<1> QED
  BY <1>3, <1>5, <1>6, <1>7 DEF s, Leads

LEMMA CandidateRuns ==
  ASSUME Inv
  PROVE  Candidate \in Node /\ (Candidate # NULL => mem.state[Candidate] = "Running")
<1>1. PICK Q : Linked(mem, Q) /\ TypeOK
  BY InvHolds
<1>2. /\ Chains(mem, Q) /\ "running" \in Lists /\ "running" \in VmLists
      /\ StateIn("running") = "Running"
  BY <1>1, ListNames DEF Linked, VmLists
<1> DEFINE q == Q["running"]
<1>3. ASSUME NEW i \in 1 .. Len(q) PROVE q[i] \in Threads /\ mem.state[q[i]] = "Running"
  BY <1>1, <1>2, EndsAre DEF Linked
<1>4. ASSUME NEW t \in Threads, mem.state[t] = "Running", mem.next[t] # NULL
      PROVE  mem.next[t] \in Threads /\ mem.state[mem.next[t]] = "Running"
  <2>1. PICK i \in 1 .. Len(q) : q[i] = t
    BY <1>1, <1>2, <1>4 DEF Linked
  <2>2. mem.next[q[i]] = IF i = Len(q) THEN NULL ELSE q[i + 1]
    BY <1>2, EndsAre
  <2>3. i + 1 \in 1 .. Len(q) /\ mem.next[t] = q[i + 1]
    <3>1. Len(q) \in Nat /\ i # Len(q)
      BY <1>2, <1>4, <2>1, <2>2, EndsAre
    <3> QED
      BY <2>1, <2>2, <3>1
  <2> QED
    BY <1>3, <2>3
<1>5. ASSUME mem.head["running"] # NULL
      PROVE  mem.head["running"] \in Threads /\ mem.state[mem.head["running"]] = "Running"
  <2>1. Len(q) \in Nat /\ Len(q) # 0 /\ mem.head["running"] = q[1]
    BY <1>2, <1>5, EndsAre
  <2>2. 1 \in 1 .. Len(q)
    BY <2>1
  <2> QED
    BY <1>3, <2>1, <2>2
<1> QED
  BY <1>1, <1>4, <1>5, NullNode DEF Candidate, TypeOK, Node

LEMMA HeadReady ==
  ASSUME NEW m, NEW Q, Linked(m, Q), m.head["ready"] # NULL
  PROVE  /\ Len(Q["ready"]) > 0 /\ m.head["ready"] = Q["ready"][1]
         /\ m.head["ready"] \in Threads /\ m.state[m.head["ready"]] = "Ready"
<1>1. Chains(m, Q) /\ "ready" \in Lists /\ StateIn("ready") = "Ready"
  BY ListNames DEF Linked, VmLists
<1>2. Len(Q["ready"]) \in Nat /\ Len(Q["ready"]) # 0 /\ m.head["ready"] = Q["ready"][1]
  BY <1>1, EndsAre
<1>3. 1 \in 1 .. Len(Q["ready"]) /\ Len(Q["ready"]) > 0
  BY <1>2
<1>4. Q["ready"][1] \in Threads /\ m.state[Q["ready"][1]] = "Ready"
  BY <1>1, <1>3, ChainFacts DEF Linked
<1> QED
  BY <1>2, <1>3, <1>4

LEMMA Dispatched ==
  ASSUME Inv, mem.head["ready"] # NULL, mem' = SetState(mem, mem.head["ready"], "Running"),
         stack' = stack
  PROVE  \E Q2 : /\ Linked(mem', Q2) /\ Sleepers(mem', Q2, stack')
                 /\ JoinsHeld(mem'.state, owner, count)
                 /\ mem'.state[mem.head["ready"]] = "Running" /\ TQ!Next
<1> DEFINE t == mem.head["ready"]
           p0 == mem.prio[t]
<1>1. PICK Q : /\ Linked(mem, Q) /\ Sleepers(mem, Q, stack) /\ TypeOK
               /\ JoinsHeld(mem.state, owner, count)
  BY InvHolds
<1>2. Len(Q["ready"]) > 0 /\ t = Q["ready"][1] /\ t \in Threads /\ mem.state[t] = "Ready"
  BY <1>1, HeadReady
<1>3. /\ Chains(mem, Q) /\ "ready" \in Lists /\ "running" \in Lists
      /\ mem.state \in [Threads -> States] /\ mem.prio \in [Threads -> Prios]
      /\ StateIn("running") = "Running"
  BY <1>1, ListNames, MemoryFields DEF Linked, Chains, VmLists
<1>4. Leads(mem.prio, Q["ready"], t)
  BY <1>1, <1>2, FirstReady
<1> HIDE DEF t
<1>5. PICK Q2 : Moved(mem, Q, mem', Q2, t, "Running")
  <2>1. mem' = SetState(mem, t, "Running")
    BY DEF t
  <2>2. Movable(mem, Q, t)
    BY <1>2 DEF Movable
  <2> QED
    BY <1>1, <1>2, <2>1, <2>2, SetStateIs
<1>6. Linked(mem', Q2) /\ Chains(mem', Q2) /\ mem'.state = [mem.state EXCEPT ![t] = "Running"]
  BY <1>5 DEF Moved, Linked
<1>7. Sleepers(mem', Q2, stack')
  <2>1. Undisturbed(mem, Q, mem', Q2)
    BY <1>1, <1>2, <1>5, MovedKeeps
  <2> QED
    BY <1>1, <2>1, SleepersKept
<1>8. JoinsHeld(mem'.state, owner, count) /\ mem'.state[t] = "Running"
  BY <1>1, <1>2, <1>3, <1>6 DEF JoinsHeld, Dead
<1> DEFINE rdy == Fifos(mem.prio, Q["ready"])
           run == Q["running"]
           pd == Waiting(mem.prio, Q, stack)
<1>9. Seen(rdy, run, pd)
  BY <1>3, SeenIs
<1>10. p0 \in Prios /\ p0 \in Int /\ Prios \subseteq Int
  BY <1>2, <1>3, ConstantsAssumption
<1>11. /\ rdy[p0] = <<t>> \o Without(rdy[p0], t) /\ Without(rdy[p0], t) \in Seq(Threads)
       /\ \A y \in Prios : y > p0 => rdy[y] = <<>>
  BY <1>4, <1>10 DEF Leads, Fifos
<1>12. rdy[p0] # <<>> /\ Head(rdy[p0]) = t /\ Tail(rdy[p0]) = Without(rdy[p0], t)
  <2> DEFINE x == Without(rdy[p0], t)
  <2>1. x \in Seq(Threads) /\ t \in Threads
    BY <1>2, <1>11
  <2> HIDE DEF x
  <2>2. <<t>> \o x # <<>> /\ Head(<<t>> \o x) = t /\ Tail(<<t>> \o x) = x
    BY <2>1
  <2> QED
    BY <1>11, <2>2 DEF x
<1>13. Q2["running"] = Append(run, t)
  <2>1. Without(Q["running"], t) = Q["running"]
    <3>1. mem.state[t] # StateIn("running")
      BY <1>2, <1>3
    <3>2. ~Has(Q["running"], t)
      BY <1>1, <1>3, <3>1, NotIn
    <3> QED
      BY <3>2 DEF Without
  <2> QED
    BY <1>5, <2>1 DEF Moved
<1>14. Fifos(mem'.prio, Q2["ready"]) = [rdy EXCEPT ![p0] = Tail(@)]
  <2>1. \A p \in Prios : OfPrio(mem.prio, Q2["ready"], p) = Without(rdy[p], t)
    BY <1>5 DEF Moved, Fifos
  <2>2. ASSUME NEW p \in Prios, p # p0 PROVE Without(rdy[p], t) = rdy[p]
    <3>1. Q["ready"] \in Seq(Threads)
      BY <1>3, ListFacts
    <3>2. ~Has(OfPrio(mem.prio, Q["ready"], p), t)
      BY <2>2, <3>1, OfPrioHas
    <3> QED
      BY <3>2 DEF Without, Fifos
  <2>3. mem'.prio = mem.prio
    BY <1>5 DEF Moved
  <2>4. DOMAIN rdy = Prios
    BY DEF Fifos
  <2>5. Fifos(mem'.prio, Q2["ready"]) = [p \in Prios |-> Without(rdy[p], t)]
    BY <2>1, <2>3 DEF Fifos
  <2>6. rdy = [p \in Prios |-> rdy[p]]
    BY DEF Fifos
  <2> HIDE DEF rdy
  <2> QED
    BY <1>12, <2>2, <2>5, <2>6
<1>15. Waiting(mem'.prio, Q2, stack') = pd /\ mem'.prio = mem.prio
  BY <1>5, WaitingSame DEF Moved
<1> HIDE DEF rdy, run, pd, p0
<1>16. TQ!Dispatch(p0)
  BY <1>6, <1>9, <1>11, <1>12, <1>13, <1>14, <1>15, DispatchSeen
<1>17. TQ!Next
  BY <1>10, <1>16 DEF TQ!Next
<1> QED
  BY <1>6, <1>7, <1>8, <1>17 DEF t

LEMMA TurnStep == ASSUME Inv, Turn PROVE Queued
<1> DEFINE tb == mem.head["ready"]
<1>1. TypeOK /\ JoinsHeld(mem.state, owner, count) /\ stack \in [Blockers -> Seq(Threads)]
  BY DEF Inv
<1>2. CASE tb # NULL /\ current' = tb /\ mem' = SetState(mem, tb, "Running")
  <2>1. PICK Q2 : /\ Linked(mem', Q2) /\ Sleepers(mem', Q2, stack')
                  /\ JoinsHeld(mem'.state, owner, count)
                  /\ mem'.state[mem.head["ready"]] = "Running" /\ TQ!Next
    BY <1>2, Dispatched DEF Turn
  <2>2. tb \in Threads
    <3>1. PICK Q : Linked(mem, Q)
      BY InvHolds
    <3> QED
      BY <1>2, <3>1, HeadReady
  <2>3. TypeOK' /\ CurrentRuns'
    BY <1>1, <1>2, <2>1, <2>2 DEF Turn, TypeOK, CurrentRuns, Node
  <2>4. Inv'
    BY <1>1, <2>1, <2>3, InvNext DEF Turn
  <2> QED
    BY <2>1, <2>4 DEF Queued
<1>3. CASE current' = Candidate /\ UNCHANGED mem
  <2>1. TypeOK' /\ CurrentRuns' /\ JoinsHeld(mem.state, owner', count')
    BY <1>1, <1>3, CandidateRuns DEF Turn, TypeOK, CurrentRuns, Node
  <2> QED
    BY <1>3, <2>1, StillNext DEF Turn
<1> QED
  BY <1>2, <1>3 DEF Turn

\* A thread that sleeps nowhere, waits nowhere and does not run is not listed.
LEMMA Unlisted ==
  ASSUME NEW rdy, NEW run \in Seq(Threads), NEW pd, Seen(rdy, run, pd), NEW t, ~Has(run, t),
         \A p \in Prios : rdy[p] \in Seq(Threads) /\ ~Has(rdy[p], t),
         \A x \in Locks \cup Blockers : \A p \in Prios :
           pd[x][p] \in Seq(Threads) /\ ~Has(pd[x][p], t)
  PROVE  ~TQ!Listed(t)
<1> DEFINE vp == [x \in Locks \cup Blockers |-> ByPrio(IF x \in Locks THEN Nodes(x) ELSE stack[x])]
<1>1. t \notin TQ!Held(run)
  BY OutIs
<1>2. \A p \in Prios : t \notin TQ!Held(rdy[p])
  BY OutIs
<1>3. \A x \in Locks \cup Blockers : \A p \in Prios : t \notin TQ!Held(pd[x][p])
  BY OutIs
<1>4. ~TQ!In(t, rdy) /\ \A x \in Locks \cup Blockers : ~TQ!In(t, pd[x])
  BY <1>2, <1>3 DEF TQ!In
<1>5. t \notin TQ!Held(Nodes("running")) /\ ~TQ!In(t, ByPrio(Nodes("ready")))
  BY <1>1, <1>4 DEF Seen
<1>6. \A x \in Locks \cup Blockers : ~TQ!In(t, vp[x])
  BY <1>4 DEF Seen
<1> QED
  BY <1>5, <1>6 DEF TQ!Listed, TQ!Places

LEMMA UnlistedIs ==
  ASSUME NEW Q, Linked(mem, Q), Sleepers(mem, Q, stack), NEW t, Free(Q, t),
         mem.state[t] # "Blocked"
  PROVE  ~TQ!Listed(t)
<1>1. Chains(mem, Q) /\ \A l \in Lists : Q[l] \in Seq(Threads) /\ ~Has(Q[l], t)
  BY ListFacts DEF Linked, Free, Has
<1>2. \A b \in Blockers : stack[b] \in Seq(Threads) /\ ~Has(stack[b], t)
  BY DEF Sleepers, Asleep, Has
<1>3. \A q \in Seq(Threads) : ~Has(q, t) =>
        \A p \in Prios : Fifos(mem.prio, q)[p] \in Seq(Threads) /\ ~Has(Fifos(mem.prio, q)[p], t)
  <2> SUFFICES ASSUME NEW q \in Seq(Threads), ~Has(q, t), NEW p \in Prios
               PROVE  Fifos(mem.prio, q)[p] \in Seq(Threads) /\ ~Has(Fifos(mem.prio, q)[p], t)
    OBVIOUS
  <2>1. OfPrio(mem.prio, q, p) \in Seq(Threads) /\ ~Has(OfPrio(mem.prio, q, p), t)
    BY FiltersAre, OfPrioHas
  <2> QED
    BY <2>1 DEF Fifos
<1> DEFINE rdy == Fifos(mem.prio, Q["ready"])
           run == Q["running"]
           pd == Waiting(mem.prio, Q, stack)
<1>4. Seen(rdy, run, pd)
  BY <1>1, SeenIs
<1>5. \A p \in Prios : rdy[p] \in Seq(Threads) /\ ~Has(rdy[p], t)
  BY <1>1, <1>3, ListNames DEF VmLists
<1>6. ASSUME NEW x \in Locks \cup Blockers
      PROVE  \A p \in Prios : pd[x][p] \in Seq(Threads) /\ ~Has(pd[x][p], t)
  <2> DEFINE q == IF x \in Locks THEN Q[x] ELSE stack[x]
  <2>1. q \in Seq(Threads) /\ ~Has(q, t)
    BY <1>1, <1>2, ListNames
  <2>2. pd[x] = Fifos(mem.prio, q)
    BY DEF Waiting
  <2> HIDE DEF q, pd
  <2> QED
    BY <1>3, <2>1, <2>2
<1>7. run \in Seq(Threads) /\ ~Has(run, t)
  BY <1>1, ListNames DEF VmLists
<1> HIDE DEF rdy, run, pd
<1> QED
  BY <1>4, <1>5, <1>6, <1>7, Unlisted

\* The priority of a thread outside of q does not matter.
LEMMA OthersPrio ==
  \A prio, prio2, t : (\A u \in Threads : u # t => prio2[u] = prio[u]) =>
    \A q \in Seq(Threads) : ~Has(q, t) => \A p : OfPrio(prio2, q, p) = OfPrio(prio, q, p)
<1> SUFFICES ASSUME NEW prio, NEW prio2, NEW t, \A u \in Threads : u # t => prio2[u] = prio[u],
                    NEW q \in Seq(Threads), ~Has(q, t), NEW p
             PROVE  OfPrio(prio2, q, p) = OfPrio(prio, q, p)
  OBVIOUS
<1>1. \A i \in 1 .. Len(q) : q[i] \in Threads /\ q[i] # t
  BY SeqFacts DEF Has
<1>2. \A i \in 1 .. Len(q) : prio2[q[i]] = prio[q[i]]
  BY <1>1
<1> QED
  BY <1>2, OfPrioSame

LEMMA CreateStep ==
  ASSUME Inv, NEW t \in Threads, NEW p \in Prios, Create(t, p), phase' = "sched"
  PROVE  Queued
<1> DEFINE m1 == [mem EXCEPT !.prio[t] = p, !.next[t] = NULL, !.prev[t] = NULL,
                             !.state[t] = "Start"]
<1>1. PICK Q : /\ Linked(mem, Q) /\ Sleepers(mem, Q, stack) /\ TypeOK
               /\ JoinsHeld(mem.state, owner, count) /\ stack \in [Blockers -> Seq(Threads)]
  BY InvHolds
<1>2. /\ Chains(mem, Q) /\ mem \in Memory /\ mem.state[t] = "None"
      /\ mem.state \in [Threads -> States] /\ mem.prio \in [Threads -> Prios]
      /\ mem.next \in [Threads -> Node] /\ mem.prev \in [Threads -> Node]
  BY <1>1, MemoryFields DEF Linked, Chains, Create
<1>3. Free(Q, t)
  <2>1. \A x \in Locks : ~Has(Q[x], t)
    BY <1>1, <1>2, NotIn, ListNames
  <2> QED
    BY <1>1, <1>2, <2>1, FreeIs
<1>4. ~TQ!Listed(t)
  BY <1>1, <1>2, <1>3, UnlistedIs
<1>5. /\ m1 \in Memory /\ m1.head = mem.head /\ m1.tail = mem.tail
      /\ m1.next = [mem.next EXCEPT ![t] = NULL] /\ m1.prev = [mem.prev EXCEPT ![t] = NULL]
      /\ m1.state = [mem.state EXCEPT ![t] = "Start"] /\ m1.prio = [mem.prio EXCEPT ![t] = p]
  BY <1>2, NullNode DEF Memory, States
<1> HIDE DEF m1
<1>6. OnlyAt(mem, m1, t) /\ m1.state[t] = "Start"
  BY <1>2, <1>5 DEF OnlyAt
<1>7. Linked(m1, Q)
  <2>1. Loose(mem, Q, t)
    BY <1>1, <1>3, LooseFrom
  <2>2. Loose(m1, Q, t)
    BY <1>6, <2>1, LooseKept
  <2> QED
    BY <1>6, <2>2, LooseOff
<1>8. mem' = SetState(m1, t, "Ready")
  BY DEF Create, m1
<1>9. PICK Q2 : Moved(m1, Q, mem', Q2, t, "Ready")
  BY <1>3, <1>6, <1>7, <1>8, SetStateIs DEF Movable
<1>10. /\ Linked(mem', Q2) /\ Chains(mem', Q2) /\ mem'.state = [mem.state EXCEPT ![t] = "Ready"]
       /\ mem'.prio = [mem.prio EXCEPT ![t] = p]
  BY <1>2, <1>5, <1>9 DEF Moved, Linked
<1>11. Sleepers(mem', Q2, stack')
  <2>1. Undisturbed(m1, Q, mem', Q2)
    BY <1>6, <1>7, <1>9, MovedKeeps
  <2>2. Undisturbed(mem, Q, mem', Q2)
    BY <1>2, <1>5, <2>1 DEF Undisturbed
  <2>3. Sleepers(mem', Q2, stack)
    BY <1>1, <2>2, SleepersKept
  <2> QED
    BY <2>3 DEF Create
<1>12. TypeOK' /\ CurrentRuns'
  BY <1>1, ListNames DEF Create, Lock, TypeOK, CurrentRuns, Node, Locks
<1>13. JoinsHeld(mem'.state, owner', count')
  BY <1>1, <1>2, <1>10 DEF JoinsHeld, Create, Lock, Dead, TypeOK, Locks
<1>14. Inv'
  BY <1>1, <1>10, <1>11, <1>12, <1>13, InvNext DEF Create
<1> DEFINE rdy == Fifos(mem.prio, Q["ready"])
           run == Q["running"]
           pd == Waiting(mem.prio, Q, stack)
<1>15. Seen(rdy, run, pd)
  BY <1>2, SeenIs
<1>16. \A q \in Seq(Threads) : ~Has(q, t) => \A y : OfPrio(mem'.prio, q, y) = OfPrio(mem.prio, q, y)
  <2>1. \A u \in Threads : u # t => mem'.prio[u] = mem.prio[u]
    BY <1>2, <1>10
  <2> QED
    BY <2>1, OthersPrio
<1>17. \A l \in Lists : Q[l] \in Seq(Threads) /\ ~Has(Q[l], t)
  BY <1>2, <1>3, ListFacts DEF Free, Has
<1>18. Q2["running"] = run
  BY <1>9, <1>17, ListNames DEF Moved, Without, VmLists
<1>19. Fifos(mem'.prio, Q2["ready"]) = [rdy EXCEPT ![p] = Append(@, t)]
  <2>1. ASSUME NEW y \in Prios
        PROVE  OfPrio(mem'.prio, Q2["ready"], y) = IF y = p THEN Append(rdy[y], t) ELSE rdy[y]
    <3>1. Q["ready"] \in Seq(Threads) /\ ~Has(Q["ready"], t)
      BY <1>17, ListNames DEF VmLists
    <3>2. OfPrio(mem'.prio, Q["ready"], y) = rdy[y] /\ mem'.prio = m1.prio /\ m1.prio[t] = p
      BY <1>2, <1>5, <1>10, <1>16, <3>1 DEF Fifos
    <3>3. ~Has(OfPrio(m1.prio, Q["ready"], y), t)
      BY <3>1, OfPrioHas
    <3>4. Without(OfPrio(m1.prio, Q["ready"], y), t) = rdy[y]
      BY <3>2, <3>3 DEF Without
    <3> HIDE DEF rdy
    <3>5. OfPrio(m1.prio, Q2["ready"], y) =
            IF m1.prio[t] = y THEN Append(Without(OfPrio(m1.prio, Q["ready"], y), t), t)
            ELSE Without(OfPrio(m1.prio, Q["ready"], y), t)
      BY <1>9 DEF Moved
    <3> QED
      BY <3>2, <3>4, <3>5
  <2>2. rdy = [y \in Prios |-> rdy[y]]
    BY DEF Fifos
  <2> HIDE DEF rdy
  <2> QED
    BY <2>1, <2>2 DEF Fifos
<1>20. Waiting(mem'.prio, Q2, stack') = pd
  <2>1. stack' = stack /\ \A x \in Locks : Q2[x] = Q[x]
    BY <1>9 DEF Moved, Create
  <2>2. ASSUME NEW x \in Locks \cup Blockers
        PROVE  Fifos(mem'.prio, IF x \in Locks THEN Q2[x] ELSE stack[x])
                 = Fifos(mem.prio, IF x \in Locks THEN Q[x] ELSE stack[x])
    <3> DEFINE q == IF x \in Locks THEN Q[x] ELSE stack[x]
    <3>1. q \in Seq(Threads) /\ ~Has(q, t)
      BY <1>1, <1>2, <1>17, ListNames DEF Sleepers, Asleep, Has
    <3>2. (IF x \in Locks THEN Q2[x] ELSE stack[x]) = q
      BY <2>1
    <3> HIDE DEF q
    <3>3. Fifos(mem'.prio, q) = Fifos(mem.prio, q)
      BY <1>16, <3>1 DEF Fifos
    <3> QED
      BY <3>2, <3>3 DEF q
  <2> QED
    BY <2>1, <2>2 DEF Waiting
<1> HIDE DEF rdy, run, pd
<1>21. TQ!Enter(t, p)
  <2>1. mem'.prio = [mem.prio EXCEPT ![t] = p] /\ Chains(mem', Q2)
    BY <1>10
  <2>2. Enqueued(Fifos(mem'.prio, Q2["ready"]), rdy, p, t)
    BY <1>19 DEF Enqueued
  <2> QED
    BY <1>4, <1>15, <1>18, <1>20, <2>1, <2>2, EnterSeen
<1>22. TQ!Next
  BY <1>21 DEF TQ!Next
<1> QED
  BY <1>14, <1>22 DEF Queued

\* What the current thread is when it executes an opcode.
LEMMA CurrentIs ==
  ASSUME Inv, phase = "exec"
  PROVE  \E Q : /\ Linked(mem, Q) /\ Chains(mem, Q) /\ Sleepers(mem, Q, stack) /\ TypeOK
                /\ JoinsHeld(mem.state, owner, count) /\ stack \in [Blockers -> Seq(Threads)]
                /\ current \in Threads /\ mem.state[current] = "Running"
                /\ mem.state \in [Threads -> States] /\ mem.prio \in [Threads -> Prios]
                /\ Q["running"] \in Seq(Threads) /\ Has(Q["running"], current)
<1>1. PICK Q : /\ Linked(mem, Q) /\ Sleepers(mem, Q, stack) /\ TypeOK /\ CurrentRuns
               /\ JoinsHeld(mem.state, owner, count) /\ stack \in [Blockers -> Seq(Threads)]
  BY InvHolds
<1>2. Chains(mem, Q) /\ mem.state \in [Threads -> States] /\ mem.prio \in [Threads -> Prios]
  BY <1>1, MemoryFields DEF Linked, Chains
<1>3. current \in Threads /\ mem.state[current] = "Running"
  BY <1>1 DEF CurrentRuns
<1>4. Q["running"] \in Seq(Threads) /\ Has(Q["running"], current)
  BY <1>1, <1>2, <1>3, ListNames, ListFacts DEF Linked, Has, VmLists
<1> QED
  BY <1>1, <1>2, <1>3, <1>4

LEMMA BlockOnStep ==
  ASSUME Inv, phase = "exec", phase' = "sched", NEW l \in Locks, BlockOn(l), stack' = stack
  PROVE  Queued
<1> DEFINE t == current
           p0 == mem.prio[t]
<1>1. PICK Q : /\ Linked(mem, Q) /\ Chains(mem, Q) /\ Sleepers(mem, Q, stack) /\ TypeOK
               /\ JoinsHeld(mem.state, owner, count) /\ stack \in [Blockers -> Seq(Threads)]
               /\ t \in Threads /\ mem.state[t] = "Running"
               /\ mem.state \in [Threads -> States] /\ mem.prio \in [Threads -> Prios]
               /\ Q["running"] \in Seq(Threads) /\ Has(Q["running"], t)
  BY CurrentIs
<1>2. PICK Q2 : Waits(mem, Q, mem', Q2, t, l)
  BY <1>1, WaitsIs DEF BlockOn
<1>3. /\ Linked(mem', Q2) /\ Chains(mem', Q2) /\ mem'.prio = mem.prio
      /\ mem'.state = [mem.state EXCEPT ![t] = "Blocked"]
  BY <1>2 DEF Waits, Linked
<1>4. Sleepers(mem', Q2, stack')
  <2>1. Undisturbed(mem, Q, mem', Q2)
    BY <1>1, <1>2, WaitsKeeps
  <2> QED
    BY <1>1, <2>1, SleepersKept
<1>5. TypeOK' /\ CurrentRuns'
  BY <1>1 DEF BlockOn, TypeOK, CurrentRuns, Node
<1>6. JoinsHeld(mem'.state, owner', count')
  BY <1>1, <1>3 DEF JoinsHeld, BlockOn, Dead
<1>7. Inv'
  BY <1>1, <1>3, <1>4, <1>5, <1>6, InvNext
<1> DEFINE rdy == Fifos(mem.prio, Q["ready"])
           run == Q["running"]
           pd == Waiting(mem.prio, Q, stack)
<1>8. Seen(rdy, run, pd)
  BY <1>1, SeenIs
<1>9. Fifos(mem'.prio, Q2["ready"]) = rdy
  BY <1>2, <1>3 DEF Fifos, Waits
<1>10. Q2["running"] = Without(run, t)
  BY <1>2 DEF Waits
<1>11. Waiting(mem'.prio, Q2, stack') =
         [pd EXCEPT ![l][p0] = IF l \in Locks THEN Append(@, t) ELSE <<t>> \o @]
  <2> DEFINE pd2 == Waiting(mem.prio, Q2, stack)
             new == [Fifos(mem.prio, Q[l]) EXCEPT ![p0] = Append(@, t)]
  <2>1. \A x \in Locks \ {l} : Q2[x] = Q[x]
    BY <1>2 DEF Waits
  <2>2. \A p : OfPrio(mem.prio, Q2[l], p) = IF p0 = p THEN Append(OfPrio(mem.prio, Q[l], p), t)
                                           ELSE OfPrio(mem.prio, Q[l], p)
    BY <1>2 DEF Waits, Gains
  <2>3. Fifos(mem.prio, Q2[l]) = new
    <3> DEFINE fo == Fifos(mem.prio, Q[l])
    <3>1. \A p \in Prios : OfPrio(mem.prio, Q2[l], p) = IF p0 = p THEN Append(fo[p], t) ELSE fo[p]
      BY <2>2 DEF Fifos
    <3>2. fo = [p \in Prios |-> fo[p]]
      BY DEF Fifos
    <3> HIDE DEF fo, p0
    <3>3. [fo EXCEPT ![p0] = Append(@, t)] =
            [p \in Prios |-> IF p0 = p THEN Append(fo[p], t) ELSE fo[p]]
      BY <3>2
    <3>4. Fifos(mem.prio, Q2[l]) = [p \in Prios |-> IF p0 = p THEN Append(fo[p], t) ELSE fo[p]]
      BY <3>1 DEF Fifos
    <3> QED
      BY <3>3, <3>4 DEF fo
  <2>4. pd[l] = Fifos(mem.prio, Q[l])
    BY DEF Waiting
  <2> HIDE DEF p0
  <2>5. [pd EXCEPT ![l][p0] = IF l \in Locks THEN Append(@, t) ELSE <<t>> \o @] =
          [pd EXCEPT ![l] = new]
    BY <2>4
  <2> HIDE DEF new
  <2>6. pd2 = [pd EXCEPT ![l] = new]
    BY <2>1, <2>3 DEF Waiting
  <2> QED
    BY <1>3, <2>5, <2>6
<1>12. TQ!Wait(t, l)
  <2>1. run \in Seq(Threads) /\ Has(run, t)
    BY <1>1
  <2>2. Behind(Waiting(mem'.prio, Q2, stack'), pd, l, mem.prio[t], t)
    BY <1>11 DEF Behind
  <2> HIDE DEF t, rdy, run, pd
  <2> QED
    BY <1>3, <1>8, <1>9, <1>10, <2>1, <2>2, WaitSeen
<1>13. TQ!Next
  BY <1>1, <1>12 DEF TQ!Next, TQ!Places
<1> QED
  BY <1>7, <1>13 DEF Queued

LEMMA LockStep ==
  ASSUME Inv, phase = "exec", phase' = "sched", UNCHANGED <<mem, stack>>, LockGranted,
         NEW l \in Mutexes, Lock(l, current)
  PROVE  Queued
<1>1. TypeOK /\ JoinsHeld(mem.state, owner, count) /\ current \in Threads /\ l \notin Threads
  BY CurrentIs, ConstantsAssumption
<1>2. owner' \in [Locks -> Node] /\ count' \in [Locks -> Nat]
  BY <1>1 DEF TypeOK, Lock, Locks, Node
<1>3. \A t \in Threads : owner'[t] = owner[t] /\ count'[t] = count[t]
  BY <1>1 DEF TypeOK, Lock, Locks
<1>4. TypeOK' /\ CurrentRuns'
  BY <1>1, <1>2 DEF TypeOK, CurrentRuns, LockGranted
<1>5. JoinsHeld(mem.state, owner', count')
  BY <1>1, <1>3 DEF JoinsHeld
<1> QED
  BY <1>4, <1>5, StillNext

LEMMA LockMtxStep == ASSUME Inv, LockMtx PROVE Queued
<1>1. PICK l \in Mutexes : /\ Locking(l)
                           /\ \/ Lock(l, current) /\ LockGranted /\ UNCHANGED mem
                              \/ BlockOn(l)
  BY DEF LockMtx
<1>2. phase = "exec" /\ phase' = "sched" /\ stack' = stack /\ l \in Locks
  BY <1>1 DEF Locking, LockMtx, Locks
<1>3. CASE Lock(l, current) /\ LockGranted /\ UNCHANGED mem
  BY <1>2, <1>3, LockStep
<1>4. CASE BlockOn(l)
  BY <1>2, <1>4, BlockOnStep
<1> QED
  BY <1>1, <1>3, <1>4

LEMMA NobodyWaits ==
  ASSUME NEW prio, NEW Q, NEW Q2, NEW st, NEW l \in Locks, Q2[l] = <<>>,
         \A x \in Locks \ {l} : Q2[x] = Q[x]
  PROVE  Emptied(Waiting(prio, Q2, st), Waiting(prio, Q, st), l)
<1>1. Fifos(prio, <<>>) = [p \in Prios |-> <<>>]
  BY OfPrioEmpty DEF Fifos
<1> DEFINE none == [p \in Prios |-> <<>>]
<1> HIDE DEF none
<1>2. Waiting(prio, Q2, st) = [Waiting(prio, Q, st) EXCEPT ![l] = none]
  BY <1>1 DEF Waiting, none
<1> QED
  BY <1>2 DEF Emptied, none

LEMMA WakeStep ==
  ASSUME Inv, NEW l \in Locks, mem' = WakeAll(mem, l), stack' = stack
  PROVE  \E Q2 : /\ Linked(mem', Q2) /\ Sleepers(mem', Q2, stack')
                 /\ \A u \in Threads : Dead(mem'.state[u]) <=> Dead(mem.state[u])
                 /\ TQ!Next
<1>1. PICK Q : /\ Linked(mem, Q) /\ Sleepers(mem, Q, stack)
  BY InvHolds
<1>2. PICK Q2 : Woken(mem, Q, mem', Q2, l) /\ Q2[l] = <<>>
  BY <1>1, WakeAllIs
<1>3. /\ Linked(mem', Q2) /\ Chains(mem', Q2) /\ mem'.prio = mem.prio /\ Chains(mem, Q)
      /\ \A u \in Threads : Dead(mem'.state[u]) <=> Dead(mem.state[u])
  <2>1. \A u \in Threads : Dead(mem'.state[u]) <=> Dead(mem.state[u])
    BY <1>2, WokenLives
  <2> QED
    BY <1>1, <1>2, <2>1 DEF Woken, Linked
<1>4. Sleepers(mem', Q2, stack')
  <2>1. Undisturbed(mem, Q, mem', Q2)
    BY <1>1, <1>2, WokenKeeps
  <2> QED
    BY <1>1, <2>1, SleepersKept
<1> DEFINE rdy == Fifos(mem.prio, Q["ready"])
           run == Q["running"]
           pd == Waiting(mem.prio, Q, stack)
<1>5. Seen(rdy, run, pd)
  BY <1>3, SeenIs
<1>6. Q2["running"] = run
  BY <1>2 DEF Woken
<1>7. Emptied(Waiting(mem'.prio, Q2, stack'), pd, l)
  <2>1. Emptied(Waiting(mem.prio, Q2, stack), Waiting(mem.prio, Q, stack), l)
    BY <1>2, NobodyWaits DEF Woken
  <2> QED
    BY <1>3, <2>1
<1>8. Fifos(mem'.prio, Q2["ready"]) = [p \in Prios |-> rdy[p] \o pd[l][p]]
  <2>1. ASSUME NEW p \in Prios PROVE OfPrio(mem.prio, Q2["ready"], p) = rdy[p] \o pd[l][p]
    <3> DEFINE r == OfPrio(mem.prio, Q2["ready"], p)
    <3>1. r \o OfPrio(mem.prio, Q2[l], p) =
            OfPrio(mem.prio, Q["ready"], p) \o OfPrio(mem.prio, Q[l], p)
      BY <1>2 DEF Woken
    <3>2. OfPrio(mem.prio, Q2[l], p) = <<>>
      BY <1>2, OfPrioEmpty
    <3>3. r \in Seq(Threads)
      <4>1. Q2["ready"] \in Seq(Threads)
        BY <1>3, ListNames, ListFacts DEF VmLists
      <4> QED
        BY <4>1, FiltersAre
    <3> HIDE DEF r
    <3>4. r \o <<>> = r
      BY <3>3
    <3>5. rdy[p] = OfPrio(mem.prio, Q["ready"], p) /\ pd[l][p] = OfPrio(mem.prio, Q[l], p)
      BY DEF Fifos, Waiting
    <3> HIDE DEF rdy, pd
    <3> QED
      BY <3>1, <3>2, <3>4, <3>5 DEF r
  <2> HIDE DEF rdy, pd
  <2> QED
    BY <1>3, <2>1 DEF Fifos
<1> HIDE DEF rdy, run, pd
<1>9. TQ!Wake(l)
  BY <1>3, <1>5, <1>6, <1>7, <1>8, WakeSeen
<1>10. TQ!Next
  BY <1>9 DEF TQ!Next, TQ!Places
<1> QED
  BY <1>3, <1>4, <1>10

LEMMA UnlockMtxStep == ASSUME Inv, UnlockMtx PROVE Queued
<1>1. PICK l \in Mutexes : Unlock(l, mem)
  BY DEF UnlockMtx
<1>2. /\ TypeOK /\ JoinsHeld(mem.state, owner, count) /\ l \notin Threads /\ l \in Locks
      /\ stack \in [Blockers -> Seq(Threads)] /\ stack' = stack
  BY ConstantsAssumption DEF Inv, Locks, UnlockMtx
<1>3. owner' \in [Locks -> Node] /\ count' \in [Locks -> Nat]
  BY <1>1, <1>2, NullNode DEF TypeOK, Unlock
<1>4. \A t \in Threads : owner'[t] = owner[t] /\ count'[t] = count[t]
  BY <1>1, <1>2 DEF TypeOK, Unlock, Locks
<1>5. TypeOK' /\ CurrentRuns'
  BY <1>2, <1>3 DEF TypeOK, CurrentRuns, UnlockMtx, Fresh
<1>6. JoinsHeld(mem.state, owner', count')
  BY <1>2, <1>4 DEF JoinsHeld
<1>7. CASE mem' = mem
  BY <1>2, <1>5, <1>6, <1>7, StillNext
<1>8. CASE mem' = WakeAll(mem, l)
  <2>1. PICK Q2 : /\ Linked(mem', Q2) /\ Sleepers(mem', Q2, stack')
                  /\ \A u \in Threads : Dead(mem'.state[u]) <=> Dead(mem.state[u])
                  /\ TQ!Next
    BY <1>2, <1>8, WakeStep
  <2>2. JoinsHeld(mem'.state, owner', count')
    BY <1>6, <2>1 DEF JoinsHeld
  <2>3. Inv'
    BY <1>2, <1>5, <2>1, <2>2, InvNext
  <2> QED
    BY <2>1, <2>3 DEF Queued
<1> QED
  BY <1>1, <1>7, <1>8 DEF Unlock

LEMMA JoinThreadStep == ASSUME Inv, JoinThread PROVE Queued
<1>1. PICK j \in Threads :
        /\ Locking(j)
        /\ \/ owner[j] = NULL /\ Unlock(j, mem) /\ LockGranted
           \/ LockGranted /\ UNCHANGED <<mem, owner, count>>
           \/ BlockOn(j)
  BY DEF JoinThread
<1>2. /\ TypeOK /\ JoinsHeld(mem.state, owner, count) /\ j \in Locks
      /\ phase = "exec" /\ phase' = "sched" /\ stack' = stack
      /\ stack \in [Blockers -> Seq(Threads)]
  BY <1>1 DEF Inv, Locks, JoinThread, Locking
<1>3. CASE BlockOn(j)
  BY <1>2, <1>3, BlockOnStep
<1>4. CASE LockGranted /\ UNCHANGED <<mem, owner, count>>
  <2>1. TypeOK' /\ CurrentRuns' /\ JoinsHeld(mem.state, owner', count')
    BY <1>2, <1>4 DEF TypeOK, CurrentRuns, LockGranted
  <2> QED
    BY <1>2, <1>4, <2>1, StillNext
<1>5. CASE owner[j] = NULL /\ Unlock(j, mem) /\ LockGranted
  <2>1. Dead(mem.state[j]) /\ count[j] = 0
    BY <1>2, <1>5, NullNode DEF JoinsHeld
  <2>2. /\ count' = [count EXCEPT ![j] = 0] /\ owner' = [owner EXCEPT ![j] = NULL]
        /\ mem' = WakeAll(mem, j)
    BY <1>5, <2>1 DEF Unlock
  <2>3. PICK Q2 : /\ Linked(mem', Q2) /\ Sleepers(mem', Q2, stack')
                  /\ \A u \in Threads : Dead(mem'.state[u]) <=> Dead(mem.state[u])
                  /\ TQ!Next
    BY <1>2, <2>2, WakeStep
  <2>4. JoinsHeld(mem'.state, owner', count')
    BY <1>2, <2>1, <2>2, <2>3 DEF JoinsHeld, TypeOK
  <2>5. TypeOK' /\ CurrentRuns'
    BY <1>2, <1>5, <2>2, NullNode DEF TypeOK, CurrentRuns, LockGranted
  <2>6. Inv'
    BY <1>2, <2>3, <2>4, <2>5, InvNext
  <2> QED
    BY <2>3, <2>6 DEF Queued
<1> QED
  BY <1>1, <1>3, <1>4, <1>5

LEMMA KillStep ==
  ASSUME Inv, NEW v \in Threads, mem.state[v] \in {"Ready", "Running"}, Kill(v), phase' = "sched"
  PROVE  Queued
<1> DEFINE m1 == SetState(mem, v, "Zombie")
<1>1. PICK Q : /\ Linked(mem, Q) /\ Sleepers(mem, Q, stack) /\ TypeOK
               /\ JoinsHeld(mem.state, owner, count) /\ stack \in [Blockers -> Seq(Threads)]
  BY InvHolds
<1>2. /\ Chains(mem, Q) /\ mem.state \in [Threads -> States] /\ mem.prio \in [Threads -> Prios]
      /\ "ready" \in Lists /\ "running" \in Lists /\ v \in Locks
      /\ Q["running"] \in Seq(Threads) /\ Q["ready"] \in Seq(Threads)
  <2>1. Chains(mem, Q) /\ "ready" \in Lists /\ "running" \in Lists /\ v \in Locks
    BY <1>1, ListNames DEF Linked, VmLists, Locks
  <2> QED
    BY <2>1, MemoryFields, ListFacts DEF Chains
<1>3. PICK Q1 : Moved(mem, Q, m1, Q1, v, "Zombie")
  BY <1>1, SetStateIs DEF Movable
<1> HIDE DEF m1
<1>4. /\ Linked(m1, Q1) /\ m1.prio = mem.prio /\ m1.state = [mem.state EXCEPT ![v] = "Zombie"]
      /\ Q1["running"] = Without(Q["running"], v) /\ \A x \in Locks : Q1[x] = Q[x]
  BY <1>3 DEF Moved
<1>5. ~Dead(mem.state[v])
  BY DEF Dead
<1>6. /\ count' = [count EXCEPT ![v] = 0] /\ owner' = [owner EXCEPT ![v] = NULL]
      /\ mem' = WakeAll(m1, v)
  <2>1. count[v] = 1
    BY <1>1, <1>5 DEF JoinsHeld
  <2>2. Unlock(v, m1)
    BY DEF Kill, m1
  <2> QED
    BY <2>1, <2>2 DEF Unlock
<1>7. PICK Q2 : Woken(m1, Q1, mem', Q2, v) /\ Q2[v] = <<>>
  BY <1>2, <1>4, <1>6, WakeAllIs
<1>8. /\ Linked(mem', Q2) /\ Chains(mem', Q2) /\ mem'.prio = mem.prio
      /\ Q2["running"] = Without(Q["running"], v) /\ \A x \in Locks \ {v} : Q2[x] = Q[x]
  BY <1>4, <1>7 DEF Woken, Linked
<1>9. Sleepers(mem', Q2, stack')
  <2>1. Undisturbed(mem, Q, m1, Q1)
    BY <1>1, <1>3, MovedKeeps
  <2>2. Undisturbed(m1, Q1, mem', Q2)
    BY <1>2, <1>4, <1>7, WokenKeeps
  <2>3. Undisturbed(mem, Q, mem', Q2)
    BY <2>1, <2>2 DEF Undisturbed
  <2>4. Sleepers(mem', Q2, stack)
    BY <1>1, <2>3, SleepersKept
  <2> QED
    BY <2>4 DEF Kill
<1>10. TypeOK' /\ CurrentRuns'
  BY <1>1, <1>6, NullNode DEF Kill, TypeOK, CurrentRuns, Node
<1>11. JoinsHeld(mem'.state, owner', count')
  <2>1. \A u \in Threads : Dead(mem'.state[u]) <=> Dead(m1.state[u])
    BY <1>7, WokenLives
  <2>2. \A u \in Threads : Dead(mem'.state[u]) <=> Dead(mem.state[u]) \/ u = v
    BY <1>2, <1>4, <2>1 DEF Dead
  <2> QED
    BY <1>1, <1>2, <1>6, <2>2 DEF JoinsHeld, TypeOK
<1>12. Inv'
  BY <1>1, <1>8, <1>9, <1>10, <1>11, InvNext DEF Kill
<1> DEFINE rdy == Fifos(mem.prio, Q["ready"])
           run == Q["running"]
           pd == Waiting(mem.prio, Q, stack)
<1>13. Seen(rdy, run, pd)
  BY <1>2, SeenIs
<1>14. Emptied(Waiting(mem'.prio, Q2, stack'), pd, v)
  <2>1. Emptied(Waiting(mem.prio, Q2, stack), Waiting(mem.prio, Q, stack), v)
    BY <1>2, <1>7, <1>8, NobodyWaits
  <2> QED
    BY <1>8, <2>1 DEF Kill
<1>15. Fifos(mem'.prio, Q2["ready"]) = [p \in Prios |-> Without(rdy[p], v) \o pd[v][p]]
  <2>1. ASSUME NEW p \in Prios
        PROVE  OfPrio(mem.prio, Q2["ready"], p) = Without(rdy[p], v) \o pd[v][p]
    <3> DEFINE r == OfPrio(mem.prio, Q2["ready"], p)
    <3>1. r \o OfPrio(mem.prio, Q2[v], p) =
            OfPrio(mem.prio, Q1["ready"], p) \o OfPrio(mem.prio, Q1[v], p)
      BY <1>4, <1>7 DEF Woken
    <3>2. OfPrio(mem.prio, Q2[v], p) = <<>>
      BY <1>7, OfPrioEmpty
    <3>3. r \in Seq(Threads)
      <4>1. Q2["ready"] \in Seq(Threads)
        BY <1>2, <1>8, ListFacts
      <4> QED
        BY <4>1, FiltersAre
    <3>4. OfPrio(mem.prio, Q1["ready"], p) = Without(OfPrio(mem.prio, Q["ready"], p), v)
      BY <1>3 DEF Moved
    <3> HIDE DEF r
    <3>5. r \o <<>> = r
      BY <3>3
    <3>6. rdy[p] = OfPrio(mem.prio, Q["ready"], p) /\ pd[v][p] = OfPrio(mem.prio, Q[v], p)
      BY <1>2 DEF Fifos, Waiting
    <3>7. Q1[v] = Q[v]
      BY <1>2, <1>4
    <3> HIDE DEF rdy, pd
    <3> QED
      BY <3>1, <3>2, <3>4, <3>5, <3>6, <3>7 DEF r
  <2> HIDE DEF rdy, pd
  <2> QED
    BY <1>8, <2>1 DEF Fifos
<1>16. run \in Seq(Threads) /\ rdy \in [Prios -> Seq(Threads)]
  <2>1. \A p \in Prios : OfPrio(mem.prio, Q["ready"], p) \in Seq(Threads)
    BY <1>2, FiltersAre
  <2> QED
    BY <1>2, <2>1 DEF Fifos
<1>17. Has(run, v) \/ \E p \in Prios : Has(rdy[p], v)
  <2>1. Has(Q["running"], v) \/ Has(Q["ready"], v)
    BY <1>1, ListNames DEF Linked, Has, VmLists
  <2>2. Has(Q["ready"], v) => Has(OfPrio(mem.prio, Q["ready"], mem.prio[v]), v)
    BY <1>2, OfPrioHas
  <2>3. mem.prio[v] \in Prios
    BY <1>2
  <2> QED
    BY <2>1, <2>2, <2>3 DEF Fifos
<1> HIDE DEF rdy, pd
<1>18. TQ!Leave(v)
  <2>1. Q2["running"] = Without(run, v)
    BY <1>8
  <2> HIDE DEF run
  <2> QED
    BY <1>8, <1>13, <1>14, <1>15, <1>16, <1>17, <2>1, LeaveSeen
<1>19. TQ!Next
  BY <1>18 DEF TQ!Next
<1> QED
  BY <1>12, <1>19 DEF Queued

LEMMA DieStep == ASSUME Inv, Die PROVE Queued
<1>1. current \in Threads /\ mem.state[current] = "Running"
  BY CurrentIs DEF Die, Fresh
<1> QED
  BY <1>1, KillStep DEF Die, Fresh

LEMMA KillThreadStep ==
  ASSUME Inv, KillStates \subseteq {"Ready", "Running"}, KillThread
  PROVE  Queued
<1>1. PICK v \in Threads : mem.state[v] \in KillStates /\ Kill(v)
  BY DEF KillThread
<1> QED
  BY <1>1, KillStep DEF KillThread, Fresh

LEMMA YieldStep == ASSUME Inv, Yield PROVE Queued
<1> DEFINE t == current
           p0 == mem.prio[t]
<1>1. PICK Q : /\ Linked(mem, Q) /\ Chains(mem, Q) /\ Sleepers(mem, Q, stack) /\ TypeOK
               /\ JoinsHeld(mem.state, owner, count) /\ stack \in [Blockers -> Seq(Threads)]
               /\ t \in Threads /\ mem.state[t] = "Running"
               /\ mem.state \in [Threads -> States] /\ mem.prio \in [Threads -> Prios]
               /\ Q["running"] \in Seq(Threads) /\ Has(Q["running"], t)
  BY CurrentIs DEF Yield, Fresh
<1>2. PICK Q2 : Moved(mem, Q, mem', Q2, t, "Ready")
  BY <1>1, SetStateIs DEF Yield, Movable
<1>3. /\ Linked(mem', Q2) /\ Chains(mem', Q2) /\ mem'.prio = mem.prio
      /\ mem'.state = [mem.state EXCEPT ![t] = "Ready"]
      /\ Q2["running"] = Without(Q["running"], t) /\ \A x \in Locks : Q2[x] = Q[x]
  BY <1>2 DEF Moved, Linked
<1>4. Sleepers(mem', Q2, stack')
  <2>1. Undisturbed(mem, Q, mem', Q2)
    BY <1>1, <1>2, MovedKeeps
  <2>2. Sleepers(mem', Q2, stack)
    BY <1>1, <2>1, SleepersKept
  <2> QED
    BY <2>2 DEF Yield
<1>5. TypeOK' /\ CurrentRuns'
  BY <1>1 DEF Yield, Fresh, TypeOK, CurrentRuns, Node
<1>6. JoinsHeld(mem'.state, owner', count')
  BY <1>1, <1>3 DEF JoinsHeld, Yield, Dead
<1>7. Inv'
  BY <1>1, <1>3, <1>4, <1>5, <1>6, InvNext DEF Yield
<1> DEFINE rdy == Fifos(mem.prio, Q["ready"])
           run == Q["running"]
           pd == Waiting(mem.prio, Q, stack)
<1>8. Seen(rdy, run, pd)
  BY <1>1, SeenIs
<1>9. \A p \in Prios :
        OfPrio(mem.prio, Q2["ready"], p) = IF p0 = p THEN Append(rdy[p], t) ELSE rdy[p]
  <2>1. "ready" \in Lists /\ mem.state[t] # StateIn("ready")
    BY <1>1, ListNames DEF VmLists
  <2>2. ~Has(Q["ready"], t) /\ Q["ready"] \in Seq(Threads)
    BY <1>1, <2>1, NotIn, ListFacts
  <2>3. ASSUME NEW p
        PROVE  Without(OfPrio(mem.prio, Q["ready"], p), t) = OfPrio(mem.prio, Q["ready"], p)
    <3>1. ~Has(OfPrio(mem.prio, Q["ready"], p), t)
      BY <2>2, OfPrioHas
    <3> QED
      BY <3>1 DEF Without
  <2> QED
    BY <1>2, <2>3 DEF Moved, Fifos
<1>10. Fifos(mem'.prio, Q2["ready"]) = [rdy EXCEPT ![p0] = Append(@, t)]
  <2>1. rdy = [p \in Prios |-> rdy[p]]
    BY DEF Fifos
  <2>2. Fifos(mem.prio, Q2["ready"]) = [p \in Prios |-> OfPrio(mem.prio, Q2["ready"], p)]
    BY DEF Fifos
  <2> HIDE DEF rdy, p0, t
  <2> QED
    BY <1>3, <1>9, <2>1, <2>2
<1>11. Waiting(mem'.prio, Q2, stack') = pd
  BY <1>3, WaitingSame DEF Yield
<1>12. TQ!Yield(t)
  <2>1. run \in Seq(Threads) /\ Has(run, t) /\ Q2["running"] = Without(run, t)
    BY <1>1, <1>3
  <2>2. Fifos(mem'.prio, Q2["ready"]) = [rdy EXCEPT ![mem.prio[t]] = Append(@, t)]
    BY <1>10
  <2> HIDE DEF t, rdy, run, pd
  <2> QED
    BY <1>3, <1>8, <1>11, <2>1, <2>2, YieldSeen
<1>13. TQ!Next
  BY <1>1, <1>12 DEF TQ!Next
<1> QED
  BY <1>7, <1>13 DEF Queued

\* r is q with t on top.
Tops(prio, r, q, t) ==
  \A p : OfPrio(prio, r, p) = IF prio[t] = p THEN <<t>> \o OfPrio(prio, q, p)
                             ELSE OfPrio(prio, q, p)

\* A thread that blocks goes to sleep on top of the stack of a blocker.
LEMMA OnTop ==
  ASSUME NEW prio, NEW t \in Threads, NEW q \in Seq(Threads)
  PROVE  /\ <<t>> \o q \in Seq(Threads) /\ \A u : Has(<<t>> \o q, u) <=> Has(q, u) \/ u = t
         /\ Once(q) /\ ~Has(q, t) => Once(<<t>> \o q)
         /\ Tops(prio, <<t>> \o q, q, t)
<1> DEFINE a == <<t>>
           r == a \o q
<1>1. a \in Seq(Threads) /\ Len(a) = 1 /\ a[1] = t /\ a = Append(<<>>, t) /\ Len(q) \in Nat
  OBVIOUS
<1>2. \A u : Has(a, u) <=> u = t
  BY <1>1 DEF Has
<1>3. <<>> \in Seq(Threads)
  OBVIOUS
<1>4. \A p : OfPrio(prio, a, p) = IF prio[t] = p THEN a ELSE <<>>
  <2> SUFFICES ASSUME NEW p PROVE OfPrio(prio, a, p) = IF prio[t] = p THEN a ELSE <<>>
    OBVIOUS
  <2>1. OfPrio(prio, Append(<<>>, t), p) =
          IF prio[t] = p THEN Append(OfPrio(prio, <<>>, p), t) ELSE OfPrio(prio, <<>>, p)
    BY <1>3, OfPrioAppend
  <2>2. OfPrio(prio, <<>>, p) = <<>>
    BY OfPrioEmpty
  <2> QED
    BY <1>1, <2>1, <2>2
<1> HIDE DEF a
<1>5. /\ r \in Seq(Threads) /\ Len(r) = 1 + Len(q) /\ \A i \in 1 .. 1 : r[i] = a[i]
      /\ \A i \in 1 .. Len(q) : r[1 + i] = q[i]
  BY <1>1, ConcatIs
<1>6. \A u : Has(r, u) <=> Has(q, u) \/ u = t
  BY <1>1, <1>2, HasConcat
<1>7. \A p : OfPrio(prio, r, p) = OfPrio(prio, a, p) \o OfPrio(prio, q, p)
  BY <1>1, OfPrioConcat
<1> HIDE DEF r
<1>8. ASSUME Once(q), ~Has(q, t) PROVE Once(r)
  <2> SUFFICES ASSUME NEW i \in 1 .. Len(r), NEW j \in 1 .. Len(r), r[i] = r[j] PROVE i = j
    BY DEF Once
  <2>1. r[1] = t
    BY <1>1, <1>5
  <2>2. ASSUME NEW k \in 1 .. Len(r), k # 1
        PROVE  k - 1 \in 1 .. Len(q) /\ r[k] = q[k - 1] /\ r[k] # t
    <3>1. k - 1 \in 1 .. Len(q) /\ k = 1 + (k - 1)
      BY <1>1, <1>5, <2>2
    <3>2. r[1 + (k - 1)] = q[k - 1]
      BY <1>5, <3>1
    <3> QED
      BY <1>8, <3>1, <3>2 DEF Has
  <2>3. CASE i = 1 \/ j = 1
    BY <2>1, <2>2, <2>3
  <2>4. CASE i # 1 /\ j # 1
    <3>1. i - 1 \in 1 .. Len(q) /\ j - 1 \in 1 .. Len(q) /\ q[i - 1] = q[j - 1]
      BY <2>2, <2>4
    <3>2. i - 1 = j - 1
      BY <1>8, <3>1 DEF Once
    <3> QED
      BY <1>1, <1>5, <3>2
  <2> QED
    BY <2>3, <2>4
<1>9. ASSUME NEW p
      PROVE  OfPrio(prio, r, p) =
               IF prio[t] = p THEN a \o OfPrio(prio, q, p) ELSE OfPrio(prio, q, p)
  <2> DEFINE s == OfPrio(prio, q, p)
  <2>1. s \in Seq(Threads)
    BY FiltersAre
  <2> HIDE DEF s
  <2>2. <<>> \o s = s
    BY <2>1
  <2> QED
    BY <1>4, <1>7, <2>2 DEF s
<1> QED
  BY <1>5, <1>6, <1>8, <1>9 DEF r, a, Tops

LEMMA TopsIs ==
  \A prio : \A t \in Threads : \A q \in Seq(Threads) : Tops(prio, <<t>> \o q, q, t)
BY OnTop

\* Sleepers in terms of the threads rather than of their places.
Sleeping(m, Q, st) ==
  /\ \A b \in Blockers : /\ st[b] \in Seq(Threads) /\ Once(st[b])
                         /\ \A u : Has(st[b], u) => m.state[u] = "Blocked" /\ Free(Q, u)
  /\ \A b, c \in Blockers, u \in Threads : Has(st[b], u) /\ Has(st[c], u) => b = c

LEMMA SleepersAre ==
  ASSUME NEW m, NEW Q, NEW st
  PROVE  Sleepers(m, Q, st) <=> Sleeping(m, Q, st)
<1>1. ASSUME Sleepers(m, Q, st) PROVE Sleeping(m, Q, st)
  BY <1>1 DEF Sleepers, Sleeping, Asleep, Has
<1>2. ASSUME Sleeping(m, Q, st) PROVE Sleepers(m, Q, st)
  <2>1. ASSUME NEW b \in Blockers, NEW i \in 1 .. Len(st[b])
        PROVE  st[b][i] \in Threads /\ Has(st[b], st[b][i])
    <3>1. st[b] \in Seq(Threads)
      BY <1>2 DEF Sleeping
    <3> QED
      BY <3>1, SeqFacts DEF Has
  <2>2. \A b \in Blockers : Asleep(m, Q, st[b])
    BY <1>2, <2>1 DEF Sleeping, Asleep
  <2>3. ASSUME NEW b \in Blockers, NEW c \in Blockers,
               NEW i \in 1 .. Len(st[b]), NEW j \in 1 .. Len(st[c]), st[b][i] = st[c][j]
        PROVE  b = c
    <3>1. st[b][i] \in Threads /\ Has(st[b], st[b][i]) /\ Has(st[c], st[b][i])
      BY <2>1, <2>3
    <3> QED
      BY <1>2, <3>1 DEF Sleeping
  <2> QED
    BY <2>2, <2>3 DEF Sleepers
<1> QED
  BY <1>1, <1>2

LEMMA SuspendStep == ASSUME Inv, Suspend PROVE Queued
<1> DEFINE t == current
           p0 == mem.prio[t]
<1>1. PICK Q : /\ Linked(mem, Q) /\ Chains(mem, Q) /\ Sleepers(mem, Q, stack) /\ TypeOK
               /\ JoinsHeld(mem.state, owner, count) /\ stack \in [Blockers -> Seq(Threads)]
               /\ t \in Threads /\ mem.state[t] = "Running"
               /\ mem.state \in [Threads -> States] /\ mem.prio \in [Threads -> Prios]
               /\ Q["running"] \in Seq(Threads) /\ Has(Q["running"], t)
  BY CurrentIs DEF Suspend, Fresh
<1>2. PICK b \in Blockers : stack' = [stack EXCEPT ![b] = <<t>> \o @]
  BY DEF Suspend
<1>3. PICK Q2 : Moved(mem, Q, mem', Q2, t, "Blocked")
  BY <1>1, SetStateIs DEF Suspend, Movable
<1>4. /\ Linked(mem', Q2) /\ Chains(mem', Q2) /\ mem'.prio = mem.prio
      /\ mem'.state = [mem.state EXCEPT ![t] = "Blocked"]
      /\ Q2["running"] = Without(Q["running"], t) /\ \A x \in Locks : Q2[x] = Q[x]
  BY <1>3 DEF Moved, Linked
<1> DEFINE q == stack[b]
           r == <<t>> \o q
<1>5. /\ stack \in [Blockers -> Seq(Threads)] /\ q \in Seq(Threads) /\ Once(q) /\ ~Has(q, t)
      /\ \A c \in Blockers : ~Has(stack[c], t)
  BY <1>1, SleepersAre DEF Sleeping
<1>6. /\ r \in Seq(Threads) /\ \A u : Has(r, u) <=> Has(q, u) \/ u = t
      /\ Once(r)
  BY <1>1, <1>5, OnTop
<1>7. \A p : OfPrio(mem.prio, r, p) = IF p0 = p THEN <<t>> \o OfPrio(mem.prio, q, p)
                                      ELSE OfPrio(mem.prio, q, p)
  <2>1. Tops(mem.prio, r, q, t)
    <3>1. t \in Threads /\ q \in Seq(Threads)
      BY <1>1, <1>5
    <3> HIDE DEF t, q
    <3> QED
      BY <3>1, TopsIs DEF r
  <2> QED
    BY <2>1 DEF Tops
<1> HIDE DEF r
<1>8. stack' = [stack EXCEPT ![b] = r]
  BY <1>2 DEF r
<1>9. Sleepers(mem', Q2, stack')
  <2>1. Undisturbed(mem, Q, mem', Q2)
    BY <1>1, <1>3, MovedKeeps
  <2>2. Sleeping(mem', Q2, stack)
    BY <1>1, <2>1, SleepersKept, SleepersAre
  <2>3. mem'.state[t] = "Blocked" /\ Free(Q2, t)
    <3>1. mem'.state[t] = "Blocked"
      BY <1>1, <1>4
    <3>2. \A x \in Locks : ~Has(Q2[x], t)
      BY <1>1, <1>4, NotIn, ListNames
    <3> QED
      BY <1>4, <3>1, <3>2, FreeIs
  <2>4. /\ stack'[b] = r /\ \A c \in Blockers : c # b => stack'[c] = stack[c]
    BY <1>5, <1>8
  <2>5. ASSUME NEW c \in Blockers
        PROVE  /\ stack'[c] \in Seq(Threads) /\ Once(stack'[c])
               /\ \A u : Has(stack'[c], u) => mem'.state[u] = "Blocked" /\ Free(Q2, u)
    BY <1>6, <2>2, <2>3, <2>4 DEF Sleeping
  <2>6. ASSUME NEW c \in Blockers, NEW d \in Blockers, NEW u \in Threads,
               Has(stack'[c], u), Has(stack'[d], u)
        PROVE  c = d
    <3>1. u = t \/ (Has(stack[c], u) /\ Has(stack[d], u))
      BY <1>6, <2>4, <2>6
    <3>2. u = t => c = b /\ d = b
      BY <1>5, <2>4, <2>6
    <3> QED
      BY <2>2, <3>1, <3>2 DEF Sleeping
  <2>7. Sleeping(mem', Q2, stack')
    BY <2>5, <2>6 DEF Sleeping
  <2> QED
    BY <2>7, SleepersAre
<1>10. stack' \in [Blockers -> Seq(Threads)]
  BY <1>5, <1>6, <1>8
<1>11. TypeOK' /\ CurrentRuns'
  BY <1>1 DEF Suspend, Fresh, TypeOK, CurrentRuns
<1>12. JoinsHeld(mem'.state, owner', count')
  BY <1>1, <1>4 DEF JoinsHeld, Suspend, Dead
<1>13. Inv'
  BY <1>4, <1>9, <1>10, <1>11, <1>12, InvNext
<1> DEFINE rdy == Fifos(mem.prio, Q["ready"])
           run == Q["running"]
           pd == Waiting(mem.prio, Q, stack)
<1>14. Seen(rdy, run, pd)
  BY <1>1, SeenIs
<1>15. Fifos(mem'.prio, Q2["ready"]) = rdy
  <2>1. "ready" \in Lists /\ mem.state[t] # StateIn("ready")
    BY <1>1, ListNames DEF VmLists
  <2>2. ~Has(Q["ready"], t) /\ Q["ready"] \in Seq(Threads)
    BY <1>1, <2>1, NotIn, ListFacts
  <2>3. ASSUME NEW p
        PROVE  Without(OfPrio(mem.prio, Q["ready"], p), t) = OfPrio(mem.prio, Q["ready"], p)
    <3>1. ~Has(OfPrio(mem.prio, Q["ready"], p), t)
      BY <2>2, OfPrioHas
    <3> QED
      BY <3>1 DEF Without
  <2> QED
    BY <1>3, <1>4, <2>3 DEF Moved, Fifos
<1>16. b \notin Locks
  BY ConstantsAssumption
<1>17. Behind(Waiting(mem'.prio, Q2, stack'), pd, b, p0, t)
  <2> DEFINE fo == Fifos(mem.prio, q)
             new == [fo EXCEPT ![p0] = <<t>> \o @]
  <2>1. Fifos(mem.prio, r) = new
    <3>1. \A p \in Prios : OfPrio(mem.prio, r, p) = IF p0 = p THEN <<t>> \o fo[p] ELSE fo[p]
      BY <1>7 DEF Fifos
    <3>2. fo = [p \in Prios |-> fo[p]]
      BY DEF Fifos
    <3>3. Fifos(mem.prio, r) = [p \in Prios |-> OfPrio(mem.prio, r, p)]
      BY DEF Fifos
    <3> HIDE DEF fo, p0, t
    <3> QED
      BY <3>1, <3>2, <3>3
  <2>2. pd[b] = fo
    BY <1>16 DEF Waiting
  <2> HIDE DEF p0
  <2>3. [pd EXCEPT ![b][p0] = IF b \in Locks THEN Append(@, t) ELSE <<t>> \o @] =
          [pd EXCEPT ![b] = new]
    BY <1>16, <2>2
  <2> HIDE DEF new
  <2>4. Waiting(mem.prio, Q2, stack') = [pd EXCEPT ![b] = new]
    BY <1>4, <1>5, <1>8, <1>16, <2>1 DEF Waiting
  <2> QED
    BY <1>4, <2>3, <2>4 DEF Behind
<1>18. TQ!Wait(t, b)
  <2>1. run \in Seq(Threads) /\ Has(run, t) /\ Q2["running"] = Without(run, t)
    BY <1>1, <1>4
  <2>2. Behind(Waiting(mem'.prio, Q2, stack'), pd, b, mem.prio[t], t)
    BY <1>17
  <2> HIDE DEF t, rdy, run, pd
  <2> QED
    BY <1>4, <1>14, <1>15, <2>1, <2>2, WaitSeen
<1>19. TQ!Next
  BY <1>1, <1>18 DEF TQ!Next, TQ!Places
<1> QED
  BY <1>13, <1>19 DEF Queued

LEMMA ResumeStep == ASSUME Inv, Resume PROVE Queued
<1>1. PICK Q : /\ Linked(mem, Q) /\ Chains(mem, Q) /\ Sleepers(mem, Q, stack) /\ TypeOK
               /\ JoinsHeld(mem.state, owner, count) /\ stack \in [Blockers -> Seq(Threads)]
               /\ mem.state \in [Threads -> States]
  BY CurrentIs DEF Resume, Fresh
<1>2. PICK b \in Blockers : stack' = [stack EXCEPT ![b] = <<>>] /\ mem' = ReadyAll(mem, stack[b])
  BY DEF Resume
<1> DEFINE q == stack[b]
<1>3. Asleep(mem, Q, q) /\ q \in Seq(Threads)
  BY <1>1 DEF Sleepers
<1>4. PICK Q2 : Readied(mem, Q, mem', Q2, q)
  BY <1>1, <1>2, <1>3, ReadyAllIs
<1>5. /\ Linked(mem', Q2) /\ Chains(mem', Q2) /\ mem'.prio = mem.prio
      /\ Q2["running"] = Q["running"] /\ \A x \in Locks : Q2[x] = Q[x]
      /\ \A u \in Threads : mem'.state[u] = IF Has(q, u) THEN "Ready" ELSE mem.state[u]
  BY <1>4 DEF Readied, Linked
<1>6. \A u : Has(q, u) => u \in Threads /\ mem.state[u] = "Blocked"
  BY <1>3, SeqFacts DEF Asleep, Has
<1>7. Sleepers(mem', Q2, stack')
  <2>1. Sleeping(mem, Q, stack)
    BY <1>1, SleepersAre
  <2>2. stack'[b] = <<>> /\ \A c \in Blockers : c # b => stack'[c] = stack[c]
    BY <1>1, <1>2
  <2>3. /\ \A u : ~Has(<<>>, u)
        /\ <<>> \in Seq(Threads) /\ Once(<<>>)
    BY DEF Has, Once
  <2>4. ASSUME NEW c \in Blockers, c # b, NEW u, Has(stack[c], u)
        PROVE  mem'.state[u] = "Blocked" /\ Free(Q2, u)
    <3>1. mem.state[u] = "Blocked" /\ Free(Q, u) /\ u \in Threads
      <4>1. Asleep(mem, Q, stack[c])
        BY <1>1 DEF Sleepers
      <4> QED
        BY <2>4, <4>1, SeqFacts DEF Asleep, Has
    <3>2. ~Has(q, u)
      BY <2>1, <2>4, <3>1 DEF Sleeping
    <3>3. mem'.state[u] = "Blocked"
      BY <1>5, <3>1, <3>2
    <3>4. \A x \in Locks : Has(Q2[x], u) => Has(Q[x], u)
      BY <1>5
    <3> QED
      BY <1>5, <3>1, <3>3, <3>4, StillFree
  <2>5. ASSUME NEW c \in Blockers
        PROVE  /\ stack'[c] \in Seq(Threads) /\ Once(stack'[c])
               /\ \A u : Has(stack'[c], u) => mem'.state[u] = "Blocked" /\ Free(Q2, u)
    <3>1. CASE c = b
      BY <2>2, <2>3, <3>1
    <3>2. CASE c # b
      BY <2>1, <2>2, <2>4, <3>2 DEF Sleeping
    <3> QED
      BY <3>1, <3>2
  <2>6. ASSUME NEW c \in Blockers, NEW d \in Blockers, NEW u \in Threads,
               Has(stack'[c], u), Has(stack'[d], u)
        PROVE  c = d
    <3>1. c # b /\ d # b
      BY <2>2, <2>3, <2>6
    <3> QED
      BY <2>1, <2>2, <2>6, <3>1 DEF Sleeping
  <2>7. Sleeping(mem', Q2, stack')
    BY <2>5, <2>6 DEF Sleeping
  <2> QED
    BY <2>7, SleepersAre
<1>8. stack' \in [Blockers -> Seq(Threads)]
  BY <1>1, <1>2
<1>9. TypeOK' /\ CurrentRuns'
  BY <1>1 DEF Resume, Fresh, TypeOK, CurrentRuns
<1>10. JoinsHeld(mem'.state, owner', count')
  BY <1>1, <1>5, <1>6 DEF JoinsHeld, Resume, Dead
<1>11. Inv'
  BY <1>5, <1>7, <1>8, <1>9, <1>10, InvNext
<1> DEFINE rdy == Fifos(mem.prio, Q["ready"])
           run == Q["running"]
           pd == Waiting(mem.prio, Q, stack)
<1>12. Seen(rdy, run, pd)
  BY <1>1, SeenIs
<1>13. b \notin Locks
  BY ConstantsAssumption
<1>14. Emptied(Waiting(mem'.prio, Q2, stack'), pd, b)
  <2> DEFINE none == [p \in Prios |-> <<>>]
  <2>1. Fifos(mem.prio, <<>>) = none
    BY OfPrioEmpty DEF Fifos
  <2> HIDE DEF none
  <2>2. Waiting(mem.prio, Q2, stack') = [pd EXCEPT ![b] = none]
    BY <1>1, <1>2, <1>5, <1>13, <2>1 DEF Waiting
  <2> QED
    BY <1>5, <2>2 DEF Emptied, none
<1>15. Fifos(mem'.prio, Q2["ready"]) = [p \in Prios |-> rdy[p] \o pd[b][p]]
  <2>1. ASSUME NEW p \in Prios PROVE OfPrio(mem.prio, Q2["ready"], p) = rdy[p] \o pd[b][p]
    <3>1. OfPrio(mem.prio, Q2["ready"], p) =
            OfPrio(mem.prio, Q["ready"], p) \o OfPrio(mem.prio, q, p)
      BY <1>4 DEF Readied
    <3>2. rdy[p] = OfPrio(mem.prio, Q["ready"], p) /\ pd[b][p] = OfPrio(mem.prio, q, p)
      BY <1>13 DEF Fifos, Waiting
    <3> HIDE DEF rdy, pd, q
    <3> QED
      BY <3>1, <3>2
  <2> HIDE DEF rdy, pd
  <2> QED
    BY <1>5, <2>1 DEF Fifos
<1> HIDE DEF rdy, run, pd
<1>16. TQ!Wake(b)
  <2>1. Q2["running"] = run
    BY <1>5 DEF run
  <2> QED
    BY <1>5, <1>12, <1>14, <1>15, <2>1, WakeSeen
<1>17. TQ!Next
  BY <1>16 DEF TQ!Next, TQ!Places
<1> QED
  BY <1>11, <1>17 DEF Queued

LEMMA CollectStep == ASSUME Inv, Collect PROVE Queued
<1>1. PICK Q : /\ Linked(mem, Q) /\ Sleepers(mem, Q, stack) /\ TypeOK
               /\ JoinsHeld(mem.state, owner, count) /\ stack \in [Blockers -> Seq(Threads)]
  BY InvHolds
<1>2. PICK t \in Threads :
        /\ mem.state[t] = "Zombie"
        /\ mem' = [Unlink(mem, t) EXCEPT !.state[t] = "None", !.next[t] = NULL, !.prev[t] = NULL]
  BY DEF Collect
<1> DEFINE m1 == Unlink(mem, t)
           Q2 == Drop(Q, t)
<1>3. /\ Chains(mem, Q) /\ "zombie" \in Lists /\ "ready" \in Lists /\ "running" \in Lists
      /\ Locks \subseteq Lists /\ mem.state \in [Threads -> States]
  <2>1. /\ Chains(mem, Q) /\ "zombie" \in Lists /\ "ready" \in Lists /\ "running" \in Lists
        /\ Locks \subseteq Lists
    BY <1>1, ListNames DEF Linked, VmLists
  <2> QED
    BY <2>1, MemoryFields DEF Chains
<1>4. PICK i \in 1 .. Len(Q["zombie"]) : Q["zombie"][i] = t
  BY <1>1, <1>2, ListNames DEF Linked, VmLists
<1>5. SplicedOut(mem, m1, "zombie", Q["zombie"], i)
  BY <1>3, <1>4, UnlinkIs
<1>6. Loose(m1, Q2, t)
  BY <1>1, <1>3, <1>4, <1>5, LooseOut
<1>7. m1 \in Memory /\ m1.state = mem.state /\ m1.prio = mem.prio
  BY <1>5 DEF SplicedOut
<1>8. mem' = [m1 EXCEPT !.state[t] = "None", !.next[t] = NULL, !.prev[t] = NULL]
  BY <1>2
<1> HIDE DEF m1
<1>9. /\ mem' \in Memory /\ mem'.head = m1.head /\ mem'.tail = m1.tail /\ mem'.prio = m1.prio
      /\ mem'.next = [m1.next EXCEPT ![t] = NULL] /\ mem'.prev = [m1.prev EXCEPT ![t] = NULL]
      /\ mem'.state = [m1.state EXCEPT ![t] = "None"]
  BY <1>7, <1>8, NullNode DEF Memory, States
<1>10. OnlyAt(m1, mem', t) /\ mem'.state[t] = "None"
  BY <1>3, <1>7, <1>9, MemoryFields DEF OnlyAt
<1>11. Linked(mem', Q2)
  <2>1. Loose(mem', Q2, t)
    BY <1>6, <1>10, LooseKept
  <2> QED
    BY <1>10, <2>1, LooseOff
<1>12. \A l \in Lists : l # "zombie" => Q2[l] = Q[l]
  <2> SUFFICES ASSUME NEW l \in Lists, l # "zombie" PROVE Q2[l] = Q[l]
    OBVIOUS
  <2>1. ~Has(Q[l], t)
    BY <1>3, <1>4 DEF Chains, Has
  <2> QED
    BY <2>1 DEF Drop, Without
<1> HIDE DEF Q2
<1>13. "zombie" \notin Locks
  BY ConstantsAssumption
<1>14. Sleepers(mem', Q2, stack')
  <2>1. ASSUME NEW u \in Threads, mem.state[u] = "Blocked", Free(Q, u)
        PROVE  mem'.state[u] = "Blocked" /\ Free(Q2, u)
    <3>1. mem'.state[u] = "Blocked"
      BY <1>2, <1>3, <1>7, <1>9, <2>1
    <3>2. \A x \in Locks : Has(Q2[x], u) => Has(Q[x], u)
      BY <1>3, <1>12, <1>13
    <3> QED
      BY <1>11, <2>1, <3>1, <3>2, StillFree
  <2>2. Undisturbed(mem, Q, mem', Q2)
    BY <2>1 DEF Undisturbed
  <2>3. Sleepers(mem', Q2, stack)
    BY <1>1, <2>2, SleepersKept
  <2> QED
    BY <2>3 DEF Collect
<1>15. JoinsHeld(mem'.state, owner', count')
  BY <1>1, <1>2, <1>3, <1>7, <1>9 DEF JoinsHeld, Collect, Dead
<1>16. TypeOK' /\ CurrentRuns'
  BY <1>1 DEF Collect, TypeOK, CurrentRuns
<1>17. Inv'
  BY <1>1, <1>11, <1>14, <1>15, <1>16, InvNext DEF Collect
<1> DEFINE rdy == Fifos(mem.prio, Q["ready"])
           run == Q["running"]
           pd == Waiting(mem.prio, Q, stack)
<1>18. Seen(rdy, run, pd)
  BY <1>3, SeenIs
<1>19. Fifos(mem'.prio, Q2["ready"]) = rdy /\ Q2["running"] = run
  BY <1>3, <1>7, <1>9, <1>12
<1>20. Waiting(mem'.prio, Q2, stack') = pd
  <2>1. \A x \in Locks : Q2[x] = Q[x]
    BY <1>3, <1>12, <1>13
  <2> QED
    BY <1>7, <1>9, <2>1, WaitingSame DEF Collect
<1>21. Chains(mem', Q2) /\ mem'.prio = mem.prio
  BY <1>7, <1>9, <1>11 DEF Linked
<1> HIDE DEF rdy, run, pd
<1>22. UNCHANGED TQ!vars
  BY <1>18, <1>19, <1>20, <1>21, NothingSeen
<1> QED
  BY <1>17, <1>22 DEF Queued

-----------------------------------------------------------------------------
(* The theorems. *)

LEMMA InitHolds == Init => Inv /\ TQ!Init
<1> SUFFICES ASSUME Init PROVE Inv /\ TQ!Init
  OBVIOUS
<1> DEFINE Q == [l \in Lists |-> <<>>]
<1>1. /\ mem.next = [t \in Threads |-> NULL] /\ mem.prev = [t \in Threads |-> NULL]
      /\ mem.head = [l \in Lists |-> NULL] /\ mem.tail = [l \in Lists |-> NULL]
      /\ mem.state = [t \in Threads |-> "None"]
      /\ mem.prio = [t \in Threads |-> CHOOSE p \in Prios : TRUE]
      /\ mem.bad = FALSE
      /\ mem = [next |-> mem.next, prev |-> mem.prev, head |-> mem.head, tail |-> mem.tail,
                state |-> mem.state, prio |-> mem.prio, bad |-> mem.bad]
  BY DEF Init
<1>2. (CHOOSE p \in Prios : TRUE) \in Prios
  BY ConstantsAssumption
<1>3. mem \in Memory
  <2>1. /\ mem.next \in [Threads -> Node] /\ mem.prev \in [Threads -> Node]
        /\ mem.head \in [Lists -> Node] /\ mem.tail \in [Lists -> Node]
    BY <1>1, NullNode
  <2>2. mem.state \in [Threads -> States] /\ mem.prio \in [Threads -> Prios] /\ mem.bad \in {FALSE}
    BY <1>1, <1>2 DEF States
  <2> QED
    BY <1>1, <2>1, <2>2 DEF Memory
<1>4. /\ Q \in [Lists -> Seq(Threads)] /\ \A l \in Lists : Q[l] = <<>> /\ Len(Q[l]) = 0
      /\ \A l \in Lists : 1 .. Len(Q[l]) = {}
  OBVIOUS
<1> HIDE DEF Q
<1>5. Chains(mem, Q)
  BY <1>1, <1>3, <1>4 DEF Chains, Chain
<1>6. Linked(mem, Q)
  <2>1. \A l \in VmLists : StateIn(l) # "None"
    BY DEF VmLists, StateIn
  <2> QED
    BY <1>1, <1>4, <1>5, <2>1 DEF Linked, InOrder
<1>7. AllNodes(mem) = Q
  BY <1>5, AllNodesAre
<1>8. Sleepers(mem, Q, stack)
  <2>1. \A b \in Blockers : stack[b] = <<>>
    BY DEF Init
  <2>2. <<>> \in Seq(Threads) /\ \A u : ~Has(<<>>, u)
    BY DEF Has
  <2>3. Sleeping(mem, Q, stack)
    BY <2>1, <2>2 DEF Sleeping, Once, Has
  <2> QED
    BY <2>3, SleepersAre
<1>9. TypeOK /\ CurrentRuns /\ stack \in [Blockers -> Seq(Threads)]
  BY NullNode DEF Init, TypeOK, CurrentRuns
<1>10. JoinsHeld(mem.state, owner, count)
  BY <1>1 DEF Init, JoinsHeld, Dead, Locks
<1>11. Inv
  BY <1>6, <1>7, <1>8, <1>9, <1>10 DEF Inv
<1>12. Fifos(mem.prio, <<>>) = [p \in Prios |-> <<>>]
  BY OfPrioEmpty DEF Fifos
<1>13. /\ ByPrio(Nodes("ready")) = [p \in Prios |-> <<>>] /\ Nodes("running") = <<>>
       /\ [x \in Locks \cup Blockers |-> ByPrio(IF x \in Locks THEN Nodes(x) ELSE stack[x])]
            = Waiting(mem.prio, Q, stack)
  <2>1. Q["ready"] = <<>> /\ Q["running"] = <<>>
    BY <1>4, ListNames DEF VmLists
  <2> QED
    BY <1>5, <1>12, <2>1, Views
<1>14. Waiting(mem.prio, Q, stack) = [x \in Locks \cup Blockers |-> [p \in Prios |-> <<>>]]
  <2>1. ASSUME NEW x \in Locks \cup Blockers
        PROVE  (IF x \in Locks THEN Q[x] ELSE stack[x]) = <<>>
    BY <1>4, ListNames DEF Init
  <2> DEFINE none == [p \in Prios |-> <<>>]
  <2>2. Fifos(mem.prio, <<>>) = none
    BY <1>12
  <2> HIDE DEF none
  <2>3. Waiting(mem.prio, Q, stack) = [x \in Locks \cup Blockers |-> none]
    BY <2>1, <2>2 DEF Waiting
  <2> QED
    BY <2>3 DEF none
<1>15. mem.prio \in [Threads -> Prios]
  BY <1>1, <1>2
<1>16. TQ!Init
  BY <1>13, <1>14, <1>15 DEF TQ!Init, TQ!Nobody, TQ!Places
<1> QED
  BY <1>11, <1>16

LEMMA RunStep == ASSUME Inv, Run PROVE Queued
<1>1. PICK t \in Threads, p \in Prios : Create(t, p)
  BY DEF Run
<1> QED
  BY <1>1, CreateStep DEF Run

LEMMA NewThreadStep == ASSUME Inv, NewThread PROVE Queued
<1>1. PICK t \in Threads, p \in Prios : Create(t, p)
  BY DEF NewThread
<1> QED
  BY <1>1, CreateStep DEF NewThread, Fresh

LEMMA IdleStep == ASSUME Inv, UNCHANGED vars PROVE Queued
<1>1. TypeOK' /\ CurrentRuns' /\ JoinsHeld(mem.state, owner', count')
  BY DEF Inv, vars, TypeOK, CurrentRuns
<1> QED
  BY <1>1, StillNext DEF vars

LEMMA Steps ==
  ASSUME Inv, KillStates \subseteq {"Ready", "Running"}, [Next]_vars
  PROVE  Queued
<1>1. Keep \/ Turn \/ Run \/ Collect \/ UNCHANGED vars \/ Execute
  BY DEF Next
<1>2. ASSUME Execute PROVE Queued
  BY <1>2, NewThreadStep, LockMtxStep, UnlockMtxStep, JoinThreadStep, KillThreadStep, DieStep,
     YieldStep, SuspendStep, ResumeStep, OtherStep DEF Execute
<1> QED
  BY <1>1, <1>2, KeepStep, TurnStep, RunStep, CollectStep, IdleStep

LEMMA LinkedWhole ==
  ASSUME NEW Q, Linked(mem, Q)
  PROVE  WellLinked
<1>1. Chains(mem, Q) /\ \A l \in Lists : Nodes(l) = Q[l]
  BY NodesAre DEF Linked, Nodes
<1>2. ASSUME NEW l \in Lists PROVE Chained(l)
  <2> DEFINE q == Nodes(l)
  <2>1. q = Q[l] /\ Chain(mem, l, q)
    BY <1>1 DEF Chains
  <2> HIDE DEF q
  <2>2. q \in Seq(Threads) /\ Len(q) \in Nat /\ DOMAIN q = 1 .. Len(q) /\ (q = <<>> <=> Len(q) = 0)
    BY <2>1, SeqFacts DEF Chain
  <2>3. IsInjective(q)
    BY <2>1, <2>2 DEF Chain, IsInjective
  <2>4. /\ mem.head[l] = IF q = <<>> THEN NULL ELSE q[1]
        /\ mem.tail[l] = IF q = <<>> THEN NULL ELSE Last(q)
    BY <2>1, <2>2 DEF Chain, Last
  <2>5. \A i \in DOMAIN q : mem.prev[q[i]] = IF i = 1 THEN NULL ELSE q[i - 1]
    BY <2>1, <2>2 DEF Chain
  <2> QED
    BY <2>3, <2>4, <2>5 DEF Chained, q
<1>3. ASSUME NEW l \in Lists, l \notin {"running", "zombie"} PROVE Sorted(l)
  <2>1. Q[l] \in Seq(Threads) /\ DOMAIN Q[l] = 1 .. Len(Q[l]) /\ Nodes(l) = Q[l]
    BY <1>1, ListFacts, SeqFacts
  <2>2. InOrder(mem.prio, Q[l])
    BY <1>3 DEF Linked
  <2> QED
    BY <2>1, <2>2 DEF Sorted, InOrder
<1>4. ASSUME NEW t \in Threads, NEW l \in Lists, t \in ToSet(Nodes(l))
      PROVE  mem.state[t] = StateIn(l)
  <2>1. Q[l] \in Seq(Threads) /\ DOMAIN Q[l] = 1 .. Len(Q[l]) /\ Nodes(l) = Q[l]
    BY <1>1, ListFacts, SeqFacts
  <2>2. PICK i \in 1 .. Len(Q[l]) : Q[l][i] = t
    BY <1>4, <2>1 DEF ToSet
  <2> QED
    BY <2>2 DEF Linked
<1>5. ~mem.bad
  BY <1>1 DEF Chains, Memory
<1> QED
  BY <1>2, <1>3, <1>4, <1>5 DEF WellLinked, StateIn

\* Whatever the threads do, short of killing a blocked one, every list is the
\* chain of its threads, the threads are in the lists of their states, a
\* blocker holds only sleepers, and a living thread holds its join mutex.
THEOREM LinksInvariance ==
  ASSUME KillStates \subseteq {"Ready", "Running"}
  PROVE  Spec => []Inv
<1>1. Init => Inv
  BY InitHolds
<1>2. Inv /\ [Next]_vars => Inv'
  BY Steps DEF Queued
<1> QED
  BY <1>1, <1>2, PTL DEF Spec

\* thread_set_state and the macros of list.h keep the lists whole: doubly
\* linked, sorted where they have to be, and of the threads whose state says so.
THEOREM ListsWhole ==
  ASSUME KillStates \subseteq {"Ready", "Running"}
  PROVE  Spec => []WellLinked
<1>1. Inv => WellLinked
  BY InvHolds, LinkedWhole
<1> QED
  BY <1>1, LinksInvariance, PTL

\* Walking the nodes, the threads come in the order that ThreadQueues promises:
\* the sorted insertion is a FIFO per priority, and a wake-up keeps the order.
THEOREM QueuesFromLinks ==
  ASSUME KillStates \subseteq {"Ready", "Running"}
  PROVE  Spec => ImplementsQueues
<1>1. Init => TQ!Init
  BY InitHolds
<1>2. Inv /\ [Next]_vars => [TQ!Next]_(TQ!vars)
  BY Steps DEF Queued
<1> QED
  BY <1>1, <1>2, LinksInvariance, PTL DEF Spec, TQ!Spec, ImplementsQueues
=============================================================================
