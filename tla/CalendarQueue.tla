--------------------------- MODULE CalendarQueue ---------------------------
(***************************************************************************)
(* The priority queue of the RTC extension (priority_queue.c), pointer by   *)
(* pointer: a sorted list of years that a hash table finds by number, in    *)
(* each year a list of buckets that a balanced tree finds by date, in each  *)
(* bucket its events in the order of their dates, in each event its         *)
(* messages.  One record holds the memory; the C functions are operators    *)
(* on it and an action is one call of the interface.                        *)
(***************************************************************************)
EXTENDS CalendarSizes, Sequences, FiniteSets

VARIABLES
    q,     \* the queue and every object it has allocated
    sent,  \* history: how many messages were enqueued
    gone,  \* history: the messages that were dequeued or removed
    ret    \* what the last call returned

vars == <<q, sent, gone, ret>>

Null == 0
Objects == 1..(2 * MaxMsgs)  \* more than are ever in use at once
Sides == {"left", "right"}
Opposite(side) == IF side = "left" THEN "right" ELSE "left"

BlankYear == [number |-> 0, prev |-> Null, next |-> Null, hNext |-> Null, head |-> Null, root |-> Null]
BlankNode == [T |-> 0, width |-> 0, left |-> Null, right |-> Null, parent |-> Null, bucket |-> Null,
              balance |-> 0, height |-> 1]
BlankBucket == [events |-> <<>>, count |-> 0, prev |-> Null, next |-> Null, node |-> Null]

\* pqCreate
Empty ==
    [head |-> Null, tail |-> Null, hash |-> [h \in 0..(YearHash - 1) |-> Null], msgCount |-> 0,
     year |-> [y \in Objects |-> BlankYear], pool |-> [i \in 1..Cardinality(Objects) |-> i],
     node |-> [n \in Objects |-> BlankNode], bucket |-> [b \in Objects |-> BlankBucket],
     bad |-> FALSE, scarred |-> FALSE]

Bad(m) == [m EXCEPT !.bad = TRUE]

-----------------------------------------------------------------------------
(* The balanced tree of a year *)

IsLeaf(m, n) == m.node[n].bucket # Null

\* What assert_all demands of the nodes of a rotation.
IsInner(m, n) ==
    n # Null /\ ~IsLeaf(m, n) /\ m.node[n].left # Null /\ m.node[n].right # Null

SetChild(m, p, side, n) == [m EXCEPT !.node[p][side] = n, !.node[n].parent = p]

ComputeHeight(m, n) ==
    IF IsLeaf(m, n) THEN m
    ELSE LET l == m.node[m.node[n].left].height
             r == m.node[m.node[n].right].height
         IN  [m EXCEPT !.node[n].height = 1 + (IF r > l THEN r ELSE l)]

ComputeBalance(m, n) ==
    [m EXCEPT !.node[n].balance = m.node[m.node[n].right].height - m.node[m.node[n].left].height]

\* Mutant of Hang: the root of the year stays where it is.
HangBelowRoot(m, y, parent, old, new) ==
    IF parent = Null THEN [m EXCEPT !.node[new].parent = Null]
    ELSE SetChild(m, parent, IF m.node[parent].right = old THEN "right" ELSE "left", new)

\* new takes the place that old has under its parent, or at the root.
Hang(m, y, parent, old, new) ==
    IF parent = Null THEN [m EXCEPT !.year[y].root = new, !.node[new].parent = Null]
    ELSE SetChild(m, parent, IF m.node[parent].right = old THEN "right" ELSE "left", new)

\* rebalanceLL (side left) and rebalanceRR (side right): the inner child B
\* of C rises above it.
Rotated(m, y, C, side) ==
    LET B == m.node[C][side]
        other == Opposite(side)
        m1 == SetChild(m, B, other, C)
        m2 == SetChild(m1, C, side, m.node[B][other])
        m3 == ComputeBalance(ComputeHeight(m2, C), C)
    IN  IF ~IsInner(m, B) \/ ~IsInner(m, m.node[B][side]) THEN [mem |-> Bad(m), top |-> Null]
        ELSE [mem |-> Hang(m3, y, m.node[C].parent, C, B), top |-> B]

\* rebalanceLR (side left) and rebalanceRL (side right): the grandchild B
\* rises above both.
RotatedTwice(m, y, C, side) ==
    LET A == m.node[C][side]
        other == Opposite(side)
        B == m.node[A][other]
        m1 == SetChild(SetChild(m, B, other, C), B, side, A)
        m2 == SetChild(m1, C, side, m.node[B][other])
        m3 == SetChild(m2, A, other, m.node[B][side])
        m4 == ComputeHeight(ComputeHeight(m3, A), C)
        m5 == ComputeBalance(ComputeBalance(m4, A), C)
    IN  IF ~IsInner(m, A) \/ ~IsInner(m, B) THEN [mem |-> Bad(m), top |-> Null]
        ELSE [mem |-> Hang(m5, y, m.node[C].parent, C, B), top |-> B]

\* A node that leans is rotated towards the other side.
Straightened(m, y, h) ==
    LET lean == m.node[h].balance
        right == m.node[m.node[h].right].balance
        left == m.node[m.node[h].left].balance
    IN  IF lean >= 2
        THEN IF right >= 1 THEN Rotated(m, y, h, "right") ELSE RotatedTwice(m, y, h, "right")
        ELSE IF lean <= -2
        THEN IF left <= -1 THEN Rotated(m, y, h, "left") ELSE RotatedTwice(m, y, h, "left")
        ELSE [mem |-> m, top |-> Null]

\* balance_tree: the parent of n is brought up to date and straightened, then
\* what rose above it the same way.
RECURSIVE BalanceTree(_, _, _)
BalanceTree(m, y, n) ==
    LET h == m.node[n].parent
        m1 == ComputeHeight(ComputeHeight(m, m.node[h].left), m.node[h].right)
        Above(turned) ==
          IF turned.top = Null \/ turned.mem.node[turned.top].parent = Null THEN turned.mem
          ELSE BalanceTree(turned.mem, y, turned.top)
    IN  Above(Straightened(ComputeHeight(ComputeBalance(m1, h), h), y, h))

\* The walk up from a node that was split, in split_bucket.
RECURSIVE Climb(_, _, _)
Climb(m, y, n) ==
    LET p == m.node[n].parent
        Above(raised) == Climb(raised, y, raised.node[n].parent)
    IN  IF n = Null \/ m.bad THEN m
        ELSE IF p = Null \/ m.node[p].height >= m.node[n].height + 1 THEN m
        ELSE Above(BalanceTree([m EXCEPT !.node[p].height = m.node[n].height + 1], y, n))

RECURSIVE FindBucket(_, _, _)
FindBucket(m, n, date) ==
    IF IsLeaf(m, n) THEN m.node[n].bucket
    ELSE FindBucket(m, IF date < m.node[n].T THEN m.node[n].left ELSE m.node[n].right, date)

-----------------------------------------------------------------------------
(* Years *)

RECURSIVE FindFrom(_, _, _)
FindFrom(m, y, number) ==
    IF y = Null \/ m.year[y].number = number THEN y ELSE FindFrom(m, m.year[y].next, number)

\* find_year goes on from the first year of its hash entry, the one that came
\* last, along the sorted list and not along the entry: it misses what is
\* earlier.
FindYear(m, number) == FindFrom(m, m.hash[number % YearHash], number)

\* Would find_year miss an earlier year of the entry from now on?
Collides(m, number) ==
    \E y \in Objects :
      /\ \A i \in DOMAIN m.pool : m.pool[i] # y
      /\ m.year[y].number < number
      /\ m.year[y].number % YearHash = number % YearHash

RECURSIVE NotBefore(_, _, _)
NotBefore(m, z, number) ==
    IF z = Null \/ m.year[z].number >= number THEN z ELSE NotBefore(m, m.year[z].next, number)

\* list_insert
ListInsert(m, y) ==
    LET number == m.year[y].number
        z == NotBefore(m, m.head, number)
        before == m.year[z].prev
    IN  IF m.tail # Null /\ number > m.year[m.tail].number
        THEN [m EXCEPT !.year[y].prev = m.tail, !.year[y].next = Null, !.year[m.tail].next = y,
                       !.tail = y]
        ELSE IF m.head = Null
        THEN [m EXCEPT !.head = y, !.tail = y, !.year[y].prev = Null, !.year[y].next = Null]
        ELSE IF z = Null THEN Bad(m)
        ELSE IF z = m.head
        THEN [m EXCEPT !.year[y].next = z, !.year[y].prev = Null, !.year[z].prev = y, !.head = y]
        ELSE [m EXCEPT !.year[before].next = y, !.year[y].prev = before, !.year[y].next = z,
                       !.year[z].prev = y]

Unused(objects, blank) == CHOOSE o \in Objects : objects[o] = blank /\ \A p \in 1..(o - 1) : objects[p] # blank

\* new_year.  hash_insert compares the numbers of the entry with the index
\* of the entry, which none is smaller than: the year becomes its first.
NewYear(m, number) ==
    LET y == Head(m.pool)
        n == Unused(m.node, BlankNode)
        b == Unused(m.bucket, BlankBucket)
        h == number % YearHash
        m1 == [m EXCEPT !.pool = Tail(@),
                        !.year[y] = [BlankYear EXCEPT !.number = number, !.hNext = m.hash[h],
                                                      !.head = b, !.root = n],
                        !.hash[h] = y,
                        !.node[n] = [BlankNode EXCEPT !.T = number * D, !.width = D, !.bucket = b],
                        !.bucket[b] = [BlankBucket EXCEPT !.node = n]]
    IN  [mem |-> ListInsert(m1, y), year |-> y]

RECURSIVE Unhashed(_, _, _)
Unhashed(m, z, y) ==
    IF z = Null THEN Bad(m)
    ELSE IF m.year[z].hNext = y THEN [m EXCEPT !.year[z].hNext = m.year[y].hNext]
    ELSE Unhashed(m, m.year[z].hNext, y)

\* remove_year: once head and tail have moved on, the tests that would reset
\* the links of their neighbours are false.  The year goes back to the pool,
\* where it keeps its contents until it is allocated again.
RemoveYear(m, y) ==
    LET h == m.year[y].number % YearHash
        m1 == [m EXCEPT !.head = IF @ = y THEN m.year[y].next ELSE @,
                        !.tail = IF @ = y THEN m.year[y].prev ELSE @,
                        !.scarred = @ \/ m.head # y \/ m.tail # y]
        m2 == IF m.hash[h] = y THEN [m1 EXCEPT !.hash[h] = m.year[y].hNext]
              ELSE Unhashed(m1, m.hash[h], y)
    IN  [m2 EXCEPT !.pool = <<y>> \o @]

-----------------------------------------------------------------------------
(* Buckets and events *)

\* Mutant of Inserted: a message joins the event of its date in front.
InsertedInFront(events, date, msg) ==
    LET same == {i \in DOMAIN events : events[i].date = date}
        Before(e) == e.date < date
        After(e) == e.date > date
    IN  IF same # {} THEN [events EXCEPT ![CHOOSE i \in same : TRUE].msgs = <<msg>> \o @]
        ELSE SelectSeq(events, Before) \o <<[date |-> date, msgs |-> <<msg>>]>> \o SelectSeq(events, After)

\* add_msg and bucket_insert: a message joins the event of its date or a new
\* event takes its place between its neighbours.
Inserted(events, date, msg) ==
    LET same == {i \in DOMAIN events : events[i].date = date}
        Before(e) == e.date < date
        After(e) == e.date > date
    IN  IF same # {} THEN [events EXCEPT ![CHOOSE i \in same : TRUE].msgs = Append(@, msg)]
        ELSE SelectSeq(events, Before) \o <<[date |-> date, msgs |-> <<msg>>]>> \o SelectSeq(events, After)

BucketInsert(m, b, date, msg) ==
    LET events == m.bucket[b].events
        isNew == \A i \in DOMAIN events : events[i].date # date
    IN  [m EXCEPT !.bucket[b].events = Inserted(events, date, msg),
                  !.bucket[b].count = IF isNew THEN @ + 1 ELSE @]

\* split_bucket: b keeps the first half of its events, a new bucket takes
\* the rest, and the node of b becomes their parent.
SplitBucket(m, y, b) ==
    LET n == m.bucket[b].node
        events == m.bucket[b].events
        half == m.bucket[b].count \div 2
        cut == events[half + 1].date
        l == Unused(m.node, BlankNode)
        r == Unused([m.node EXCEPT ![l].T = 1], BlankNode)
        c == Unused(m.bucket, BlankBucket)
        after == m.bucket[b].next
        m1 == [m EXCEPT !.bucket[b].events = SubSeq(events, 1, half), !.bucket[b].count = half,
                        !.bucket[b].next = c, !.bucket[b].node = l,
                        !.bucket[c] = [events |-> SubSeq(events, half + 1, Len(events)),
                                       count |-> m.bucket[b].count - half,
                                       prev |-> b, next |-> after, node |-> r],
                        !.node[l] = [BlankNode EXCEPT !.T = m.node[n].T, !.width = cut - m.node[n].T,
                                                      !.parent = n, !.bucket = b],
                        !.node[r] = [BlankNode EXCEPT !.T = cut, !.parent = n, !.bucket = c,
                                                      !.width = m.node[n].width - (cut - m.node[n].T)],
                        !.node[n] = [@ EXCEPT !.bucket = Null, !.left = l, !.right = r, !.T = cut,
                                              !.width = 0, !.height = 2, !.balance = 0]]
        m2 == IF after = Null THEN m1 ELSE [m1 EXCEPT !.bucket[after].prev = c]
        Balanced(m3) == IF m3.bad \/ m3.node[n].parent = Null THEN m3 ELSE BalanceTree(m3, y, n)
    IN  IF half >= Len(events) THEN Bad(m) ELSE Balanced(Climb(m2, y, n))

\* remove_bucket: the sibling of the bucket's node takes over the place and
\* the bounds of their parent.
RemoveBucket(m, y, b) ==
    LET node == m.bucket[b].node
        p == m.node[node].parent
        o == m.node[p].parent
        kept == IF m.node[m.node[p].left].bucket = b THEN m.node[p].right ELSE m.node[p].left
        before == m.bucket[b].prev
        after == m.bucket[b].next
        m1 == [m EXCEPT !.year[y].head = IF @ = b THEN after ELSE @, !.bucket[b] = BlankBucket]
        m2 == IF after = Null THEN m1 ELSE [m1 EXCEPT !.bucket[after].prev = before]
        m3 == IF before = Null THEN m2 ELSE [m2 EXCEPT !.bucket[before].next = after]
        m4 == [m3 EXCEPT !.node[kept].T = m.node[p].T, !.node[kept].width = m.node[p].width,
                         !.scarred = @ \/ ~IsLeaf(m, kept)]
        m5 == IF o = Null THEN [m4 EXCEPT !.year[y].root = kept, !.node[kept].parent = Null]
              ELSE SetChild(m4, o, IF m.node[o].left = p THEN "left" ELSE "right", kept)
        m6 == IF o # Null /\ m.node[o].parent # Null THEN BalanceTree(m5, y, o) ELSE m5
    IN  IF p = Null THEN RemoveYear([m3 EXCEPT !.node[node] = BlankNode], y)
        ELSE [m6 EXCEPT !.node[p] = BlankNode, !.node[node] = BlankNode]

\* remove_ev of the event at i: only the removal of the first event of a
\* bucket counts it.
RemoveEvent(m, y, b, i) ==
    LET events == m.bucket[b].events
        others == SubSeq(events, 1, i - 1) \o SubSeq(events, i + 1, Len(events))
    IN  IF others = <<>> THEN RemoveBucket(m, y, b)
        ELSE IF i = 1 THEN [m EXCEPT !.bucket[b].events = others, !.bucket[b].count = @ - 1]
        ELSE [m EXCEPT !.bucket[b].events = others, !.scarred = TRUE]

-----------------------------------------------------------------------------
(* The interface *)

\* The end of pqEnqueue: the message is in bucket b of year y, which is split
\* if it is full; the first bucket of the year may have changed.
Settled(m, y, b, date) ==
    LET splits == m.bucket[b].count > BucketMax /\ m.node[m.bucket[b].node].width > MinWidth
        Counted(m1) ==
          LET Start(c) == m1.node[m1.bucket[c].node].T
              chosen == IF splits /\ date >= Start(m1.bucket[b].next) THEN m1.bucket[b].next ELSE b
          IN  IF m1.bad THEN m1
              ELSE [m1 EXCEPT !.year[y].head = IF Start(@) > Start(chosen) THEN chosen ELSE @,
                              !.msgCount = @ + 1]
    IN  Counted(IF splits THEN SplitBucket(m, y, b) ELSE m)

\* pqEnqueue
WithMessage(m, date, msg) ==
    LET year == FindYear(m, date \div D)
        In(there) ==
          LET b == FindBucket(there.mem, there.mem.year[there.year].root, date)
          IN  Settled(BucketInsert(there.mem, b, date, msg), there.year, b, date)
    IN  In(IF year = Null THEN NewYear(m, date \div D) ELSE [mem |-> m, year |-> year])

Enqueue(date) ==
    /\ sent < MaxMsgs
    /\ q.scarred => Scars
    /\ Collides(q, date \div D) => Collisions
    /\ sent' = sent + 1
    /\ ret' = Null
    /\ q' = WithMessage(q, date, sent + 1)
    /\ UNCHANGED gone

FirstBucket(m) == m.year[m.head].head
FirstEvent(m) == Head(m.bucket[FirstBucket(m)].events)

Due(date) == q.head # Null /\ FirstEvent(q).date <= date

\* pqDequeue
Dequeue(date) ==
    /\ Due(date)
    /\ LET b == FirstBucket(q)
           msgs == FirstEvent(q).msgs
           m == IF Len(msgs) > 1 THEN [q EXCEPT !.bucket[b].events[1].msgs = Tail(@)]
                ELSE RemoveEvent(q, q.head, b, 1)
       IN  /\ ret' = Head(msgs)
           /\ gone' = gone \cup {Head(msgs)}
           /\ q' = [m EXCEPT !.msgCount = @ - 1]
    /\ UNCHANGED sent

NothingDue(date) ==
    /\ ~Due(date)
    /\ ret' = Null
    /\ UNCHANGED <<q, sent, gone>>

\* Every message that can be reached from the queue, in order.  (The list of
\* years can end in a circle, see NothingLost.)
Contents ==
    LET OfEvents[i \in Nat, events \in Seq([date : Nat, msgs : Seq(Nat)])] ==
          IF i > Len(events) THEN <<>>
          ELSE [j \in DOMAIN events[i].msgs |-> [date |-> events[i].date, msg |-> events[i].msgs[j]]]
               \o OfEvents[i + 1, events]
        OfBuckets[b \in Nat] ==
          IF b = Null THEN <<>>
          ELSE OfEvents[1, q.bucket[b].events] \o OfBuckets[q.bucket[b].next]
        OfYears[y \in Nat, passed \in SUBSET Objects] ==
          IF y = Null \/ y \in passed THEN <<>>
          ELSE OfBuckets[q.year[y].head] \o OfYears[q.year[y].next, passed \cup {y}]
    IN  OfYears[q.head, {}]

\* pqRemove.  The message counter keeps its value.
Remove(date, msg) ==
    LET y == FindYear(q, date \div D)
        b == FindBucket(q, q.year[y].root, date)
        events == q.bucket[b].events
        late == {i \in DOMAIN events : events[i].date >= date}
        i == CHOOSE i \in late : \A j \in late : i <= j
        NotIt(m) == m # msg
    IN  /\ sent' = sent /\ ret' = Null
        /\ q.tail # Null /\ date \div D <= q.year[q.tail].number
        /\ y # Null /\ late # {}
        /\ \/ Scars
           \/ q.head = q.tail /\ (Len(events) > 1 \/ b = q.year[y].head)
        /\ \E j \in DOMAIN events[i].msgs : events[i].msgs[j] = msg
        /\ gone' = gone \cup {msg}
        /\ q' = IF Len(events[i].msgs) = 1 THEN RemoveEvent(q, y, b, i)
                ELSE [q EXCEPT !.bucket[b].events[i].msgs = SelectSeq(@, NotIt)]

-----------------------------------------------------------------------------
(* Iterators: the message that comes next, by year, bucket, event, message  *)

At(y, b, i) == [year |-> y, bucket |-> b, ev |-> i, msg |-> 1]
FirstOf(y) == At(y, q.year[y].head, 1)
AtEnd == [year |-> Null, bucket |-> Null, ev |-> 0, msg |-> 0]

EventAt(it) == q.bucket[it.bucket].events[it.ev]

\* pqiNew
NewIterator == IF q.head = Null THEN AtEnd ELSE FirstOf(q.head)

\* Mutant of CacheForward: the next bucket is not looked for.
SkipBuckets(it) ==
    IF it.msg < Len(EventAt(it).msgs) THEN [it EXCEPT !.msg = @ + 1]
    ELSE IF it.ev < Len(q.bucket[it.bucket].events) THEN At(it.year, it.bucket, it.ev + 1)
    ELSE IF q.year[it.year].next # Null THEN FirstOf(q.year[it.year].next)
    ELSE AtEnd

\* cache_forward
CacheForward(it) ==
    LET bucket == q.bucket[it.bucket]
        year == q.year[it.year]
    IN  IF it.msg < Len(EventAt(it).msgs) THEN [it EXCEPT !.msg = @ + 1]
        ELSE IF it.ev < Len(bucket.events) THEN At(it.year, it.bucket, it.ev + 1)
        ELSE IF bucket.next # Null THEN At(it.year, bucket.next, 1)
        ELSE IF year.next # Null THEN FirstOf(year.next)
        ELSE AtEnd

\* cache_backward: the messages of an event in their order, and of the bucket
\* before and of the year before the first event only.
CacheBackward(it) ==
    LET bucket == q.bucket[it.bucket]
        year == q.year[it.year]
    IN  IF it.msg < Len(EventAt(it).msgs) THEN [it EXCEPT !.msg = @ + 1]
        ELSE IF it.ev > 1 THEN At(it.year, it.bucket, it.ev - 1)
        ELSE IF bucket.prev # Null THEN At(it.year, bucket.prev, 1)
        ELSE IF year.prev # Null THEN FirstOf(year.prev)
        ELSE AtEnd

\* The year of the date has messages, but none so late.
OnlyEarlier(date) ==
    LET y == FindYear(q, date \div D)
        b == FindBucket(q, q.year[y].root, date)
    IN  /\ q.tail # Null /\ date \div D <= q.year[q.tail].number
        /\ y # Null
        /\ q.bucket[b].next = Null
        /\ \A i \in DOMAIN q.bucket[b].events : q.bucket[b].events[i].date < date

\* pqiJumpTo; after a year with earlier messages only, it is the first
\* message of this year.
JumpTo(date) ==
    LET y == FindYear(q, date \div D)
        later == NotBefore(q, q.head, date \div D)
        b == FindBucket(q, q.year[y].root, date)
        late == {i \in DOMAIN q.bucket[b].events : q.bucket[b].events[i].date >= date}
    IN  IF q.tail = Null \/ date \div D > q.year[q.tail].number THEN AtEnd
        ELSE IF y = Null THEN FirstOf(later)
        ELSE IF late # {} THEN At(y, b, CHOOSE i \in late : \A j \in late : i <= j)
        ELSE IF q.bucket[b].next # Null THEN At(y, q.bucket[b].next, 1)
        ELSE FirstOf(y)

\* What pqiForward gives, call after call, up to a date.
RECURSIVE Forwards(_, _)
Forwards(it, date) ==
    IF it = AtEnd \/ EventAt(it).date > date THEN <<>>
    ELSE <<[date |-> EventAt(it).date, msg |-> EventAt(it).msgs[it.msg]]>>
         \o Forwards(CacheForward(it), date)

\* The dates of what pqiBackward gives.
RECURSIVE Backwards(_, _)
Backwards(it, date) ==
    IF it = AtEnd \/ EventAt(it).date < date THEN <<>>
    ELSE <<EventAt(it).date>> \o Backwards(CacheBackward(it), date)

-----------------------------------------------------------------------------
(* The behaviours *)

Init == q = Empty /\ sent = 0 /\ gone = {} /\ ret = Null

Next ==
    /\ ~q.bad
    /\ \/ \E date \in Dates : Enqueue(date) \/ Dequeue(date) \/ NothingDue(date)
       \/ \E i \in DOMAIN Contents : Remove(Contents[i].date, Contents[i].msg)

Spec == Init /\ [][Next]_vars

-----------------------------------------------------------------------------
(* Properties *)

RECURSIVE YearsFrom(_, _)
YearsFrom(m, y) == IF y = Null THEN <<>> ELSE <<y>> \o YearsFrom(m, m.year[y].next)

RECURSIVE BucketsFrom(_, _)
BucketsFrom(m, b) == IF b = Null THEN <<>> ELSE <<b>> \o BucketsFrom(m, m.bucket[b].next)

RECURSIVE Leaves(_, _)
Leaves(m, n) ==
    IF IsLeaf(m, n) THEN <<m.node[n].bucket>>
    ELSE Leaves(m, m.node[n].left) \o Leaves(m, m.node[n].right)

RECURSIVE TrueHeight(_, _)
TrueHeight(m, n) ==
    IF IsLeaf(m, n) THEN 1
    ELSE LET l == TrueHeight(m, m.node[n].left)
             r == TrueHeight(m, m.node[n].right)
         IN  1 + (IF l > r THEN l ELSE r)

LeavesAreBuckets(m, y) ==
    LET buckets == BucketsFrom(m, m.year[y].head)
    IN  /\ Leaves(m, m.year[y].root) = buckets
        /\ \A i \in DOMAIN buckets : m.bucket[buckets[i]].events # <<>>

TreesBalanced(m) ==
    \A n \in {o \in Objects : m.node[o] # BlankNode} :
      ~IsLeaf(m, n) => TrueHeight(m, m.node[n].left) - TrueHeight(m, m.node[n].right) \in -1..1

\* The list of the buckets of a year, which pqDequeue follows, and its tree,
\* which pqEnqueue descends, agree: the buckets are the leaves of the tree
\* from left to right, and none is empty.  While a queue is only filled the
\* trees are balanced, whatever the order of the dates: the depth of a search
\* is logarithmic.  No assertion of the rotations fails, no list that is walked
\* ends before the object that is looked for, and no bucket is cut behind its
\* last event.
TreesAgree ==
    /\ ~q.bad
    /\ LET years == YearsFrom(q, q.head)
       IN  \A i \in DOMAIN years : LeavesAreBuckets(q, years[i])
    /\ gone = {} => TreesBalanced(q)

\* An iterator of an unchanged queue visits what pqDequeue would take out, in
\* the same order.  If no removal left a link unrepaired, and no year came
\* after an earlier one of its entry in the table (Collisions), it may start
\* at or after a date, unless the year of the date has only earlier messages,
\* and going back it never meets a later date.
IteratesInOrder ==
    /\ \A date \in Dates :
         LET UpTo(m) == m.date <= date
         IN  Forwards(NewIterator, date) = SelectSeq(Contents, UpTo)
    /\ ~q.scarred =>
         \A date \in Dates :
           LET From(m) == m.date >= date
               last == CHOOSE d \in Dates : \A e \in Dates : e <= d
               back == Backwards(JumpTo(date), 0)
           IN  /\ ~OnlyEarlier(date) =>
                    Forwards(JumpTo(date), last) = SelectSeq(Contents, From)
               /\ \A i \in 1..(Len(back) - 1) : back[i + 1] <= back[i]

\* The calendar is the priority queue its header promises, through splits,
\* rotations and entries of the table that years share or leave to others:
\* the oldest message of the earliest date comes out first, and no call
\* changes what the others find.  It is not once a year has come after an
\* earlier one of its entry (Collisions, pq_collide.cfg).
Abstract == INSTANCE PriorityQueue WITH pending <- Contents, Null <- Null
ImplementsPriorityQueue == Abstract!Spec

\* "dequeue one message if event exists such that event.date <= date,
\* return NULL otherwise" (priority_queue.h:69): messages that were enqueued
\* and not dequeued can be reached.
NothingLost ==
    \A m \in 1..sent \ gone : \E i \in DOMAIN Contents : Contents[i].msg = m
=============================================================================
