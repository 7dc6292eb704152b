---------------------------- MODULE WaitingProofs ----------------------------
(***************************************************************************)
(* Whoever waits is woken, in the two places where the code waits outside  *)
(* the scheduler: a reader in the blocker of a message queue, and the      *)
(* client of the thread engine in the mutex of the foreground program.     *)
(***************************************************************************)
EXTENDS ThreadEngine, MessageQueue, FiniteSetTheorems, TLAPS

-----------------------------------------------------------------------------
(* The message queue (module MessageQueue), when every thread reads with   *)
(* its own readers: the inductive invariant and what follows from it, that *)
(* no reader sleeps while there is a message for it and that the ring is   *)
(* the log of MessageLog.                                                  *)

\* The slot k behind the write head holds the k-th message from the end, as
\* far as messages were written.
Ring ==
  \A s \in Slots :
    Ahead(s, wr) # 0 /\ Ahead(s, wr) <= sent => values[s] = sent - Ahead(s, wr) + 1

\* A reader is never ahead of the writer.
ReadersBehind ==
  \A r \in Readers :
    rd[r] # NULL => owner[r] \in Threads /\ Ahead(rd[r], wr) <= sent

\* A blocked thread is in the blocker once, one instruction too far, because of
\* a reader of its own that has nothing to read.
Sleepers ==
  /\ IsInjective(stack) /\ Range(stack) = blocked
  /\ \A t \in Threads : skew[t] = IF t \in blocked THEN 1 ELSE 0
  /\ \A t \in blocked : /\ retry[t] \in Readers
                        /\ rd[retry[t]] = wr
                        /\ owner[retry[t]] = t

Inv == TypeOK /\ Ring /\ ReadersBehind /\ Sleepers

-----------------------------------------------------------------------------
(* The ring.                                                                 *)

\* Moving the write head moves it one slot further ahead of every slot but the
\* one that it reaches.
LEMMA MovedAhead ==
  ASSUME NEW s \in Slots, NEW x \in Slots
  PROVE  /\ Moved(x) \in Slots
         /\ Ahead(s, x) \in Slots
         /\ Ahead(s, Moved(x)) = IF Ahead(s, x) = FIFO_SZ - 1 THEN 0 ELSE Ahead(s, x) + 1
         /\ Ahead(s, x) = 0 <=> s = x
BY ConstantsAssumption DEF Slots, Moved, Ahead

\* Moving a read head that has something to read brings it one slot closer.
LEMMA MovedCloser ==
  ASSUME NEW s \in Slots, NEW x \in Slots, s # x
  PROVE  Ahead(Moved(s), x) = Ahead(s, x) - 1
BY ConstantsAssumption DEF Slots, Moved, Ahead

LEMMA InitInv == QueueInit => Inv
<1> SUFFICES ASSUME QueueInit PROVE Inv
  OBVIOUS
<1>1. TypeOK
  BY ConstantsAssumption DEF QueueInit, TypeOK, Slots
<1>2. Ring
  BY ConstantsAssumption DEF QueueInit, Ring, Slots, Ahead
<1>3. ReadersBehind
  BY DEF QueueInit, ReadersBehind
<1>4. Sleepers
  BY DEF QueueInit, Sleepers, IsInjective, Range
<1> QED
  BY <1>1, <1>2, <1>3, <1>4 DEF Inv

-----------------------------------------------------------------------------
(* One lemma per operation.                                                  *)

LEMMA ReaderNewInv ==
  ASSUME Inv, NEW t \in Threads \ blocked, ReaderNew(t)
  PROVE  Inv'
<1>1. PICK r \in Readers : /\ rd[r] = NULL
                           /\ rd' = [rd EXCEPT ![r] = wr]
                           /\ owner' = [owner EXCEPT ![r] = t]
  BY DEF ReaderNew, StartAt
<1>2. UNCHANGED <<values, wr, sent, stack, blocked, skew, retry, last>>
  BY DEF ReaderNew, threadVars
<1>3. wr \in Slots /\ wr # NULL
  BY ConstantsAssumption DEF Inv, TypeOK, Slots
<1>4. TypeOK'
  BY <1>1, <1>2, <1>3 DEF Inv, TypeOK
<1>5. Ring'
  BY <1>2 DEF Inv, Ring, Ahead
<1>6. ReadersBehind'
  <2> SUFFICES ASSUME NEW q \in Readers, rd'[q] # NULL
               PROVE  owner'[q] \in Threads /\ Ahead(rd'[q], wr) <= sent
    BY <1>2 DEF ReadersBehind, Ahead
  <2>1. CASE q = r
    BY <1>1, <1>3, <2>1, MovedAhead DEF Inv, TypeOK
  <2>2. CASE q # r
    BY <1>1, <2>2 DEF Inv, TypeOK, ReadersBehind
  <2> QED
    BY <2>1, <2>2
<1>7. Sleepers'
  <2> SUFFICES ASSUME NEW u \in blocked
               PROVE  rd'[retry[u]] = wr /\ owner'[retry[u]] = u
    BY <1>2 DEF Inv, Sleepers
  <2>1. retry[u] \in Readers /\ rd[retry[u]] = wr /\ owner[retry[u]] = u
    BY DEF Inv, Sleepers
  <2> QED
    BY <1>1, <1>3, <2>1 DEF Inv, TypeOK
<1> QED
  BY <1>4, <1>5, <1>6, <1>7 DEF Inv

\* A thread is in the blocker as often as it is blocked.
LEMMA BackToZero ==
  ASSUME Inv, NEW t \in Threads
  PROVE  BackTo(t) = 0
<1> DEFINE I == {i \in DOMAIN stack : stack[i] = t}
<1>1. CASE t \in blocked
  <2>1. PICK i \in DOMAIN stack : stack[i] = t
    BY <1>1 DEF Inv, Sleepers, Range
  <2>2. I = {i}
    BY <2>1 DEF Inv, Sleepers, IsInjective
  <2>3. Cardinality(I) = 1
    BY <2>2, FS_Singleton
  <2> QED
    BY <1>1, <2>3 DEF BackTo, Inv, Sleepers
<1>2. CASE t \notin blocked
  <2>1. I = {}
    BY <1>2 DEF Inv, Sleepers, Range
  <2>2. Cardinality(I) = 0
    BY <2>1, FS_EmptySet
  <2> QED
    BY <1>2, <2>2 DEF BackTo, Inv, Sleepers
<1> QED
  BY <1>1, <1>2

LEMMA WriteInv ==
  ASSUME Inv, NEW t \in Threads \ blocked, Write(t)
  PROVE  Inv'
<1>1. /\ wr' = Moved(wr) /\ sent' = sent + 1 /\ sent < MaxSent
      /\ values' = [values EXCEPT ![wr] = sent + 1]
      /\ stack' = <<>> /\ blocked' = {} /\ skew' = [u \in Threads |-> 0]
      /\ UNCHANGED <<rd, owner, retry, last>>
  BY BackToZero DEF Write, Resumed, Inv, Sleepers
<1>2. wr \in Slots /\ wr' \in Slots /\ sent \in Nat
  BY <1>1, MovedAhead DEF Inv, TypeOK
<1>3. TypeOK'
  BY <1>1, <1>2, ConstantsAssumption DEF Inv, TypeOK, Slots
<1>4. Ring'
  <2> SUFFICES ASSUME NEW s \in Slots, Ahead(s, wr') # 0, Ahead(s, wr') <= sent'
               PROVE  values'[s] = sent' - Ahead(s, wr') + 1
    BY Zenon DEF Ring, Ahead
  <2>1. Ahead(s, wr') = Ahead(s, wr) + 1
    BY <1>1, <1>2, MovedAhead
  <2>2. Ahead(s, wr) \in Slots /\ (Ahead(s, wr) = 0 <=> s = wr)
    BY <1>2, MovedAhead
  <2>3. CASE s = wr
    BY <1>1, <1>2, <2>1, <2>2, <2>3 DEF Inv, TypeOK
  <2>4. CASE s # wr
    <3>1. values'[s] = values[s]
      BY <1>1, <2>4 DEF Inv, TypeOK
    <3>2. values[s] = sent - Ahead(s, wr) + 1
      BY <1>1, <1>2, <2>1, <2>2, <2>4 DEF Inv, Ring, Slots
    <3> QED
      BY <1>1, <1>2, <2>1, <2>2, <3>1, <3>2 DEF Slots
  <2> QED
    BY <2>3, <2>4
<1>5. ReadersBehind'
  <2> SUFFICES ASSUME NEW r \in Readers, rd[r] # NULL
               PROVE  owner[r] \in Threads /\ Ahead(rd[r], wr') <= sent + 1
    BY <1>1 DEF ReadersBehind, Ahead
  <2>1. rd[r] \in Slots
    BY DEF Inv, TypeOK
  <2>2. owner[r] \in Threads /\ Ahead(rd[r], wr) <= sent
    BY DEF Inv, ReadersBehind
  <2>3. /\ Ahead(rd[r], wr) \in Slots
        /\ Ahead(rd[r], wr') = IF Ahead(rd[r], wr) = FIFO_SZ - 1 THEN 0 ELSE Ahead(rd[r], wr) + 1
    BY <1>1, <1>2, <2>1, MovedAhead
  <2> QED
    BY <1>2, <2>2, <2>3 DEF Slots
<1>6. Sleepers'
  BY <1>1 DEF Sleepers, IsInjective, Range
<1> QED
  BY <1>3, <1>4, <1>5, <1>6 DEF Inv

LEMMA ReadMessageInv ==
  ASSUME Inv, NEW t \in Threads \ blocked, NEW r \in Readers,
         rd[r] # NULL, owner[r] = t, ReadMessage(t, r)
  PROVE  Inv'
<1>1. /\ rd' = [rd EXCEPT ![r] = Moved(rd[r])] /\ rd[r] # wr
      /\ last' = [last EXCEPT ![t] = values[rd[r]]]
      /\ retry' = [retry EXCEPT ![t] = NULL]
      /\ UNCHANGED <<values, wr, owner, stack, blocked, skew, sent>>
  BY DEF ReadMessage
<1>2. rd[r] \in Slots /\ Moved(rd[r]) \in Slots /\ wr \in Slots /\ sent \in Nat
  BY MovedAhead DEF Inv, TypeOK
<1>3. TypeOK'
  BY <1>1, <1>2 DEF Inv, TypeOK
<1>4. Ring'
  BY <1>1 DEF Inv, Ring, Ahead
<1>5. ReadersBehind'
  <2> SUFFICES ASSUME NEW q \in Readers, rd'[q] # NULL
               PROVE  owner[q] \in Threads /\ Ahead(rd'[q], wr) <= sent
    BY <1>1 DEF ReadersBehind, Ahead
  <2>1. CASE q = r
    <3>1. rd'[q] = Moved(rd[r])
      BY <1>1, <2>1 DEF Inv, TypeOK
    <3>2. Ahead(rd'[q], wr) = Ahead(rd[r], wr) - 1
      BY <1>1, <1>2, <3>1, MovedCloser
    <3>3. Ahead(rd[r], wr) \in Slots /\ Ahead(rd[r], wr) <= sent /\ owner[r] \in Threads
      BY <1>2, MovedAhead DEF Inv, ReadersBehind
    <3> QED
      BY <1>2, <2>1, <3>2, <3>3 DEF Slots
  <2>2. CASE q # r
    BY <1>1, <2>2 DEF Inv, TypeOK, ReadersBehind
  <2> QED
    BY <2>1, <2>2
<1>6. Sleepers'
  <2> SUFFICES ASSUME NEW u \in blocked
               PROVE  /\ retry'[u] \in Readers
                      /\ rd'[retry'[u]] = wr
                      /\ owner[retry'[u]] = u
    BY <1>1 DEF Inv, Sleepers
  <2>1. retry[u] \in Readers /\ rd[retry[u]] = wr /\ owner[retry[u]] = u /\ u # t
    BY DEF Inv, Sleepers
  <2>2. retry'[u] = retry[u] /\ retry[u] # r
    BY <1>1, <2>1 DEF Inv, TypeOK
  <2> QED
    BY <1>1, <2>1, <2>2 DEF Inv, TypeOK
<1> QED
  BY <1>3, <1>4, <1>5, <1>6 DEF Inv

LEMMA ReadNothingInv ==
  ASSUME Inv, NEW t \in Threads \ blocked, NEW r \in Readers,
         rd[r] # NULL, owner[r] = t, ReadNothing(t, r)
  PROVE  Inv'
<1>1. /\ rd[r] = wr
      /\ stack' = <<t>> \o stack /\ blocked' = blocked \cup {t}
      /\ skew' = [skew EXCEPT ![t] = @ + 1]
      /\ retry' = [retry EXCEPT ![t] = r]
      /\ UNCHANGED <<values, wr, rd, owner, sent, last>>
  BY DEF ReadNothing
<1>2. stack \in Seq(Threads) /\ t \notin Range(stack)
  BY DEF Inv, TypeOK, Sleepers
<1>3. TypeOK'
  BY <1>1, <1>2 DEF Inv, TypeOK
<1>4. Ring' /\ ReadersBehind'
  BY <1>1 DEF Inv, Ring, ReadersBehind, Ahead
<1>5. IsInjective(stack') /\ Range(stack') = blocked'
  <2>1. /\ DOMAIN stack' = 1 .. Len(stack) + 1
        /\ \A i \in DOMAIN stack' : stack'[i] = IF i = 1 THEN t ELSE stack[i - 1]
    BY <1>1, <1>2
  <2>2. IsInjective(stack')
    <3> SUFFICES ASSUME NEW i \in DOMAIN stack', NEW j \in DOMAIN stack', stack'[i] = stack'[j]
                 PROVE  i = j
      BY DEF IsInjective
    <3>1. \A k \in DOMAIN stack' : k # 1 => k - 1 \in DOMAIN stack /\ stack[k - 1] # t
      BY <1>2, <2>1 DEF Range
    <3> QED
      BY <2>1, <3>1 DEF Inv, Sleepers, IsInjective
  <2>3. Range(stack') \subseteq Range(stack) \cup {t}
    BY <1>2, <2>1 DEF Range
  <2>4. Range(stack) \cup {t} \subseteq Range(stack')
    <3>1. t \in Range(stack')
      BY <1>2, <2>1 DEF Range
    <3>2. \A i \in DOMAIN stack : i + 1 \in DOMAIN stack' /\ stack'[i + 1] = stack[i]
      BY <1>2, <2>1
    <3> QED
      BY <3>1, <3>2 DEF Range
  <2> QED
    BY <1>1, <2>2, <2>3, <2>4 DEF Inv, Sleepers
<1>6. \A u \in Threads : skew'[u] = IF u \in blocked' THEN 1 ELSE 0
  BY <1>1 DEF Inv, TypeOK, Sleepers
<1>7. \A u \in blocked' : retry'[u] \in Readers /\ rd[retry'[u]] = wr /\ owner[retry'[u]] = u
  BY <1>1 DEF Inv, TypeOK, Sleepers
<1> QED
  BY <1>1, <1>3, <1>4, <1>5, <1>6, <1>7 DEF Inv, Sleepers

LEMMA StepInv == ASSUME StrangersRead = FALSE, Inv, [QueueNext]_queue_vars PROVE Inv'
<1>1. CASE QueueNext
  <2>1. PICK t \in Threads \ blocked : Read(t) \/ ReaderNew(t) \/ Write(t)
    BY <1>1 DEF QueueNext
  <2>2. CASE Read(t)
    <3>1. PICK r \in Readers : /\ rd[r] # NULL /\ owner[r] = t
                               /\ ReadMessage(t, r) \/ ReadNothing(t, r)
      BY <2>2 DEF Read
    <3> QED
      BY <3>1, ReadMessageInv, ReadNothingInv
  <2> QED
    BY <2>1, <2>2, ReaderNewInv, WriteInv
<1>2. CASE UNCHANGED queue_vars
  BY <1>2 DEF queue_vars, threadVars, Inv, TypeOK, Ring, ReadersBehind, Sleepers, Ahead,
     IsInjective, Range
<1> QED
  BY <1>1, <1>2

-----------------------------------------------------------------------------

\* Inv holds as long as threads read with their own readers.
THEOREM QueueInvariance == ASSUME StrangersRead = FALSE PROVE QueueSpec => []Inv
<1>1. QueueInit => Inv
  BY InitInv
<1>2. Inv /\ [QueueNext]_queue_vars => Inv'
  BY StepInv
<1> QED
  BY <1>1, <1>2, PTL DEF QueueSpec

\* The heads stay in the ring and the messages in their range.
THEOREM QueueTypeCorrect == ASSUME StrangersRead = FALSE PROVE QueueSpec => []TypeOK
<1>1. Inv => TypeOK
  BY DEF Inv
<1> QED
  BY <1>1, QueueInvariance, PTL

\* No reader sleeps while there is a message for it.
THEOREM SleepersWoken == ASSUME StrangersRead = FALSE PROVE QueueSpec => []NoSleepingReader
<1>1. Inv => NoSleepingReader
  BY ConstantsAssumption DEF Inv, Sleepers, NoSleepingReader
<1> QED
  BY <1>1, QueueInvariance, PTL

\* A resumed thread executes the read that suspended it, once.
THEOREM ReadsRetried == ASSUME StrangersRead = FALSE PROVE QueueSpec => []RetriesTheRead
<1>1. Inv => RetriesTheRead
  BY DEF Inv, Sleepers, RetriesTheRead
<1> QED
  BY <1>1, QueueInvariance, PTL

-----------------------------------------------------------------------------
(* The ring implements MessageLog.                                           *)

LEMMA OpenRefines ==
  ASSUME Inv, NEW t \in Threads \ blocked, ReaderNew(t)
  PROVE  Log!Next
<1>1. PICK r \in Readers : /\ rd[r] = NULL
                           /\ rd' = [rd EXCEPT ![r] = wr]
  BY DEF ReaderNew, StartAt
<1>2. UNCHANGED <<wr, sent, blocked, retry, last>>
  BY DEF ReaderNew, threadVars
<1>3. wr \in Slots /\ sent \in Nat /\ rd \in [Readers -> Slots \cup {NULL}]
  BY ConstantsAssumption DEF Inv, TypeOK
<1>5. wr # NULL
  BY <1>3, ConstantsAssumption DEF Slots
<1>6. sent - Ahead(wr, wr) = sent
  BY <1>3, ConstantsAssumption DEF Ahead, Slots
<1>4. Log!Open(r)
  <2> SUFFICES [q \in Readers |-> IF rd'[q] = NULL THEN NULL ELSE sent - Ahead(rd'[q], wr)] =
               [[q \in Readers |-> IF rd[q] = NULL THEN NULL ELSE sent - Ahead(rd[q], wr)]
                  EXCEPT ![r] = sent]
    BY <1>1, <1>2 DEF Log!Open, Ahead
  <2>1. \A q \in Readers : rd'[q] = IF q = r THEN wr ELSE rd[q]
    BY <1>1, <1>3
  <2>2. \A q \in Readers : (IF rd'[q] = NULL THEN NULL ELSE sent - Ahead(rd'[q], wr)) =
          IF q = r THEN sent ELSE IF rd[q] = NULL THEN NULL ELSE sent - Ahead(rd[q], wr)
    <3> TAKE q \in Readers
    <3>1. CASE q = r
      BY <1>5, <1>6, <2>1, <3>1
    <3>2. CASE q # r
      BY <2>1, <3>2
    <3> QED
      BY <3>1, <3>2
  <2> QED
    BY <2>2
<1> QED
  BY <1>4 DEF Log!Next

LEMMA PublishRefines ==
  ASSUME Inv, NEW t \in Threads \ blocked, Write(t)
  PROVE  Log!Publish
<1>1. /\ wr' = Moved(wr) /\ sent' = sent + 1 /\ blocked' = {}
      /\ UNCHANGED <<rd, last>>
  BY DEF Write, Resumed, Inv, Sleepers
<1>2. wr \in Slots /\ sent \in Nat /\ FIFO_SZ \in Nat \ {0} /\ rd \in [Readers -> Slots \cup {NULL}]
  BY ConstantsAssumption DEF Inv, TypeOK
<1> DEFINE P(r) == IF rd[r] = NULL THEN NULL ELSE sent - Ahead(rd[r], wr)
<1>3. \A r \in Readers :
        (IF rd'[r] = NULL THEN NULL ELSE sent' - Ahead(rd'[r], wr')) =
        IF P(r) # NULL /\ sent + 1 - P(r) = FIFO_SZ THEN sent + 1 ELSE P(r)
  <2> TAKE r \in Readers
  <2>1. CASE rd[r] = NULL
    BY <1>1, <2>1
  <2>2. CASE rd[r] # NULL
    <3>1. rd[r] \in Slots
      BY <1>2, <2>2
    <3>2. /\ Ahead(rd[r], wr) \in Slots
          /\ Ahead(rd[r], wr') = IF Ahead(rd[r], wr) = FIFO_SZ - 1 THEN 0 ELSE Ahead(rd[r], wr) + 1
      BY <1>1, <1>2, <3>1, MovedAhead
    <3>3. P(r) = sent - Ahead(rd[r], wr) /\ P(r) # NULL
      BY <1>2, <2>2, <3>2, ConstantsAssumption DEF Slots
    <3> QED
      BY <1>1, <1>2, <2>2, <3>2, <3>3 DEF Slots
  <2> QED
    BY <2>1, <2>2
<1> QED
  BY <1>1, <1>3 DEF Log!Publish, Ahead

LEMMA ReadRefines ==
  ASSUME Inv, NEW t \in Threads \ blocked, NEW r \in Readers,
         rd[r] # NULL, owner[r] = t, ReadMessage(t, r) \/ ReadNothing(t, r)
  PROVE  Log!Next
<1>1. /\ wr \in Slots /\ sent \in Nat /\ rd[r] \in Slots
      /\ rd \in [Readers -> Slots \cup {NULL}] /\ retry \in [Threads -> Readers \cup {NULL}]
  BY DEF Inv, TypeOK
<1>2. Ahead(rd[r], wr) \in Slots /\ (Ahead(rd[r], wr) = 0 <=> rd[r] = wr)
  BY <1>1, MovedAhead
<1>3. sent - Ahead(rd[r], wr) # NULL
  BY <1>1, <1>2, ConstantsAssumption DEF Slots
<1>4. CASE ReadMessage(t, r)
  <2>1. /\ rd' = [rd EXCEPT ![r] = Moved(rd[r])] /\ rd[r] # wr
        /\ last' = [last EXCEPT ![t] = values[rd[r]]]
        /\ retry' = [retry EXCEPT ![t] = NULL]
        /\ UNCHANGED <<wr, sent, blocked>>
    BY <1>4 DEF ReadMessage
  <2>2. values[rd[r]] = sent - Ahead(rd[r], wr) + 1
    BY <1>1, <1>2, <2>1 DEF Inv, Ring, ReadersBehind
  <2>3. Moved(rd[r]) \in Slots /\ Moved(rd[r]) # NULL
        /\ Ahead(Moved(rd[r]), wr) = Ahead(rd[r], wr) - 1
    BY <1>1, <2>1, MovedAhead, MovedCloser, ConstantsAssumption DEF Slots
  <2>4. [q \in Readers |-> IF rd'[q] = NULL THEN NULL ELSE sent - Ahead(rd'[q], wr)] =
        [[q \in Readers |-> IF rd[q] = NULL THEN NULL ELSE sent - Ahead(rd[q], wr)]
           EXCEPT ![r] = @ + 1]
    <3>1. sent - Ahead(Moved(rd[r]), wr) = sent - Ahead(rd[r], wr) + 1
      BY <1>1, <1>2, <2>3 DEF Slots
    <3> QED
      BY <1>1, <2>1, <2>3, <3>1
  <2>5. [u \in Threads |-> IF u \in blocked THEN retry'[u] ELSE NULL] =
        [u \in Threads |-> IF u \in blocked THEN retry[u] ELSE NULL]
    BY <1>1, <2>1
  <2>6. sent - Ahead(rd[r], wr) < sent
    BY <1>1, <1>2, <2>1 DEF Slots
  <2>7. Log!Take(t, r)
    BY <1>3, <2>1, <2>2, <2>4, <2>5, <2>6 DEF Log!Take, Ahead
  <2> QED
    BY <2>7 DEF Log!Next
<1>5. CASE ReadNothing(t, r)
  <2>1. /\ rd[r] = wr /\ blocked' = blocked \cup {t} /\ retry' = [retry EXCEPT ![t] = r]
        /\ UNCHANGED <<wr, rd, sent, last>>
    BY <1>5 DEF ReadNothing
  <2>2. [u \in Threads |-> IF u \in blocked' THEN retry'[u] ELSE NULL] =
        [[u \in Threads |-> IF u \in blocked THEN retry[u] ELSE NULL] EXCEPT ![t] = r]
    BY <1>1, <2>1
  <2>3. sent - Ahead(rd[r], wr) = sent
    BY <1>1, <1>2, <2>1
  <2>4. Log!Await(t, r)
    BY <2>1, <2>2, <2>3 DEF Log!Await, Ahead
  <2> QED
    BY <2>4 DEF Log!Next
<1> QED
  BY <1>4, <1>5

\* Read by their owners, the readers get the log in order, and lose messages
\* only when they are a whole ring behind.
THEOREM LogImplemented == ASSUME StrangersRead = FALSE PROVE QueueSpec => ImplementsLog
<1>1. QueueInit => Log!Init
  BY DEF QueueInit, Log!Init
<1>2. Inv /\ [QueueNext]_queue_vars => [Log!Next]_(Log!vars)
  <2> SUFFICES ASSUME Inv, [QueueNext]_queue_vars PROVE [Log!Next]_(Log!vars)
    OBVIOUS
  <2>1. CASE QueueNext
    <3>1. PICK t \in Threads \ blocked : Read(t) \/ ReaderNew(t) \/ Write(t)
      BY <2>1 DEF QueueNext
    <3>2. Read(t) => Log!Next
      <4> SUFFICES ASSUME Read(t) PROVE Log!Next
        OBVIOUS
      <4>1. PICK r \in Readers : /\ rd[r] # NULL /\ owner[r] = t
                                 /\ ReadMessage(t, r) \/ ReadNothing(t, r)
        BY DEF Read
      <4> QED
        BY <4>1, ReadRefines
    <3> QED
      BY <3>1, <3>2, OpenRefines, PublishRefines DEF Log!Next
  <2>2. CASE UNCHANGED queue_vars
    BY <2>2 DEF queue_vars, threadVars, Log!vars, Ahead
  <2> QED
    BY <2>1, <2>2
<1> QED
  BY <1>1, <1>2, QueueInvariance, PTL DEF QueueSpec, Log!Spec, ImplementsLog

-----------------------------------------------------------------------------
(* The thread engine (module ThreadEngine): a foreground run joins its      *)
(* program, for any number of programs and of pthreads, whatever races the  *)
(* engine meets.                                                            *)
(*                                                                          *)
(* The foreground mutex has no owner.  What makes it work is that it is     *)
(* locked exactly while a foreground program is alive: there is never more  *)
(* than one, because whoever adds the next one waits for the mutex in       *)
(* thread_set_state before its thread is ready, and only the death of a     *)
(* ready thread unlocks it.                                                 *)

Adding == {"add", "load", "count", "mode", "enlist"}
Killing == {"kill", "unload", "uncount", "bury"}

Places == Adding \cup Killing \cup
    {"client", "added", "poll", "wait", "join", "deleted", "crashed", "none", "start", "loop",
     "cycle", "exec", "end", "test", "idle", "deinit", "release", "done"}

EngineTypes ==
    /\ thread \in Engines \cup {None}
    /\ fg_mutex \in BOOLEAN
    /\ state \in [Runs -> {"none", "adding", "ready", "zombie"}]
    /\ sync \in [Runs -> BOOLEAN]
    /\ pc \in [Pthreads -> Places]
    /\ at \in [Pthreads -> Runs \cup Pthreads \cup {None}]

\* The foreground programs that are alive.
Foreground == {t \in Runs : state[t] = "ready" /\ sync[t]}

\* The foreground mutex is locked exactly while there is one, and there is
\* one at most.
FgMutexHeld ==
    /\ fg_mutex <=> Foreground # {}
    /\ \A t, u \in Foreground : t = u

\* A pthread in vm_add_thread adds a thread of its own.
Added ==
    /\ \A p \in Pthreads : pc[p] \in Adding => at[p] \in Runs /\ state[at[p]] = "adding"
    /\ \A p, q \in Pthreads :
          pc[p] \in Adding /\ pc[q] \in Adding /\ at[p] = at[q] => p = q

\* The client's pthread executes no cycle.
ClientPlaces ==
    pc[Main] \in Adding \cup {"client", "added", "poll", "wait", "join", "deleted", "crashed"}

\* Whoever kills a thread finds it alive until then.
Killed == \A p \in Pthreads :
    pc[p] \in Killing => at[p] \in Runs /\ state[at[p]] = "ready"

\* th_run_fg waits for the foreground thread that it has added.
Waited == \A p \in Pthreads :
    /\ pc[p] = "added" => at[p] \in Runs /\ state[at[p]] \in {"ready", "zombie"}
    /\ pc[p] \in {"poll", "wait"} =>
          at[p] \in Runs /\ sync[at[p]] /\ state[at[p]] \in {"ready", "zombie"}

EngineInv == EngineTypes /\ FgMutexHeld /\ Added /\ ClientPlaces /\ Killed /\ Waited

-----------------------------------------------------------------------------
\* One pthread of the engine at most is in a cycle when a step is taken.
LEMMA OneInCycle ==
  ASSUME ~Overlap, NEW p \in Engines, NEW q \in Engines,
         pc[p] \in InCycle, pc[q] \in InCycle
  PROVE  p = q
<1> DEFINE In == {e \in Engines : pc[e] \in InCycle}
<1>1. IsFiniteSet(Engines)
  BY FS_Interval, EngineAssumption
<1>2. IsFiniteSet(In) /\ In \subseteq Engines
  BY <1>1, FS_Subset
<1>3. SUFFICES ASSUME p # q PROVE FALSE
  OBVIOUS
<1>4. Cardinality({p, q}) = 2
  <2>1. IsFiniteSet({p}) /\ Cardinality({p}) = 1
    BY FS_Singleton
  <2>2. Cardinality({p} \cup {q}) = Cardinality({p}) + 1
    BY <1>3, <2>1, FS_AddElement
  <2>3. {p} \cup {q} = {p, q}
    OBVIOUS
  <2> QED
    BY <2>1, <2>2, <2>3
<1>5. {p, q} \subseteq In
  OBVIOUS
<1>6. Cardinality({p, q}) <= Cardinality(In) /\ Cardinality(In) \in Nat
  BY <1>2, <1>5, FS_Subset, FS_CardinalityType
<1>7. ~(Cardinality(In) > 1)
  BY DEF Overlap
<1> QED
  BY <1>4, <1>6, <1>7

LEMMA EngineInit == Init => EngineInv
BY EngineAssumption
   DEF Init, EngineInv, EngineTypes, FgMutexHeld, Foreground, Added, ClientPlaces, Killed,
       Waited, Adding, Killing, Places, Pthreads, Runs

\* A step that changes no VM thread and takes the pthread p to w, which demands
\* nothing new.
LEMMA Quiet ==
  ASSUME EngineInv, NEW p \in Pthreads, NEW w \in Places,
         pc' = [pc EXCEPT ![p] = w],
         UNCHANGED <<fg_mutex, state, sync, at>>,
         thread' \in Engines \cup {None},
         w \in Adding => pc[p] \in Adding,
         w \in Killing => pc[p] \in Killing,
         w # "added",
         w \in {"poll", "wait"} =>
            \/ pc[p] \in {"poll", "wait"}
            \/ pc[p] = "added" /\ sync[at[p]],
         p = Main => w \in Adding \cup {"client", "added", "poll", "wait", "join", "deleted", "crashed"}
  PROVE  EngineInv'
<1>1. EngineTypes'
  BY DEF EngineInv, EngineTypes, Places, Adding, Killing
<1>2. FgMutexHeld'
  BY DEF EngineInv, FgMutexHeld, Foreground
<1>3. Added'
  BY DEF EngineInv, Added, EngineTypes
<1>4. ClientPlaces'
  BY DEF EngineInv, ClientPlaces, EngineTypes
<1>5. Killed'
  BY DEF EngineInv, Killed, EngineTypes
<1>6. Waited'
  BY DEF EngineInv, Waited, EngineTypes
<1> QED
  BY <1>1, <1>2, <1>3, <1>4, <1>5, <1>6 DEF EngineInv

\* The same for a step that lets the pthread p forget its VM thread.
LEMMA Forgets ==
  ASSUME EngineInv, NEW p \in Pthreads, NEW w \in {"join", "release", "crashed"},
         pc' = [pc EXCEPT ![p] = w],
         at' = [at EXCEPT ![p] = thread],
         UNCHANGED <<fg_mutex, state, sync, thread>>,
         p = Main => w # "release"
  PROVE  EngineInv'
<1>1. EngineTypes'
  BY DEF EngineInv, EngineTypes, Places, Pthreads
<1>2. FgMutexHeld'
  BY DEF EngineInv, FgMutexHeld, Foreground
<1>3. Added'
  BY DEF EngineInv, Added, EngineTypes, Adding
<1>4. ClientPlaces'
  BY DEF EngineInv, ClientPlaces, EngineTypes
<1>5. Killed'
  BY DEF EngineInv, Killed, EngineTypes, Killing
<1>6. Waited'
  BY DEF EngineInv, Waited, EngineTypes
<1> QED
  BY <1>1, <1>2, <1>3, <1>4, <1>5, <1>6 DEF EngineInv

\* vm_add_thread takes a new thread.
LEMMA AddInv ==
  ASSUME EngineInv, NEW p \in Pthreads, NEW fg \in BOOLEAN, NEW whence \in {"client", "exec"},
         Add(p, fg, whence)
  PROVE  EngineInv'
<1>1. PICK t \in Runs :
         /\ pc[p] = whence
         /\ state[t] = "none"
         /\ state' = [state EXCEPT ![t] = "adding"]
         /\ sync' = [sync EXCEPT ![t] = fg]
         /\ at' = [at EXCEPT ![p] = t]
         /\ pc' = [pc EXCEPT ![p] = "add"]
         /\ UNCHANGED <<thread, fg_mutex>>
  BY DEF Add, Goes, engineVars
<1>2. EngineTypes'
  <2>1. sync' \in [Runs -> BOOLEAN]
    BY <1>1 DEF EngineInv, EngineTypes
  <2>2. state' \in [Runs -> {"none", "adding", "ready", "zombie"}]
    BY <1>1 DEF EngineInv, EngineTypes
  <2>3. pc' \in [Pthreads -> Places] /\ at' \in [Pthreads -> Runs \cup Pthreads \cup {None}]
    BY <1>1 DEF EngineInv, EngineTypes, Places, Adding
  <2> QED
    BY <1>1, <2>1, <2>2, <2>3 DEF EngineInv, EngineTypes
<1>3. Foreground' = Foreground
  BY <1>1 DEF EngineInv, EngineTypes, Foreground
<1>4. FgMutexHeld'
  BY <1>1, <1>3 DEF EngineInv, FgMutexHeld
<1>5. Added'
  BY <1>1 DEF EngineInv, Added, EngineTypes, Adding
<1>6. ClientPlaces'
  BY <1>1 DEF EngineInv, ClientPlaces, EngineTypes, Adding
<1>7. Killed'
  BY <1>1 DEF EngineInv, Killed, EngineTypes, Killing
<1>8. Waited'
  BY <1>1 DEF EngineInv, Waited, EngineTypes
<1> QED
  BY <1>2, <1>4, <1>5, <1>6, <1>7, <1>8 DEF EngineInv

\* th_init starts a pthread.
LEMMA StartInv == ASSUME EngineInv, NEW p \in Pthreads, Start(p) PROVE EngineInv'
<1>1. PICK k \in Engines :
         /\ pc[p] = "mode" /\ pc[k] = "none"
         /\ thread' = k
         /\ pc' = [pc EXCEPT ![k] = "start", ![p] = "enlist"]
         /\ UNCHANGED <<fg_mutex, state, sync, at>>
  BY DEF Start
<1>2. k \in Pthreads /\ k # Main
  BY EngineAssumption DEF Pthreads
<1>3. EngineTypes'
  BY <1>1, <1>2 DEF EngineInv, EngineTypes, Places, Adding, Killing
<1>4. FgMutexHeld'
  BY <1>1 DEF EngineInv, FgMutexHeld, Foreground
<1>5. Added'
  BY <1>1, <1>2 DEF EngineInv, Added, EngineTypes, Adding
<1>6. ClientPlaces'
  <2>1. pc'[Main] \in {pc[Main], "enlist"}
    BY <1>1, <1>2 DEF EngineInv, EngineTypes, Pthreads
  <2> QED
    BY <2>1 DEF EngineInv, ClientPlaces, Adding
<1>7. Killed'
  BY <1>1, <1>2 DEF EngineInv, Killed, EngineTypes, Killing
<1>8. Waited'
  BY <1>1, <1>2 DEF EngineInv, Waited, EngineTypes
<1> QED
  BY <1>3, <1>4, <1>5, <1>6, <1>7, <1>8 DEF EngineInv

\* A foreground thread becomes ready only when there is no other.
LEMMA EnlistInv == ASSUME EngineInv, NEW p \in Pthreads, Enlist(p) PROVE EngineInv'
<1> DEFINE t == at[p]
<1>1. /\ pc[p] = "enlist"
      /\ IF sync[t] THEN ~fg_mutex /\ fg_mutex' = TRUE ELSE fg_mutex' = fg_mutex
      /\ state' = [state EXCEPT ![t] = "ready"]
      /\ pc' = [pc EXCEPT ![p] = "added"]
      /\ UNCHANGED <<thread, sync, at>>
  BY DEF Enlist, Goes
<1>2. t \in Runs /\ state[t] = "adding"
  BY <1>1 DEF EngineInv, Added, Adding
<1> HIDE DEF t
<1>3. EngineTypes'
  <2>1. fg_mutex' \in BOOLEAN
    BY <1>1 DEF EngineInv, EngineTypes, Places, Adding, Killing
  <2> QED
    BY <1>1, <1>2, <2>1 DEF EngineInv, EngineTypes, Places, Adding, Killing
<1>4. FgMutexHeld'
  <2>1. Foreground' = Foreground \cup (IF sync[t] THEN {t} ELSE {})
    BY <1>1, <1>2 DEF EngineInv, EngineTypes, Foreground
  <2>2. CASE sync[t]
    <3>1. Foreground = {}
      BY <1>1, <2>2 DEF EngineInv, FgMutexHeld
    <3> QED
      BY <1>1, <2>1, <2>2, <3>1 DEF FgMutexHeld
  <2>3. CASE ~sync[t]
    BY <1>1, <2>1, <2>3 DEF EngineInv, FgMutexHeld
  <2> QED
    BY <2>2, <2>3
<1>5. Added'
  BY <1>1, <1>2 DEF EngineInv, Added, EngineTypes, Adding, t
<1>6. ClientPlaces'
  BY <1>1 DEF EngineInv, ClientPlaces, EngineTypes, Adding
<1>7. Killed'
  BY <1>1, <1>2 DEF EngineInv, Killed, EngineTypes, Killing
<1>8. Waited'
  BY <1>1, <1>2 DEF EngineInv, Waited, EngineTypes, t
<1> QED
  BY <1>3, <1>4, <1>5, <1>6, <1>7, <1>8 DEF EngineInv

\* A cycle chooses its victim among the living.
LEMMA ExecInv == ASSUME EngineInv, NEW p \in Pthreads, Exec(p) PROVE EngineInv'
<1>1. p # Main
  BY DEF Exec, EngineInv, ClientPlaces, Adding
<1>2. CASE pc' = [pc EXCEPT ![p] = "end"] /\ UNCHANGED at
  <2>1. UNCHANGED <<thread, fg_mutex, state, sync>>
    BY DEF Exec, engineVars, vmVars
  <2>2. "end" \in Places \ (Adding \cup Killing)
    BY DEF Places, Adding, Killing
  <2>3. thread' \in Engines \cup {None}
    BY <2>1 DEF EngineInv, EngineTypes
  <2> QED
    BY <1>1, <1>2, <2>1, <2>2, <2>3, Quiet
<1>3. ASSUME NEW t \in Live, at' = [at EXCEPT ![p] = t], pc' = [pc EXCEPT ![p] = "kill"]
      PROVE  EngineInv'
  <2>1. UNCHANGED <<thread, fg_mutex, state, sync>> /\ t \in Runs /\ state[t] = "ready"
    BY DEF Exec, engineVars, vmVars, Live
  <2>2. EngineTypes'
    BY <1>3, <2>1 DEF EngineInv, EngineTypes, Places, Adding, Killing
  <2>3. FgMutexHeld'
    BY <2>1 DEF EngineInv, FgMutexHeld, Foreground
  <2>4. Added'
    BY <1>3, <2>1 DEF EngineInv, Added, EngineTypes, Adding
  <2>5. ClientPlaces'
    BY <1>1, <1>3 DEF EngineInv, ClientPlaces, EngineTypes
  <2>6. Killed'
    BY <1>3, <2>1 DEF EngineInv, Killed, EngineTypes
  <2>7. Waited'
    BY <1>3, <2>1 DEF EngineInv, Waited, EngineTypes
  <2> QED
    BY <2>2, <2>3, <2>4, <2>5, <2>6, <2>7 DEF EngineInv
<1> QED
  BY <1>2, <1>3 DEF Exec, Goes

\* The death of the foreground thread, and of no other, unlocks the mutex.
LEMMA BuryInv == ASSUME EngineInv, ~Overlap, NEW p \in Pthreads, Bury(p) PROVE EngineInv'
<1> DEFINE t == at[p]
<1>1. /\ pc[p] = "bury"
      /\ state' = [state EXCEPT ![t] = "zombie"]
      /\ fg_mutex' = (fg_mutex /\ ~sync[t])
      /\ pc' = [pc EXCEPT ![p] = "test"]
      /\ UNCHANGED <<thread, sync, at>>
  BY DEF Bury, Goes
<1>2. t \in Runs /\ state[t] = "ready"
  BY <1>1 DEF EngineInv, Killed, Killing
<1>3. p \in Engines
  BY <1>1 DEF EngineInv, ClientPlaces, Adding, Pthreads
<1> HIDE DEF t
<1>4. EngineTypes'
  BY <1>1, <1>2 DEF EngineInv, EngineTypes, Places, Adding, Killing
<1>5. FgMutexHeld'
  <2>1. Foreground' = Foreground \ {t}
    BY <1>1, <1>2 DEF EngineInv, EngineTypes, Foreground
  <2>2. CASE sync[t]
    <3>1. t \in Foreground
      BY <1>2, <2>2 DEF Foreground
    <3> QED
      BY <1>1, <2>1, <2>2, <3>1 DEF EngineInv, FgMutexHeld
  <2>3. CASE ~sync[t]
    <3>1. t \notin Foreground
      BY <2>3 DEF Foreground
    <3> QED
      BY <1>1, <2>1, <2>3, <3>1 DEF EngineInv, FgMutexHeld
  <2> QED
    BY <2>2, <2>3
<1>6. Added'
  BY <1>1, <1>2 DEF EngineInv, Added, EngineTypes, Adding
<1>7. ClientPlaces'
  BY <1>1 DEF EngineInv, ClientPlaces, EngineTypes, Adding
<1>8. Killed'
  <2>1. ASSUME NEW q \in Pthreads, pc'[q] \in Killing PROVE q # p /\ pc[q] \in Killing
    BY <1>1, <2>1 DEF EngineInv, EngineTypes, Killing
  <2>2. ASSUME NEW q \in Pthreads, q # p PROVE pc[q] \notin Killing
    <3>1. SUFFICES ASSUME pc[q] \in Killing PROVE FALSE
      OBVIOUS
    <3>2. q \in Engines
      BY <3>1 DEF EngineInv, ClientPlaces, Adding, Killing, Pthreads
    <3> QED
      BY <1>1, <1>3, <2>2, <3>1, <3>2, OneInCycle DEF InCycle, Killing
  <2> QED
    BY <2>1, <2>2 DEF Killed
<1>9. Waited'
  BY <1>1, <1>2 DEF EngineInv, Waited, EngineTypes
<1> QED
  BY <1>4, <1>5, <1>6, <1>7, <1>8, <1>9 DEF EngineInv

\* Every step of the code keeps the invariant.
LEMMA EngineStep == ASSUME EngineInv, [Next]_vars PROVE EngineInv'
<1> DEFINE Same == UNCHANGED <<fg_mutex, state, sync, at>>
           Engine(p) == p # Main
<1>t. thread \in Engines \cup {None}
  BY DEF EngineInv, EngineTypes
<1>s. /\ {"add", "load", "count", "mode", "enlist"} \subseteq Adding
      /\ {"unload", "uncount", "bury"} \subseteq Killing
      /\ Places = Adding \cup Killing \cup
           {"client", "added", "poll", "wait", "join", "deleted", "crashed", "none", "start", "loop",
            "cycle", "exec", "end", "test", "idle", "deinit", "release", "done"}
      /\ Adding \cap Killing = {}
      /\ \A w \in {"client", "poll", "wait", "start", "loop", "cycle", "exec", "end", "test", "idle",
                   "deinit", "release", "done", "deleted"} : w \notin Adding \cup Killing
  BY DEF Adding, Killing, Places
<1>m. pc[Main] \in Adding \cup {"client", "added", "poll", "wait", "join", "deleted", "crashed"}
  BY DEF EngineInv, ClientPlaces
<1>1. ASSUME NEW p \in Pthreads, Step(p) PROVE EngineInv'
  <2>1. CASE AddLocks(p)
    BY <2>1, <1>t, <1>s, Quiet DEF AddLocks, Goes, vmVars
  <2>2. CASE LoadCount(p)
    BY <2>2, <1>t, <1>s, Quiet DEF LoadCount, Goes, engineVars, vmVars
  <2>3. CASE CountUp(p)
    BY <2>3, <1>t, <1>s, Quiet DEF CountUp, Goes, engineVars
  <2>4. CASE Start(p)
    BY <2>4, StartInv
  <2>5. CASE Enlist(p)
    BY <2>5, EnlistInv
  <2>6. CASE AddUnlocks(p)
    <3>1. /\ pc[p] = "added" /\ UNCHANGED <<thread, fg_mutex, state, sync, at>>
          /\ pc' = [pc EXCEPT ![p] = IF sync[at[p]] THEN "poll" ELSE Home(p)]
      BY <2>6 DEF AddUnlocks, Goes, vmVars
    <3>2. CASE sync[at[p]]
      BY <3>1, <3>2, <1>t, <1>s, Quiet
    <3>3. CASE ~sync[at[p]]
      BY <3>1, <3>3, <1>t, <1>s, Quiet DEF Home
    <3> QED
      BY <3>2, <3>3
  <2>7. CASE Poll(p)
    BY <2>7, <1>t, <1>s, Quiet DEF Poll, Goes, engineVars, vmVars
  <2>8. CASE Return(p)
    <3>1. /\ pc[p] = "wait" /\ UNCHANGED <<thread, fg_mutex, state, sync, at>>
          /\ pc' = [pc EXCEPT ![p] = Home(p)]
      BY <2>8 DEF Return, Goes, engineVars, vmVars
    <3> QED
      BY <3>1, <1>t, <1>s, Quiet DEF Home
  <2>9. CASE Begin(p)
    BY <2>9, <1>t, <1>s, <1>m, Quiet DEF Begin, Goes, vmVars
  <2>10. CASE Loop(p)
    BY <2>10, <1>t, <1>s, <1>m, Quiet DEF Loop, Goes, engineVars, vmVars
  <2>11. CASE Cycle(p)
    BY <2>11, <1>t, <1>s, <1>m, Quiet DEF Cycle, Goes, vmVars
  <2>12. CASE Exec(p)
    BY <2>12, ExecInv
  <2>13. CASE CycleEnds(p)
    BY <2>13, <1>t, <1>s, <1>m, Quiet DEF CycleEnds, Goes, vmVars
  <2>14. CASE KillLocks(p)
    BY <2>14, <1>t, <1>s, <1>m, Quiet DEF KillLocks, Goes, vmVars, Killing
  <2>15. CASE UnloadCount(p)
    BY <2>15, <1>t, <1>s, <1>m, Quiet DEF UnloadCount, Goes, engineVars, vmVars
  <2>16. CASE CountDown(p)
    BY <2>16, <1>t, <1>s, <1>m, Quiet DEF CountDown, Goes, engineVars
  <2>17. CASE Bury(p)
    BY <2>17, <1>1, BuryInv DEF Step
  <2>18. CASE TestCount(p)
    BY <2>18, <1>t, <1>s, <1>m, Quiet DEF TestCount, Goes
  <2>19. CASE Idle(p)
    BY <2>19, <1>t, <1>s, <1>m, Quiet DEF Idle, Goes
  <2>20. CASE Deinit(p)
    BY <2>20, <1>t, <1>s, <1>m, Forgets DEF Deinit, Goes, vmVars
  <2>21. CASE Release(p)
    BY <2>21, <1>t, <1>s, <1>m, Quiet DEF Release, Goes, vmVars
  <2>22. CASE Join(p)
    BY <2>22, <1>s, <1>m, Quiet DEF Join, Goes, vmVars
  <2> QED
    BY <1>1, <2>1, <2>2, <2>3, <2>4, <2>5, <2>6, <2>7, <2>8, <2>9, <2>10, <2>11, <2>12, <2>13,
       <2>14, <2>15, <2>16, <2>17, <2>18, <2>19, <2>20, <2>21, <2>22 DEF Step
<1>2. ASSUME NEW p \in Engines, Spawn(p) PROVE EngineInv'
  BY <1>2, AddInv DEF Spawn, Pthreads
<1>3. CASE Run
  BY <1>3, AddInv DEF Run, Pthreads
<1>4. CASE Kill
  <2>1. Main \in Pthreads
    BY DEF Pthreads
  <2>2. /\ UNCHANGED <<thread, fg_mutex, state, sync>> /\ at' = [at EXCEPT ![Main] = thread]
        /\ pc' = [pc EXCEPT ![Main] = IF thread = None THEN "crashed" ELSE "join"]
    BY <1>4 DEF Kill, Goes, vmVars
  <2> QED
    BY <2>1, <2>2, Forgets
<1>5. CASE UNCHANGED vars
  BY <1>5 DEF vars, engineVars, vmVars, EngineInv, EngineTypes, FgMutexHeld, Foreground, Added,
              ClientPlaces, Killed, Waited
<1> QED
  BY <1>1, <1>2, <1>3, <1>4, <1>5 DEF Next

\* The foreground mutex is locked exactly while a foreground program is alive,
\* whoever runs programs meanwhile and however the engine's pthreads overtake
\* each other (vm_engine.c).
THEOREM EngineInvariance == Spec => []EngineInv
<1>1. Init => EngineInv
  BY EngineInit
<1>2. EngineInv /\ [Next]_vars => EngineInv'
  BY EngineStep
<1> QED
  BY <1>1, <1>2, PTL DEF Spec

\* A pthread that waits in th_run_fg goes on when it gets the mutex, and
\* by nothing else.
LEMMA WaitEnds ==
  ASSUME EngineTypes, Next, NEW p \in Pthreads, pc[p] = "wait", pc'[p] # "wait"
  PROVE  ~fg_mutex
<1>1. pc \in [Pthreads -> Places]
  BY DEF EngineTypes
<1>2. ASSUME NEW q \in Pthreads, Step(q) PROVE ~fg_mutex
  <2>1. CASE q = p
    BY <1>2, <2>1 DEF Step, AddLocks, LoadCount, CountUp, Start, Enlist, AddUnlocks, Poll, Return,
         Begin, Loop, Cycle, Exec, CycleEnds, KillLocks, UnloadCount, CountDown, Bury, TestCount,
         Idle, Deinit, Release, Join
  <2>2. CASE q # p
    <3>1. pc'[p] = pc[p]
      <4>1. CASE Start(q)
        BY <1>1, <2>2, <4>1 DEF Start
      <4>2. CASE ~Start(q)
        BY <1>1, <1>2, <2>2, <4>2
           DEF Step, AddLocks, LoadCount, CountUp, Enlist, AddUnlocks, Poll, Return,
               Begin, Loop, Cycle, Exec, CycleEnds, KillLocks, UnloadCount, CountDown, Bury,
               TestCount, Idle, Deinit, Release, Join, Goes
      <4> QED
        BY <4>1, <4>2
    <3> QED
      BY <3>1
  <2> QED
    BY <2>1, <2>2
<1>3. ASSUME NEW q \in Engines, Spawn(q) PROVE pc'[p] = pc[p]
  BY <1>1, <1>3 DEF Spawn, Add, Goes
<1>4. CASE Run
  BY <1>1, <1>4 DEF Run, Add, Goes
<1>5. CASE Kill
  BY <1>1, <1>5 DEF Kill, Goes
<1> QED
  BY <1>2, <1>3, <1>4, <1>5 DEF Next

\* th_run_fg returns only once the thread it added is dead.
THEOREM ForegroundJoins == Spec => FgJoins
<1>1. ASSUME EngineInv, [Next]_vars
      PROVE  [\A p \in Pthreads : pc[p] = "wait" /\ pc'[p] # "wait" => state[at[p]] = "zombie"]_vars
  <2>1. SUFFICES ASSUME Next, NEW p \in Pthreads, pc[p] = "wait", pc'[p] # "wait"
                 PROVE  state[at[p]] = "zombie"
    BY <1>1
  <2>2. at[p] \in Runs /\ sync[at[p]] /\ state[at[p]] \in {"ready", "zombie"}
    BY <1>1, <2>1 DEF EngineInv, Waited
  <2>3. ~fg_mutex
    BY <1>1, <2>1, WaitEnds DEF EngineInv
  <2>4. at[p] \notin Foreground
    BY <1>1, <2>3 DEF EngineInv, FgMutexHeld
  <2> QED
    BY <2>2, <2>4 DEF Foreground
<1> QED
  BY <1>1, EngineInvariance, PTL DEF Spec, FgJoins
==============================================================================
