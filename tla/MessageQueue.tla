----------------------------- MODULE MessageQueue -----------------------------
(***************************************************************************)
(* The message queue extension (extension/MessageQueue/message.c): a ring  *)
(* of messages with one write head, readers with a read head each, and one *)
(* blocker for the threads that found nothing to read.                     *)
(*                                                                         *)
(* Every opcode is one step of a thread that is not blocked; which one     *)
(* runs is the scheduler's choice (module Threads).  Messages are numbered *)
(* in the order in which they are written.                                 *)
(***************************************************************************)
EXTENDS Integers, Sequences, FiniteSets, Functions

CONSTANTS
  Threads, Readers, NULL,
  FIFO_SZ,       \* size of the ring
  MaxSent,       \* bound on the number of messages
  StrangersRead  \* whether a thread reads with the reader of another thread

ASSUME ConstantsAssumption ==
  /\ FIFO_SZ \in Nat \ {0}
  /\ NULL \notin Threads \cup Readers \cup Int
  /\ MaxSent \in Nat
  /\ StrangersRead \in BOOLEAN

VARIABLES
  values,   \* mq->values: the number of the message in each slot
  wr,       \* mq->wr
  rd,       \* rdr->rd; NULL before the reader is created
  owner,    \* rdr->owner
  stack,    \* mq->blocker, top first
  blocked,  \* threads that are ThreadBlocked
  skew,     \* how many instructions too far the IP of a thread is
  retry,    \* the reader that a suspended msgQueueRead will try again
  last,     \* what the last msgQueueRead of a thread left on its stack
  sent      \* how many messages were written

threadVars == <<stack, blocked, skew, retry, last>>
queue_vars == <<values, wr, rd, owner, threadVars, sent>>

Slots == 0 .. FIFO_SZ - 1
NotAMessage == -1  \* the reader itself is still on top of the stack

\* Moving a head: (x + 1) & FIFO_MASK.
Moved(x) == IF x = FIFO_SZ - 1 THEN 0 ELSE x + 1

\* How many slots b is ahead of a.
Ahead(a, b) == IF a <= b THEN b - a ELSE b - a + FIFO_SZ

-----------------------------------------------------------------------------

\* Mutants: the IP is not moved back, or only the top of the stack is resumed.
StayPast(t) == skew[t]
OnlyTop(s) == IF s = <<>> THEN {} ELSE {s[1]}

\* blocker_resume moves the IP back once for each time the thread is there.
BackTo(t) == skew[t] - Cardinality({i \in DOMAIN stack : stack[i] = t})

\* The threads that blocker_resume makes ready.
Resumed(s) == Range(s)

\* Mutant: the read head starts at the oldest slot.
StartBehind == Moved(wr)

\* A new reader starts where the next message will be.
StartAt == wr

ReaderNew(t) ==
  /\ \E r \in Readers :
       /\ rd[r] = NULL
       /\ rd' = [rd EXCEPT ![r] = StartAt]
       /\ owner' = [owner EXCEPT ![r] = t]
  /\ UNCHANGED <<values, wr, threadVars, sent>>

\* mq_wr: whoever waits is resumed, and the write head moves on without
\* looking at the readers.
Write(t) ==
  /\ sent < MaxSent
  /\ sent' = sent + 1
  /\ values' = [values EXCEPT ![wr] = sent + 1]
  /\ stack' = <<>>
  /\ blocked' = blocked \ Resumed(stack)
  /\ skew' = [u \in Threads |-> BackTo(u)]
  /\ wr' = Moved(wr)
  /\ UNCHANGED <<rd, owner, retry, last>>

\* mq_rd with a message pending.
ReadMessage(t, r) ==
  /\ rd[r] # wr
  /\ last' = [last EXCEPT ![t] = values[rd[r]]]
  /\ rd' = [rd EXCEPT ![r] = Moved(@)]
  /\ retry' = [retry EXCEPT ![t] = NULL]
  /\ UNCHANGED <<values, wr, owner, stack, blocked, skew, sent>>

\* mq_rd with nothing to read suspends the owner of the reader.  The IP of the
\* current thread moves on all the same.
ReadNothing(t, r) ==
  /\ rd[r] = wr
  /\ stack' = <<owner[r]>> \o stack
  /\ blocked' = blocked \cup {owner[r]}
  /\ IF owner[r] = t
     THEN /\ skew' = [skew EXCEPT ![t] = @ + 1]
          /\ retry' = [retry EXCEPT ![t] = r]
          /\ UNCHANGED last
     ELSE /\ last' = [last EXCEPT ![t] = NotAMessage]
          /\ UNCHANGED <<skew, retry>>
  /\ UNCHANGED <<values, wr, rd, owner, sent>>

Read(t) ==
  \E r \in Readers :
    /\ rd[r] # NULL /\ retry[t] \in {NULL, r}
    /\ StrangersRead \/ owner[r] = t
    /\ ReadMessage(t, r) \/ ReadNothing(t, r)

\* A thread whose read was suspended executes it again.
QueueNext ==
  \E t \in Threads \ blocked :
    Read(t) \/ (retry[t] = NULL /\ (ReaderNew(t) \/ Write(t)))

QueueInit ==
  /\ values = [i \in Slots |-> 0]
  /\ wr = 0
  /\ rd = [r \in Readers |-> NULL]
  /\ owner = [r \in Readers |-> NULL]
  /\ stack = <<>> /\ blocked = {}
  /\ skew = [t \in Threads |-> 0]
  /\ retry = [t \in Threads |-> NULL]
  /\ last = [t \in Threads |-> 0]
  /\ sent = 0

QueueSpec == QueueInit /\ [][QueueNext]_queue_vars

-----------------------------------------------------------------------------
(* Properties. *)

TypeOK ==
  /\ values \in [Slots -> 0 .. MaxSent] /\ wr \in Slots /\ sent \in 0 .. MaxSent
  /\ rd \in [Readers -> Slots \cup {NULL}]
  /\ owner \in [Readers -> Threads \cup {NULL}]
  /\ stack \in Seq(Threads) /\ blocked \subseteq Threads
  /\ skew \in [Threads -> Int]
  /\ retry \in [Threads -> Readers \cup {NULL}]
  /\ last \in [Threads -> 0 .. MaxSent \cup {NotAMessage}]

\* Nobody sleeps while there is something for it to read, and nobody is blocked
\* without being in the blocker that will resume it.
NoSleepingReader ==
  \A t \in blocked : t \in Range(stack) /\ retry[t] # NULL /\ rd[retry[t]] = wr

\* A resumed thread stands at the msgQueueRead that suspended it, not before
\* it and not after.
RetriesTheRead == \A t \in Threads \ blocked : skew[t] = 0

\* Every reader gets the messages of the log in order, none twice, and loses
\* some only when it is FIFO_SZ of them behind.
Log == INSTANCE MessageLog WITH
  Size <- FIFO_SZ,
  pos  <- [r \in Readers |-> IF rd[r] = NULL THEN NULL ELSE sent - Ahead(rd[r], wr)],
  wait <- [t \in Threads |-> IF t \in blocked THEN retry[t] ELSE NULL]
ImplementsLog == Log!Spec

\* "hold 4096 messages at most" (message.c): right after a write, every reader
\* has a message to read.
WrittenIsPending ==
  [][sent' # sent => \A r \in Readers : rd[r] # NULL => rd[r] # wr']_queue_vars

\* msgQueueRead: "Stack out : any (message)" (MessageQueue.txt): a read that
\* returns has read a message.
ReadReturnsMessage == \A t \in Threads : last[t] # NotAMessage
=============================================================================
