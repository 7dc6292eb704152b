--------------------------- MODULE PriorityQueue ---------------------------
(***************************************************************************)
(* What priority_queue.h of the RTC extension promises: messages come out   *)
(* in the order of their dates, messages of one date in the order in which  *)
(* they were enqueued, and none before the date the caller asks for.        *)
(***************************************************************************)
EXTENDS Naturals, Sequences

CONSTANTS
    Dates,    \* the dates of messages, and those asked for
    MaxMsgs,  \* messages are numbered from 1 as they are enqueued
    Null      \* no message

VARIABLES
    pending,  \* the messages in the queue, first to be dequeued first
    sent,     \* how many were enqueued
    ret       \* what the last call returned

vars == <<pending, sent, ret>>

\* The message waits behind those that are not later than it.
Placed(entries, e) ==
    LET NotLater(x) == x.date <= e.date
        Later(x) == x.date > e.date
    IN  SelectSeq(entries, NotLater) \o <<e>> \o SelectSeq(entries, Later)

Init == pending = <<>> /\ sent = 0 /\ ret = Null

Enqueue(date) ==
    /\ sent < MaxMsgs
    /\ sent' = sent + 1
    /\ ret' = Null
    /\ pending' = Placed(pending, [date |-> date, msg |-> sent + 1])

Due(date) == pending # <<>> /\ Head(pending).date <= date

Dequeue(date) ==
    /\ UNCHANGED sent
    /\ Due(date)
    /\ ret' = Head(pending).msg
    /\ pending' = Tail(pending)

NothingDue(date) ==
    /\ UNCHANGED sent
    /\ ret' = Null
    /\ ~Due(date)
    /\ UNCHANGED pending

\* pqRemove of a message that is in the queue.
Remove(msg) ==
    LET NotIt(e) == e.msg # msg
    IN  /\ UNCHANGED sent
        /\ ret' = Null
        /\ \E i \in DOMAIN pending : pending[i].msg = msg
        /\ pending' = SelectSeq(pending, NotIt)

Next ==
    \/ \E date \in Dates : Enqueue(date) \/ Dequeue(date) \/ NothingDue(date)
    \/ \E msg \in 1..MaxMsgs : Remove(msg)

Spec == Init /\ [][Next]_vars
=============================================================================
