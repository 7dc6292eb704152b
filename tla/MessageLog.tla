------------------------------ MODULE MessageLog ------------------------------
(***************************************************************************)
(* What a message queue promises its readers: the messages are a log, and  *)
(* every reader takes them one by one, in order, from where the log stood  *)
(* when the reader was created.  A reader that falls Size messages behind  *)
(* loses them all, and only then.  Whoever finds nothing waits until the   *)
(* next message.                                                           *)
(***************************************************************************)
EXTENDS Integers

CONSTANTS Threads, Readers, NULL, Size

VARIABLES
  sent,  \* how many messages were written; messages are numbered from 1
  pos,   \* the last message a reader has taken or lost; NULL: no such reader
  wait,  \* the reader that a thread waits to read from
  last   \* the message that a thread read last, 0 before the first one

vars == <<sent, pos, wait, last>>

Open(r) ==
  /\ pos[r] = NULL
  /\ pos' = [pos EXCEPT ![r] = sent]
  /\ UNCHANGED <<sent, wait, last>>

Publish ==
  /\ sent' = sent + 1
  /\ pos' = [r \in Readers |-> IF pos[r] # NULL /\ sent + 1 - pos[r] = Size
                               THEN sent + 1 ELSE pos[r]]
  /\ wait' = [t \in Threads |-> NULL]
  /\ UNCHANGED last

Take(t, r) ==
  /\ wait[t] = NULL
  /\ pos[r] # NULL /\ pos[r] < sent
  /\ last' = [last EXCEPT ![t] = pos[r] + 1]
  /\ pos' = [pos EXCEPT ![r] = @ + 1]
  /\ UNCHANGED <<sent, wait>>

Await(t, r) ==
  /\ wait[t] = NULL
  /\ pos[r] = sent
  /\ wait' = [wait EXCEPT ![t] = r]
  /\ UNCHANGED <<sent, pos, last>>

Init ==
  /\ sent = 0
  /\ pos = [r \in Readers |-> NULL]
  /\ wait = [t \in Threads |-> NULL]
  /\ last = [t \in Threads |-> 0]

Next ==
  \/ Publish
  \/ \E r \in Readers : Open(r) \/ \E t \in Threads : Take(t, r) \/ Await(t, r)

Spec == Init /\ [][Next]_vars
=============================================================================
