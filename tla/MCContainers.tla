----------------------------- MODULE MCContainers -----------------------------
(* Small instances of the containers for TLC: a stack, a map and a calendar  *)
(* queue.  They share nothing, so each is used while the others are new.     *)
EXTENDS GenericStack, TextSegments, CalendarSizes

CONSTANTS ta, tb, tc

\* Rows of one and of two texts: chains and a row of their own.
RowOf == [t \in Texts \cup {EmptyText} |-> IF t = ta THEN 1 ELSE 0]

\* Dates of four years of length 4: the first can be split at every date, and
\* the last has the same entry in a table of three years.
DatesDef == 0..4 \cup {8, 12}

VARIABLES q, sent, gone, ret
Calendar == INSTANCE CalendarQueue

Start == Init /\ MapInit /\ Calendar!Init
Step ==
  \/ MapInit /\ Calendar!Init /\ Next /\ UNCHANGED <<map, q, sent, gone, ret>>
  \/ Init /\ Calendar!Init /\ MapNext /\ UNCHANGED <<vars, q, sent, gone, ret>>
  \/ Init /\ MapInit /\ Calendar!Next /\ UNCHANGED <<vars, map>>
Containers == Start /\ [][Step]_<<vars, map, q, sent, gone, ret>>

\* The trees and lists of the calendar agree (CalendarQueue).
TreesAgree == Calendar!TreesAgree

\* Iterators of the calendar visit its messages in order (CalendarQueue).
IteratesInOrder == Calendar!IteratesInOrder

\* The calendar is a priority queue (CalendarQueue).
ImplementsPriorityQueue == Calendar!ImplementsPriorityQueue
===============================================================================
