--------------------------- MODULE CalendarSizes ---------------------------
(* What a calendar queue is configured with (priority_queue.c).             *)
EXTENDS Integers

CONSTANTS
    Dates,      \* the dates of messages, and those asked for
    D,          \* length of a year
    YearHash,   \* size of the table of years (YEAR_HASH)
    BucketMax,  \* events of a bucket that is not split
    MinWidth,   \* width of an interval that is not split
    MaxMsgs,    \* bound: messages are numbered from 1 as they are enqueued
    Scars,      \* may calls follow that meet what a removal forgot to repair?
    Collisions  \* may a year come after an earlier one of its entry in the table?

ASSUME CalendarAssumption ==
    /\ Dates \subseteq Nat
    /\ {D, YearHash, BucketMax} \subseteq Nat \ {0}
    /\ MinWidth \in Nat /\ MaxMsgs \in Nat
    /\ {Scars, Collisions} \subseteq BOOLEAN
============================================================================
