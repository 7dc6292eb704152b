-------------------------- MODULE MCCalendarQueue --------------------------
(* Dates of four years of length 4: the first can be split at every date,    *)
(* and the last has the same entry in a table of three years.               *)
EXTENDS CalendarQueue

DatesDef == 0..4 \cup {8, 12}
=============================================================================
