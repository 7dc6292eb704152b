--------------------------- MODULE RtcTimerProofs ---------------------------
(***************************************************************************)
(* The two pthreads of RtcTimer keep the tasks, the mutex and the FIFO in   *)
(* order for any number of sleeping threads, tasks and dates and any size   *)
(* of the FIFO.                                                             *)
(***************************************************************************)
EXTENDS RtcTimer, TLAPS

-----------------------------------------------------------------------------
(* The inductive invariant *)

VmPlaces == {"initTest", "initLock", "condWait", "waiting", "relock", "initUnlock", "idle",
             "test", "acquire", "inside", "inQueue", "untest", "release", "restore",
             "push", "block", "destroy", "ended"}
TmPlaces == {"open", "upLock", "up", "signal", "unlock", "while", "read", "lock", "tick", "loop",
             "inQueue", "run", "resume", "advance", "clear", "closeLock", "close",
             "closeSignal", "unlockEnd", "done"}
Ops == {"init", "term", "none", "wait", "sched", "setBeat", "setTempo", "setRes", "nextTask"}

Records ==
    /\ vm \in [pc : VmPlaces, op : Ops, nested : BOOLEAN, saved : BOOLEAN,
               task : Tasks \cup {None}]
    /\ tm \in [pc : TmPlaces, task : Tasks \cup {None}]
    /\ sent \in 0..MaxTasks
    /\ woken \subseteq 0..MaxTasks
    /\ written \in Seq(Tasks) /\ taken \in Seq(Tasks \cup {None})

\* Which opcode is where.
Places ==
    /\ vm.pc = "idle" => vm.op = "none"
    /\ vm.pc \in {"initTest", "initLock", "initUnlock"} => vm.op = "init"
    /\ vm.pc \in {"condWait", "waiting", "relock"} => vm.op \in {"init", "term"}
    /\ vm.pc \in {"destroy", "ended"} => vm.op = "term"
    /\ vm.pc \in {"test", "acquire", "inside", "inQueue", "untest", "release", "restore"} =>
         vm.op \in {"wait", "sched", "setBeat", "setTempo", "setRes"}
    /\ vm.pc = "inQueue" => vm.op \in {"wait", "sched"}
    /\ vm.pc \in {"push", "block"} => vm.op \in {"wait", "nextTask"}
    /\ vm.pc = "restore" \/ vm.nested => vm.op = "setRes" /\ vm.nested
    /\ vm.op \in {"wait", "sched", "setBeat"} => vm.task \in Tasks
    /\ tm.pc = "run" => tm.task \in Tasks

\* RTC_init returns when the timer is up.  RTC_term has taken the flag back
\* before it waits, and a signal that releases it finds no turn begun: it is
\* the last one, or the late one of the start.
UpBefore ==
    /\ tm.pc \in {"open", "upLock", "up"} => running = 0
    /\ vm.op # "init" => tm.pc \notin {"open", "upLock", "up"}
    /\ vm.op = "term" /\ tm.pc \notin {"closeSignal", "unlockEnd", "done"} => running = 0
    /\ ~spurious /\ vm.op = "term" /\ vm.pc \in {"relock", "destroy", "ended"} =>
         tm.pc \in {"unlock", "while", "closeLock", "close", "closeSignal", "unlockEnd", "done"}

TimerHolds == {"up", "signal", "tick", "loop", "inQueue", "run", "resume", "advance", "clear", "unlock",
               "close", "closeSignal", "unlockEnd"}
EngineHolds ==
    \/ vm.pc \in {"inside", "inQueue", "untest", "release", "restore", "initUnlock"}
    \/ vm.pc = "condWait" /\ vm.op = "init"
    \/ vm.nested

\* Until the engine skips a lock or waits in RTC_term, the mutex belongs to
\* whoever is between LOCK and UNLOCK, and a nested LOCK finds __selfcall set.
Exclusion ==
    ~skipped /\ vm.op # "term" =>
      /\ tm.pc \in TimerHolds => mtx = Timer
      /\ EngineHolds => mtx = Engine
      /\ vm.nested /\ vm.pc # "restore" => selfcall /\ vm.pc \in {"test", "inside", "untest"}

\* No number is used twice in the queue.
Unique == \A e, f \in queue : e.no = f.no => e = f

Steps(s, i) == IF s + i < FifoSize THEN s + i ELSE s + i - FifoSize
Ahead == IF wr >= rd THEN wr - rd ELSE wr - rd + FifoSize
Late == IF tm.pc \in {"resume", "advance"} THEN 1 ELSE 0

\* The tasks that were written and not taken lie in the ring from the read
\* end on.
Ring ==
    ~overrun =>
      /\ Len(written) = Len(taken) + Ahead + Late
      /\ \A i \in 1..Len(taken) : taken[i] = written[i]
      /\ \A i \in 1..(Len(written) - Len(taken)) :
           fifo[Steps(rd, i - 1)] = written[Len(taken) + i]

IInv ==
    /\ TypeOK
    /\ Records
    /\ Places
    /\ UpBefore
    /\ Exclusion
    /\ Unique
    /\ Accounted
    /\ Ring

-----------------------------------------------------------------------------
(* Lemmas about the ring and the places *)

LEMMA NextSlotType ==
  ASSUME NEW i \in 0..(FifoSize - 1)
  PROVE  /\ NextSlot(i) \in 0..(FifoSize - 1)
         /\ NextSlot(i) = IF i = FifoSize - 1 THEN 0 ELSE i + 1
BY RtcAssumption DEF NextSlot

\* Accounted without its tuple of places.
Spread(e, q, l, w, f, n) ==
    /\ e \cup q \cup l \cup w \cup f = 1..n
    /\ e \cap q = {} /\ e \cap l = {} /\ e \cap w = {} /\ e \cap f = {}
    /\ q \cap l = {} /\ q \cap w = {} /\ q \cap f = {}
    /\ l \cap w = {} /\ l \cap f = {} /\ w \cap f = {}

LEMMA FivePlaces ==
  ASSUME NEW e, NEW q, NEW l, NEW w, NEW f, NEW n
  PROVE  LET places == <<e, q, l, w, f>>
         IN  (/\ UNION {places[i] : i \in 1..5} = 1..n
              /\ \A i, j \in 1..5 : i # j => places[i] \cap places[j] = {})
             <=> Spread(e, q, l, w, f, n)
<1> DEFINE places == <<e, q, l, w, f>>
<1>1. /\ places[1] = e /\ places[2] = q /\ places[3] = l /\ places[4] = w /\ places[5] = f
  OBVIOUS
<1>2. 1..5 = {1, 2, 3, 4, 5}
  OBVIOUS
<1> HIDE DEF places
<1>3. UNION {places[i] : i \in 1..5} = e \cup q \cup l \cup w \cup f
  BY <1>1, <1>2
<1>4. (\A i, j \in 1..5 : i # j => places[i] \cap places[j] = {})
      <=> /\ e \cap q = {} /\ e \cap l = {} /\ e \cap w = {} /\ e \cap f = {}
          /\ q \cap l = {} /\ q \cap w = {} /\ q \cap f = {}
          /\ l \cap w = {} /\ l \cap f = {} /\ w \cap f = {}
  BY <1>1, <1>2
<1>5. (/\ UNION {places[i] : i \in 1..5} = 1..n
       /\ \A i, j \in 1..5 : i # j => places[i] \cap places[j] = {})
      <=> Spread(e, q, l, w, f, n)
  BY <1>3, <1>4, Zenon DEF Spread
<1> QED
  BY <1>5 DEF places

LEMMA AccountedFlat ==
  Accounted <=> (vm.pc # "ended" => Spread(Entering, Numbers(queue), Leaving, woken, Listed(written), sent))
BY FivePlaces DEF Accounted

LEMMA AccountedFlatNext ==
  Accounted' <=> (vm'.pc # "ended" => Spread(Entering', Numbers(queue'), Leaving', woken', Listed(written'), sent'))
BY FivePlaces DEF Accounted

LEMMA NumbersAdded ==
  ASSUME NEW S, NEW e PROVE Numbers(S \cup {e}) = Numbers(S) \cup {e.no}
BY DEF Numbers

LEMMA NumbersRemoved ==
  ASSUME Unique, NEW e \in queue PROVE Numbers(queue \ {e}) = Numbers(queue) \ {e.no}
BY DEF Numbers, Unique

LEMMA ListedAppended ==
  ASSUME NEW s \in Seq(Tasks), NEW e \in Tasks
  PROVE  Listed(Append(s, e)) = Listed(s) \cup {e.no}
<1>1. DOMAIN Append(s, e) = DOMAIN s \cup {Len(s) + 1}
  OBVIOUS
<1>2. \A i \in DOMAIN s : Append(s, e)[i] = s[i]
  OBVIOUS
<1>3. Append(s, e)[Len(s) + 1] = e
  OBVIOUS
<1> QED
  BY <1>1, <1>2, <1>3 DEF Listed

-----------------------------------------------------------------------------
(* What each step preserves *)

\* A step keeps the types of the shared variables.
LEMMA TypeStep ==
  ASSUME IInv, Next PROVE TypeOK'
<1> USE RtcAssumption DEF TypeOK, Records, Places, Tasks, Threads, VmPlaces, TmPlaces, Ops, shared, threads, ring, history, IInv
<1>1. ASSUME NEW d \in 0..MaxDate, Sched(d) PROVE TypeOK'
  BY <1>1 DEF Sched, Create, Begin
<1>2. ASSUME NEW d \in 0..MaxDate, NEW t \in Sleepers, Wait(d, t) PROVE TypeOK'
  BY <1>2 DEF Wait, Create, Begin
<1>3. ASSUME NEW d \in 0..MaxDate, SetBeat(d) PROVE TypeOK'
  BY <1>3 DEF SetBeat, Begin
<1>4. CASE SetTempo
  BY <1>4 DEF SetTempo, Begin
<1>5. CASE SetRes
  BY <1>5 DEF SetRes, Begin
<1>6. CASE InitTest
  BY <1>6 DEF InitTest, Go, Idle
<1>7. CASE InitLock
  BY <1>7 DEF InitLock, Go, Idle
<1>8. CASE CondWait
  BY <1>8 DEF CondWait, Go, Idle
<1>9. CASE Relock
  BY <1>9 DEF Relock, Go, Idle
<1>10. CASE InitUnlock
  BY <1>10 DEF InitUnlock, Go, Idle
<1>11. CASE LockTest
  BY <1>11 DEF LockTest, Go, Idle
<1>12. CASE Acquire
  BY <1>12 DEF Acquire, Go, Idle
<1>13. CASE Inside
  BY <1>13 DEF Inside
<1>14. CASE Enqueued
  BY <1>14 DEF Enqueued, Go, Idle
<1>15. CASE UnlockTest
  BY <1>15 DEF UnlockTest, Go, Idle, AfterUnlock
<1>16. CASE Release
  BY <1>16 DEF Release, Go, Idle, AfterUnlock
<1>17. CASE Restore
  BY <1>17 DEF Restore
<1>18. CASE Push
  BY <1>18 DEF Push, Go, Idle
<1>19. CASE Block
  BY <1>19 DEF Block, Go, Idle
<1>20. CASE Destroy
  BY <1>20 DEF Destroy, Go, Idle
<1>21. CASE StartStop
  BY <1>21 DEF StartStop
<1>22. CASE Term
  BY <1>22 DEF Term
<1>23. CASE Take
  <2>1. rd \in 0..(FifoSize - 1) /\ fifo[rd] \in Tasks \cup {None}
    BY <1>23
  <2>2. NextSlot(rd) \in 0..(FifoSize - 1)
    BY <2>1, NextSlotType
  <2> QED
    BY <1>23, <2>1, <2>2 DEF Take
<1>24. CASE FindNone
  BY <1>24 DEF FindNone
<1>25. CASE OpenFails
  BY <1>25 DEF OpenFails, Step
<1>26. CASE Open
  BY <1>26 DEF Open, Step
<1>27. CASE Lock
  BY <1>27 DEF Lock, Step, AfterLock
<1>28. CASE Up
  BY <1>28 DEF Up, Step
<1>29. CASE Unlock
  BY <1>29 DEF Unlock, Step
<1>30. CASE While
  BY <1>30 DEF While, Step
<1>31. CASE Read
  BY <1>31 DEF Read, Step
<1>32. CASE Tick
  BY <1>32 DEF Tick, Step
<1>33. CASE Loop
  BY <1>33 DEF Loop, Step
<1>34. CASE NothingDue
  BY <1>34 DEF NothingDue, Step, Due
<1>35. CASE Wake
  BY <1>35 DEF Wake
<1>36. CASE Write
  BY <1>36 DEF Write
<1>37. CASE Resume
  BY <1>37 DEF Resume, Step
<1>38. CASE Advance
  BY <1>38, NextSlotType DEF Advance, Step
<1>39. CASE Clear
  BY <1>39 DEF Clear, Step
<1>40. CASE Close
  BY <1>40 DEF Close, Step
<1>41. ASSUME NEW task \in queue, Dequeued(task) PROVE TypeOK'
  BY <1>41 DEF Dequeued, IsFirst, Due
<1>42. CASE Signal
  BY <1>42 DEF Signal, Step
<1>43. CASE WakeUp
  BY <1>43 DEF WakeUp, Go, Idle
<1> QED
  BY <1>1, <1>2, <1>3, <1>4, <1>5, <1>6, <1>7, <1>8, <1>9, <1>10, <1>11, <1>12, <1>13, <1>14, <1>15,
     <1>16, <1>17, <1>18, <1>19, <1>20, <1>21, <1>22, <1>23, <1>24, <1>25, <1>26, <1>27, <1>28,
     <1>29, <1>30, <1>31, <1>32, <1>33, <1>34, <1>35, <1>36, <1>37, <1>38, <1>39, <1>40, <1>41, <1>42,
     <1>43 DEF Next, Continue, Opcode, Routine

\* A step keeps the records of the two pthreads.
LEMMA RecordsStep ==
  ASSUME IInv, Next PROVE Records'
<1> USE RtcAssumption DEF Records, VmPlaces, TmPlaces, Ops, shared, threads, ring, history, IInv
<1>1. ASSUME NEW d \in 0..MaxDate, Sched(d) PROVE Records'
  BY <1>1 DEF Sched, Create, Begin, Tasks, Threads
<1>2. ASSUME NEW d \in 0..MaxDate, NEW t \in Sleepers, Wait(d, t) PROVE Records'
  BY <1>2 DEF Wait, Create, Begin, Tasks, Threads
<1>3. ASSUME NEW d \in 0..MaxDate, SetBeat(d) PROVE Records'
  BY <1>3 DEF SetBeat, Begin, Tasks, Threads
<1>4. CASE SetTempo
  BY <1>4 DEF SetTempo, Begin, Tasks, Threads
<1>5. CASE SetRes
  BY <1>5 DEF SetRes, Begin, Tasks, Threads
<1>6. CASE InitTest
  BY <1>6 DEF InitTest, Go, Idle
<1>7. CASE InitLock
  BY <1>7 DEF InitLock, Go, Idle
<1>8. CASE CondWait
  BY <1>8 DEF CondWait, Go, Idle
<1>9. CASE Relock
  BY <1>9 DEF Relock, Go, Idle
<1>10. CASE InitUnlock
  BY <1>10 DEF InitUnlock, Go, Idle
<1>11. CASE LockTest
  BY <1>11 DEF LockTest, Go, Idle
<1>12. CASE Acquire
  BY <1>12 DEF Acquire, Go, Idle
<1>13. CASE Inside
  BY <1>13 DEF Inside
<1>14. CASE Enqueued
  BY <1>14 DEF Enqueued, Go, Idle
<1>15. CASE UnlockTest
  <2>1. AfterUnlock \in VmPlaces
    BY DEF AfterUnlock
  <2>2. vm' \in [pc : VmPlaces, op : Ops, nested : BOOLEAN, saved : BOOLEAN, task : Tasks \cup {None}]
    BY <1>15, <2>1 DEF UnlockTest, Go, Idle
  <2> QED
    BY <1>15, <2>2 DEF UnlockTest
<1>16. CASE Release
  <2>1. AfterUnlock \in VmPlaces
    BY DEF AfterUnlock
  <2>2. vm' \in [pc : VmPlaces, op : Ops, nested : BOOLEAN, saved : BOOLEAN, task : Tasks \cup {None}]
    BY <1>16, <2>1 DEF Release, Go, Idle
  <2> QED
    BY <1>16, <2>2 DEF Release
<1>17. CASE Restore
  BY <1>17 DEF Restore
<1>18. CASE Push
  BY <1>18 DEF Push, Go, Idle
<1>19. CASE Block
  BY <1>19 DEF Block, Go, Idle
<1>20. CASE Destroy
  BY <1>20 DEF Destroy, Go, Idle
<1>21. CASE StartStop
  BY <1>21 DEF StartStop
<1>22. CASE Term
  BY <1>22 DEF Term
<1>23. CASE Take
  <2>1. rd \in 0..(FifoSize - 1) /\ fifo[rd] \in Tasks \cup {None}
    BY <1>23 DEF TypeOK
  <2>2. NextSlot(rd) \in 0..(FifoSize - 1)
    BY <2>1, NextSlotType
  <2> QED
    BY <1>23, <2>1, <2>2 DEF Take
<1>24. CASE FindNone
  BY <1>24 DEF FindNone
<1>25. CASE OpenFails
  <2>1. tm' \in [pc : TmPlaces, task : Tasks \cup {None}]
    BY <1>25 DEF OpenFails, Step
  <2> QED
    BY <1>25, <2>1 DEF OpenFails
<1>26. CASE Open
  <2>1. tm' \in [pc : TmPlaces, task : Tasks \cup {None}]
    BY <1>26 DEF Open, Step
  <2> QED
    BY <1>26, <2>1 DEF Open
<1>27. CASE Lock
  <2>1. AfterLock \in TmPlaces
    BY <1>27 DEF Lock, AfterLock
  <2>2. tm' \in [pc : TmPlaces, task : Tasks \cup {None}]
    BY <1>27, <2>1 DEF Lock, Step
  <2> QED
    BY <1>27, <2>2 DEF Lock
<1>28. CASE Up
  BY <1>28 DEF Up, Step
<1>29. CASE Unlock
  <2>1. tm' \in [pc : TmPlaces, task : Tasks \cup {None}]
    BY <1>29 DEF Unlock, Step
  <2> QED
    BY <1>29, <2>1 DEF Unlock
<1>30. CASE While
  <2>1. tm' \in [pc : TmPlaces, task : Tasks \cup {None}]
    BY <1>30 DEF While, Step
  <2> QED
    BY <1>30, <2>1 DEF While
<1>31. CASE Read
  <2>1. tm' \in [pc : TmPlaces, task : Tasks \cup {None}]
    BY <1>31 DEF Read, Step
  <2> QED
    BY <1>31, <2>1 DEF Read
<1>32. CASE Tick
  <2>1. tm' \in [pc : TmPlaces, task : Tasks \cup {None}]
    BY <1>32 DEF Tick, Step
  <2> QED
    BY <1>32, <2>1 DEF Tick
<1>33. CASE Loop
  <2>1. tm' \in [pc : TmPlaces, task : Tasks \cup {None}]
    BY <1>33 DEF Loop, Step
  <2> QED
    BY <1>33, <2>1 DEF Loop
<1>34. CASE NothingDue
  <2>1. tm' \in [pc : TmPlaces, task : Tasks \cup {None}]
    BY <1>34 DEF NothingDue, Step
  <2> QED
    BY <1>34, <2>1 DEF NothingDue
<1>35. CASE Wake
  BY <1>35 DEF Wake, Tasks, Places
<1>36. CASE Write
  BY <1>36 DEF Write, Places
<1>37. CASE Resume
  <2>1. tm' \in [pc : TmPlaces, task : Tasks \cup {None}]
    BY <1>37 DEF Resume, Step
  <2> QED
    BY <1>37, <2>1 DEF Resume
<1>38. CASE Advance
  BY <1>38 DEF Advance, Step
<1>39. CASE Clear
  <2>1. tm' \in [pc : TmPlaces, task : Tasks \cup {None}]
    BY <1>39 DEF Clear, Step
  <2> QED
    BY <1>39, <2>1 DEF Clear
<1>40. CASE Close
  BY <1>40 DEF Close, Step
<1>41. ASSUME NEW task \in queue, Dequeued(task) PROVE Records'
  BY <1>41 DEF Dequeued, IsFirst, Due, TypeOK
<1>42. CASE Signal
  BY <1>42 DEF Signal, Step
<1>43. CASE WakeUp
  BY <1>43 DEF WakeUp, Go, Idle
<1> QED
  BY <1>1, <1>2, <1>3, <1>4, <1>5, <1>6, <1>7, <1>8, <1>9, <1>10, <1>11, <1>12, <1>13, <1>14, <1>15,
     <1>16, <1>17, <1>18, <1>19, <1>20, <1>21, <1>22, <1>23, <1>24, <1>25, <1>26, <1>27, <1>28,
     <1>29, <1>30, <1>31, <1>32, <1>33, <1>34, <1>35, <1>36, <1>37, <1>38, <1>39, <1>40, <1>41, <1>42,
     <1>43 DEF Next, Continue, Opcode, Routine

\* A step keeps every pthread at a place of its opcode.
LEMMA PlacesStep ==
  ASSUME IInv, Next PROVE Places'
<1> USE RtcAssumption DEF IInv, Records, Places, Tasks, Threads, VmPlaces, TmPlaces, Ops, shared, threads, ring, history
<1>1. ASSUME NEW d \in 0..MaxDate, Sched(d) PROVE Places'
  BY <1>1 DEF Sched, Create, Begin
<1>2. ASSUME NEW d \in 0..MaxDate, NEW t \in Sleepers, Wait(d, t) PROVE Places'
  BY <1>2 DEF Wait, Create, Begin
<1>3. ASSUME NEW d \in 0..MaxDate, SetBeat(d) PROVE Places'
  BY <1>3 DEF SetBeat, Begin
<1>4. CASE SetTempo
  BY <1>4 DEF SetTempo, Begin
<1>5. CASE SetRes
  BY <1>5 DEF SetRes, Begin
<1>6. CASE InitTest
  BY <1>6 DEF InitTest, Go, Idle
<1>7. CASE InitLock
  BY <1>7 DEF InitLock, Go, Idle
<1>8. CASE CondWait
  BY <1>8 DEF CondWait, Go, Idle
<1>9. CASE Relock
  BY <1>9 DEF Relock, Go, Idle
<1>10. CASE InitUnlock
  BY <1>10 DEF InitUnlock, Go, Idle
<1>11. CASE LockTest
  BY <1>11 DEF LockTest, Go, Idle
<1>12. CASE Acquire
  BY <1>12 DEF Acquire, Go, Idle
<1>13. CASE Inside
  BY <1>13 DEF Inside
<1>14. CASE Enqueued
  BY <1>14 DEF Enqueued, Go, Idle
<1>15. CASE UnlockTest
  BY <1>15 DEF UnlockTest, Go, Idle, AfterUnlock
<1>16. CASE Release
  BY <1>16 DEF Release, Go, Idle, AfterUnlock
<1>17. CASE Restore
  BY <1>17 DEF Restore
<1>18. CASE Push
  BY <1>18 DEF Push, Go, Idle
<1>19. CASE Block
  BY <1>19 DEF Block, Go, Idle
<1>20. CASE Destroy
  BY <1>20 DEF Destroy, Go, Idle
<1>21. CASE StartStop
  BY <1>21 DEF StartStop
<1>22. CASE Term
  BY <1>22 DEF Term
<1>23. CASE Take
  BY <1>23 DEF Take
<1>24. CASE FindNone
  BY <1>24 DEF FindNone
<1>25. CASE OpenFails
  BY <1>25 DEF OpenFails, Step
<1>26. CASE Open
  BY <1>26 DEF Open, Step
<1>27. CASE Lock
  BY <1>27 DEF Lock, Step, AfterLock
<1>28. CASE Up
  BY <1>28 DEF Up, Step
<1>29. CASE Unlock
  BY <1>29 DEF Unlock, Step
<1>30. CASE While
  BY <1>30 DEF While, Step
<1>31. CASE Read
  BY <1>31 DEF Read, Step
<1>32. CASE Tick
  BY <1>32 DEF Tick, Step
<1>33. CASE Loop
  BY <1>33 DEF Loop, Step
<1>34. CASE NothingDue
  BY <1>34 DEF NothingDue, Step, Due
<1>35. CASE Wake
  BY <1>35 DEF Wake
<1>36. CASE Write
  BY <1>36 DEF Write
<1>37. CASE Resume
  BY <1>37 DEF Resume, Step
<1>38. CASE Advance
  BY <1>38 DEF Advance, Step
<1>39. CASE Clear
  BY <1>39 DEF Clear, Step
<1>40. CASE Close
  BY <1>40 DEF Close, Step
<1>41. ASSUME NEW task \in queue, Dequeued(task) PROVE Places'
  BY <1>41 DEF Dequeued, IsFirst, Due, TypeOK
<1>42. CASE Signal
  BY <1>42 DEF Signal, Step
<1>43. CASE WakeUp
  BY <1>43 DEF WakeUp, Go, Idle
<1> QED
  BY <1>1, <1>2, <1>3, <1>4, <1>5, <1>6, <1>7, <1>8, <1>9, <1>10, <1>11, <1>12, <1>13, <1>14, <1>15,
     <1>16, <1>17, <1>18, <1>19, <1>20, <1>21, <1>22, <1>23, <1>24, <1>25, <1>26, <1>27, <1>28,
     <1>29, <1>30, <1>31, <1>32, <1>33, <1>34, <1>35, <1>36, <1>37, <1>38, <1>39, <1>40, <1>41, <1>42,
     <1>43 DEF Next, Continue, Opcode, Routine

\* A step keeps the order of start and end.
LEMMA UpStep ==
  ASSUME IInv, Next PROVE UpBefore'
<1> USE RtcAssumption DEF IInv, Records, Places, UpBefore, VmPlaces, TmPlaces, Ops, shared, threads, ring, history
<1>1. ASSUME NEW d \in 0..MaxDate, Sched(d) PROVE UpBefore'
  BY <1>1 DEF Sched, Create, Begin
<1>2. ASSUME NEW d \in 0..MaxDate, NEW t \in Sleepers, Wait(d, t) PROVE UpBefore'
  BY <1>2 DEF Wait, Create, Begin
<1>3. ASSUME NEW d \in 0..MaxDate, SetBeat(d) PROVE UpBefore'
  BY <1>3 DEF SetBeat, Begin
<1>4. CASE SetTempo
  BY <1>4 DEF SetTempo, Begin
<1>5. CASE SetRes
  BY <1>5 DEF SetRes, Begin
<1>6. CASE InitTest
  BY <1>6 DEF InitTest, Go, Idle
<1>7. CASE InitLock
  BY <1>7 DEF InitLock, Go, Idle
<1>8. CASE CondWait
  BY <1>8 DEF CondWait, Go, Idle
<1>9. CASE Relock
  BY <1>9 DEF Relock, Go, Idle
<1>10. CASE InitUnlock
  BY <1>10 DEF InitUnlock, Go, Idle
<1>11. CASE LockTest
  BY <1>11 DEF LockTest, Go, Idle
<1>12. CASE Acquire
  BY <1>12 DEF Acquire, Go, Idle
<1>13. CASE Inside
  BY <1>13 DEF Inside
<1>14. CASE Enqueued
  BY <1>14 DEF Enqueued, Go, Idle
<1>15. CASE UnlockTest
  BY <1>15 DEF UnlockTest, Go, Idle, AfterUnlock
<1>16. CASE Release
  BY <1>16 DEF Release, Go, Idle, AfterUnlock
<1>17. CASE Restore
  BY <1>17 DEF Restore
<1>18. CASE Push
  BY <1>18 DEF Push, Go, Idle
<1>19. CASE Block
  BY <1>19 DEF Block, Go, Idle
<1>20. CASE Destroy
  BY <1>20 DEF Destroy, Go, Idle
<1>21. CASE StartStop
  BY <1>21 DEF StartStop
<1>22. CASE Term
  BY <1>22 DEF Term
<1>23. CASE Take
  BY <1>23 DEF Take
<1>24. CASE FindNone
  BY <1>24 DEF FindNone
<1>25. CASE OpenFails
  BY <1>25 DEF OpenFails, Step
<1>26. CASE Open
  BY <1>26 DEF Open, Step
<1>27. CASE Lock
  BY <1>27 DEF Lock, Step, AfterLock
<1>28. CASE Up
  BY <1>28 DEF Up, Step
<1>29. CASE Unlock
  BY <1>29 DEF Unlock, Step
<1>30. CASE While
  BY <1>30 DEF While, Step
<1>31. CASE Read
  BY <1>31 DEF Read, Step
<1>32. CASE Tick
  BY <1>32 DEF Tick, Step
<1>33. CASE Loop
  BY <1>33 DEF Loop, Step
<1>34. CASE NothingDue
  BY <1>34 DEF NothingDue, Step, Due
<1>35. CASE Wake
  BY <1>35 DEF Wake
<1>36. CASE Write
  BY <1>36 DEF Write
<1>37. CASE Resume
  BY <1>37 DEF Resume, Step
<1>38. CASE Advance
  BY <1>38 DEF Advance, Step
<1>39. CASE Clear
  BY <1>39 DEF Clear, Step
<1>40. CASE Close
  BY <1>40 DEF Close, Step
<1>41. ASSUME NEW task \in queue, Dequeued(task) PROVE UpBefore'
  BY <1>41 DEF Dequeued, IsFirst, Due
<1>42. CASE Signal
  BY <1>42 DEF Signal, Step
<1>43. CASE WakeUp
  BY <1>43 DEF WakeUp, Go, Idle
<1> QED
  BY <1>1, <1>2, <1>3, <1>4, <1>5, <1>6, <1>7, <1>8, <1>9, <1>10, <1>11, <1>12, <1>13, <1>14, <1>15,
     <1>16, <1>17, <1>18, <1>19, <1>20, <1>21, <1>22, <1>23, <1>24, <1>25, <1>26, <1>27, <1>28,
     <1>29, <1>30, <1>31, <1>32, <1>33, <1>34, <1>35, <1>36, <1>37, <1>38, <1>39, <1>40, <1>41, <1>42,
     <1>43 DEF Next, Continue, Opcode, Routine

\* A step keeps the owner of the mutex.
LEMMA ExclusionStep ==
  ASSUME IInv, Next PROVE Exclusion'
<1> USE RtcAssumption DEF IInv, Records, Places, UpBefore, Exclusion, EngineHolds, TimerHolds, TypeOK, VmPlaces, TmPlaces, Ops, shared, threads, ring, history
<1>1. ASSUME NEW d \in 0..MaxDate, Sched(d) PROVE Exclusion'
  BY <1>1 DEF Sched, Create, Begin
<1>2. ASSUME NEW d \in 0..MaxDate, NEW t \in Sleepers, Wait(d, t) PROVE Exclusion'
  BY <1>2 DEF Wait, Create, Begin
<1>3. ASSUME NEW d \in 0..MaxDate, SetBeat(d) PROVE Exclusion'
  BY <1>3 DEF SetBeat, Begin
<1>4. CASE SetTempo
  BY <1>4 DEF SetTempo, Begin
<1>5. CASE SetRes
  BY <1>5 DEF SetRes, Begin
<1>6. CASE InitTest
  BY <1>6 DEF InitTest, Go, Idle
<1>7. CASE InitLock
  BY <1>7 DEF InitLock, Go, Idle
<1>8. CASE CondWait
  BY <1>8 DEF CondWait, Go, Idle
<1>9. CASE Relock
  BY <1>9 DEF Relock, Go, Idle
<1>10. CASE InitUnlock
  BY <1>10 DEF InitUnlock, Go, Idle
<1>11. CASE LockTest
  BY <1>11 DEF LockTest, Go, Idle
<1>12. CASE Acquire
  BY <1>12 DEF Acquire, Go, Idle
<1>13. CASE Inside
  BY <1>13 DEF Inside
<1>14. CASE Enqueued
  BY <1>14 DEF Enqueued, Go, Idle
<1>15. CASE UnlockTest
  BY <1>15 DEF UnlockTest, Go, Idle, AfterUnlock
<1>16. CASE Release
  BY <1>16 DEF Release, Go, Idle, AfterUnlock
<1>17. CASE Restore
  BY <1>17 DEF Restore
<1>18. CASE Push
  BY <1>18 DEF Push, Go, Idle
<1>19. CASE Block
  BY <1>19 DEF Block, Go, Idle
<1>20. CASE Destroy
  BY <1>20 DEF Destroy, Go, Idle
<1>21. CASE StartStop
  BY <1>21 DEF StartStop
<1>22. CASE Term
  BY <1>22 DEF Term
<1>23. CASE Take
  BY <1>23 DEF Take
<1>24. CASE FindNone
  BY <1>24 DEF FindNone
<1>25. CASE OpenFails
  BY <1>25 DEF OpenFails, Step
<1>26. CASE Open
  BY <1>26 DEF Open, Step
<1>27. CASE Lock
  BY <1>27 DEF Lock, Step, AfterLock
<1>28. CASE Up
  BY <1>28 DEF Up, Step
<1>29. CASE Unlock
  BY <1>29 DEF Unlock, Step
<1>30. CASE While
  BY <1>30 DEF While, Step
<1>31. CASE Read
  BY <1>31 DEF Read, Step
<1>32. CASE Tick
  BY <1>32 DEF Tick, Step
<1>33. CASE Loop
  BY <1>33 DEF Loop, Step
<1>34. CASE NothingDue
  BY <1>34 DEF NothingDue, Step, Due
<1>35. CASE Wake
  BY <1>35 DEF Wake
<1>36. CASE Write
  BY <1>36 DEF Write
<1>37. CASE Resume
  BY <1>37 DEF Resume, Step
<1>38. CASE Advance
  BY <1>38 DEF Advance, Step
<1>39. CASE Clear
  BY <1>39 DEF Clear, Step
<1>40. CASE Close
  BY <1>40 DEF Close, Step
<1>41. ASSUME NEW task \in queue, Dequeued(task) PROVE Exclusion'
  BY <1>41 DEF Dequeued, IsFirst, Due
<1>42. CASE Signal
  BY <1>42 DEF Signal, Step
<1>43. CASE WakeUp
  BY <1>43 DEF WakeUp, Go, Idle
<1> QED
  BY <1>1, <1>2, <1>3, <1>4, <1>5, <1>6, <1>7, <1>8, <1>9, <1>10, <1>11, <1>12, <1>13, <1>14, <1>15,
     <1>16, <1>17, <1>18, <1>19, <1>20, <1>21, <1>22, <1>23, <1>24, <1>25, <1>26, <1>27, <1>28,
     <1>29, <1>30, <1>31, <1>32, <1>33, <1>34, <1>35, <1>36, <1>37, <1>38, <1>39, <1>40, <1>41, <1>42,
     <1>43 DEF Next, Continue, Opcode, Routine

\* A step puts no number into the queue that is there.
LEMMA UniqueStep ==
  ASSUME IInv, Next PROVE Unique'
<1> USE RtcAssumption DEF TypeOK, Records, Places, Tasks, Threads, VmPlaces, TmPlaces, Ops, shared, threads, ring, history, IInv, Unique, Accounted, Entering, Numbers
<1>1. ASSUME NEW d \in 0..MaxDate, Sched(d) PROVE Unique'
  BY <1>1 DEF Sched, Create, Begin
<1>2. ASSUME NEW d \in 0..MaxDate, NEW t \in Sleepers, Wait(d, t) PROVE Unique'
  BY <1>2 DEF Wait, Create, Begin
<1>3. ASSUME NEW d \in 0..MaxDate, SetBeat(d) PROVE Unique'
  BY <1>3 DEF SetBeat, Begin
<1>4. CASE SetTempo
  BY <1>4 DEF SetTempo, Begin
<1>5. CASE SetRes
  BY <1>5 DEF SetRes, Begin
<1>6. CASE InitTest
  BY <1>6 DEF InitTest, Go, Idle
<1>7. CASE InitLock
  BY <1>7 DEF InitLock, Go, Idle
<1>8. CASE CondWait
  BY <1>8 DEF CondWait, Go, Idle
<1>9. CASE Relock
  BY <1>9 DEF Relock, Go, Idle
<1>10. CASE InitUnlock
  BY <1>10 DEF InitUnlock, Go, Idle
<1>11. CASE LockTest
  BY <1>11 DEF LockTest, Go, Idle
<1>12. CASE Acquire
  BY <1>12 DEF Acquire, Go, Idle
<1>13. CASE Inside
  BY <1>13 DEF Inside
<1>14. CASE Enqueued
  BY <1>14 DEF Enqueued, Go, Idle
<1>15. CASE UnlockTest
  BY <1>15 DEF UnlockTest, Go, Idle, AfterUnlock
<1>16. CASE Release
  BY <1>16 DEF Release, Go, Idle, AfterUnlock
<1>17. CASE Restore
  BY <1>17 DEF Restore
<1>18. CASE Push
  BY <1>18 DEF Push, Go, Idle
<1>19. CASE Block
  BY <1>19 DEF Block, Go, Idle
<1>20. CASE Destroy
  BY <1>20 DEF Destroy, Go, Idle
<1>21. CASE StartStop
  BY <1>21 DEF StartStop
<1>22. CASE Term
  BY <1>22 DEF Term
<1>23. CASE Take
  <2>1. rd \in 0..(FifoSize - 1) /\ fifo[rd] \in Tasks \cup {None}
    BY <1>23
  <2>2. NextSlot(rd) \in 0..(FifoSize - 1)
    BY <2>1, NextSlotType
  <2> QED
    BY <1>23, <2>1, <2>2 DEF Take
<1>24. CASE FindNone
  BY <1>24 DEF FindNone
<1>25. CASE OpenFails
  BY <1>25 DEF OpenFails, Step
<1>26. CASE Open
  BY <1>26 DEF Open, Step
<1>27. CASE Lock
  BY <1>27 DEF Lock, Step, AfterLock
<1>28. CASE Up
  BY <1>28 DEF Up, Step
<1>29. CASE Unlock
  BY <1>29 DEF Unlock, Step
<1>30. CASE While
  BY <1>30 DEF While, Step
<1>31. CASE Read
  BY <1>31 DEF Read, Step
<1>32. CASE Tick
  BY <1>32 DEF Tick, Step
<1>33. CASE Loop
  BY <1>33 DEF Loop, Step
<1>34. CASE NothingDue
  BY <1>34 DEF NothingDue, Step, Due
<1>35. CASE Wake
  BY <1>35 DEF Wake
<1>36. CASE Write
  BY <1>36 DEF Write
<1>37. CASE Resume
  BY <1>37 DEF Resume, Step
<1>38. CASE Advance
  BY <1>38, NextSlotType DEF Advance, Step
<1>39. CASE Clear
  BY <1>39 DEF Clear, Step
<1>40. CASE Close
  BY <1>40 DEF Close, Step
<1>41. ASSUME NEW task \in queue, Dequeued(task) PROVE Unique'
  BY <1>41 DEF Dequeued, IsFirst, Due
<1>42. CASE Signal
  BY <1>42 DEF Signal, Step
<1>43. CASE WakeUp
  BY <1>43 DEF WakeUp, Go, Idle
<1> QED
  BY <1>1, <1>2, <1>3, <1>4, <1>5, <1>6, <1>7, <1>8, <1>9, <1>10, <1>11, <1>12, <1>13, <1>14, <1>15,
     <1>16, <1>17, <1>18, <1>19, <1>20, <1>21, <1>22, <1>23, <1>24, <1>25, <1>26, <1>27, <1>28,
     <1>29, <1>30, <1>31, <1>32, <1>33, <1>34, <1>35, <1>36, <1>37, <1>38, <1>39, <1>40, <1>41, <1>42,
     <1>43 DEF Next, Continue, Opcode, Routine

\* What pqEnqueue puts into the queue leaves the hands of the opcode.
LEMMA EnqueuedAccounted ==
  ASSUME IInv, Enqueued PROVE Accounted'
<1>1. /\ vm.pc = "inQueue" /\ queue' = queue \cup {vm.task} /\ vm'.pc = "untest"
      /\ UNCHANGED <<tm, sent, woken, written>>
  BY DEF Enqueued, Go, IInv, Records, history
<1>2. Numbers(queue') = Numbers(queue) \cup {vm.task.no}
  BY <1>1, NumbersAdded
<1>3. Entering = {vm.task.no} /\ Entering' = {} /\ Leaving' = Leaving
  BY <1>1 DEF Entering, Leaving, IInv, Places
<1>4. Listed(written') = Listed(written)
  BY <1>1
<1>5. Spread(Entering, Numbers(queue), Leaving, woken, Listed(written), sent)
  BY <1>1, AccountedFlat DEF IInv
<1>6. Spread(Entering', Numbers(queue'), Leaving', woken', Listed(written'), sent')
  BY <1>1, <1>2, <1>3, <1>4, <1>5 DEF Spread
<1> QED
  BY <1>6, AccountedFlatNext

\* What pqDequeue takes out of the queue is at the hands of the timer.
LEMMA DequeuedAccounted ==
  ASSUME IInv, NEW task \in queue, Dequeued(task) PROVE Accounted'
<1>1. /\ queue' = queue \ {task} /\ tm.pc = "inQueue" /\ tm' = [pc |-> "run", task |-> task]
      /\ UNCHANGED <<vm, sent, woken, written>>
  BY DEF Dequeued, shared, threads, ring, history
<1>2. Numbers(queue') = Numbers(queue) \ {task.no} /\ task.no \in Numbers(queue)
  BY <1>1, NumbersRemoved DEF IInv, Numbers
<1>3. Leaving = {} /\ Leaving' = {task.no} /\ Entering' = Entering
  BY <1>1 DEF Leaving, Entering
<1>4. Listed(written') = Listed(written)
  BY <1>1
<1>5. CASE vm.pc = "ended"
  BY <1>1, <1>5, AccountedFlatNext
<1>6. CASE vm.pc # "ended"
  <2>1. Spread(Entering, Numbers(queue), Leaving, woken, Listed(written), sent)
    BY <1>6, AccountedFlat DEF IInv
  <2>2. Spread(Entering', Numbers(queue'), Leaving', woken', Listed(written'), sent')
    BY <1>1, <1>2, <1>3, <1>4, <2>1 DEF Spread
  <2> QED
    BY <2>2, AccountedFlatNext
<1> QED
  BY <1>5, <1>6

\* A step moves a task from one place to another.
LEMMA AccountedStep ==
  ASSUME IInv, Next PROVE Accounted'
<1> USE AccountedFlat, AccountedFlatNext DEF IInv, Records, Places, Entering, Leaving, shared, threads, ring, history, Ops, VmPlaces, TmPlaces, Spread
<1>1. ASSUME NEW d \in 0..MaxDate, Sched(d) PROVE Accounted'
  BY <1>1 DEF Sched, Create, Begin
<1>2. ASSUME NEW d \in 0..MaxDate, NEW t \in Sleepers, Wait(d, t) PROVE Accounted'
  BY <1>2 DEF Wait, Create, Begin
<1>3. ASSUME NEW d \in 0..MaxDate, SetBeat(d) PROVE Accounted'
  BY <1>3 DEF SetBeat, Begin
<1>4. CASE SetTempo
  BY <1>4 DEF SetTempo, Begin
<1>5. CASE SetRes
  BY <1>5 DEF SetRes, Begin
<1>6. CASE InitTest
  BY <1>6 DEF InitTest, Go, Idle
<1>7. CASE InitLock
  BY <1>7 DEF InitLock, Go, Idle
<1>8. CASE CondWait
  BY <1>8 DEF CondWait, Go, Idle
<1>9. CASE Relock
  BY <1>9 DEF Relock, Go, Idle
<1>10. CASE InitUnlock
  BY <1>10 DEF InitUnlock, Go, Idle
<1>11. CASE LockTest
  BY <1>11 DEF LockTest, Go, Idle
<1>12. CASE Acquire
  BY <1>12 DEF Acquire, Go, Idle
<1>13. CASE Inside
  BY <1>13 DEF Inside
<1>14. CASE Enqueued
  BY <1>14, EnqueuedAccounted DEF Enqueued, Go, Idle
<1>15. CASE UnlockTest
  BY <1>15 DEF UnlockTest, Go, Idle, AfterUnlock
<1>16. CASE Release
  BY <1>16 DEF Release, Go, Idle, AfterUnlock
<1>17. CASE Restore
  BY <1>17 DEF Restore
<1>18. CASE Push
  BY <1>18 DEF Push, Go, Idle
<1>19. CASE Block
  BY <1>19 DEF Block, Go, Idle
<1>20. CASE Destroy
  BY <1>20 DEF Destroy, Go, Idle
<1>21. CASE StartStop
  BY <1>21 DEF StartStop
<1>22. CASE Term
  BY <1>22 DEF Term
<1>23. CASE Take
  BY <1>23 DEF Take
<1>24. CASE FindNone
  BY <1>24 DEF FindNone
<1>25. CASE OpenFails
  BY <1>25 DEF OpenFails, Step
<1>26. CASE Open
  BY <1>26 DEF Open, Step
<1>27. CASE Lock
  BY <1>27 DEF Lock, Step, AfterLock
<1>28. CASE Up
  BY <1>28 DEF Up, Step
<1>29. CASE Unlock
  BY <1>29 DEF Unlock, Step
<1>30. CASE While
  BY <1>30 DEF While, Step
<1>31. CASE Read
  BY <1>31 DEF Read, Step
<1>32. CASE Tick
  BY <1>32 DEF Tick, Step
<1>33. CASE Loop
  BY <1>33 DEF Loop, Step
<1>34. CASE NothingDue
  BY <1>34 DEF NothingDue, Step, Due
<1>35. CASE Wake
  BY <1>35 DEF Wake
<1>36. CASE Write
  BY <1>36, ListedAppended DEF Write
<1>37. CASE Resume
  BY <1>37 DEF Resume, Step
<1>38. CASE Advance
  BY <1>38 DEF Advance, Step
<1>39. CASE Clear
  BY <1>39 DEF Clear, Step
<1>40. CASE Close
  BY <1>40 DEF Close, Step
<1>41. ASSUME NEW task \in queue, Dequeued(task) PROVE Accounted'
  BY <1>41, DequeuedAccounted DEF Dequeued, IsFirst, Due
<1>42. CASE Signal
  BY <1>42 DEF Signal, Step
<1>43. CASE WakeUp
  BY <1>43 DEF WakeUp, Go, Idle
<1> QED
  BY <1>1, <1>2, <1>3, <1>4, <1>5, <1>6, <1>7, <1>8, <1>9, <1>10, <1>11, <1>12, <1>13, <1>14, <1>15,
     <1>16, <1>17, <1>18, <1>19, <1>20, <1>21, <1>22, <1>23, <1>24, <1>25, <1>26, <1>27, <1>28,
     <1>29, <1>30, <1>31, <1>32, <1>33, <1>34, <1>35, <1>36, <1>37, <1>38, <1>39, <1>40, <1>41, <1>42,
     <1>43 DEF Next, Continue, Opcode, Routine

\* fifo_rd keeps the FIFO a ring of the tasks that wait.
LEMMA TakeRing ==
  ASSUME IInv, Take PROVE Ring'
<1>1. /\ rd # wr /\ taken' = Append(taken, fifo[rd]) /\ rd' = NextSlot(rd)
      /\ UNCHANGED <<fifo, wr, written, tm, overrun>>
  BY DEF Take, history, ring
<1>2. /\ rd \in 0..(FifoSize - 1) /\ wr \in 0..(FifoSize - 1) /\ FifoSize \in Nat \ {0}
      /\ written \in Seq(Tasks) /\ taken \in Seq(Tasks \cup {None}) /\ Late \in {0, 1} /\ Late' = Late
  BY <1>1, RtcAssumption DEF IInv, TypeOK, Records, Late
<1>3. rd' \in 0..(FifoSize - 1) /\ rd' = IF rd = FifoSize - 1 THEN 0 ELSE rd + 1
  BY <1>1, <1>2, NextSlotType
<1>4. SUFFICES ASSUME ~overrun
               PROVE  /\ Len(written') = Len(taken') + Ahead' + Late'
                      /\ \A i \in 1..Len(taken') : taken'[i] = written'[i]
                      /\ \A i \in 1..(Len(written') - Len(taken')) :
                           fifo'[Steps(rd', i - 1)] = written'[Len(taken') + i]
  BY <1>1 DEF Ring, Ahead, Late, Steps
<1>5. /\ Len(written) = Len(taken) + Ahead + Late
      /\ \A i \in 1..Len(taken) : taken[i] = written[i]
      /\ \A i \in 1..(Len(written) - Len(taken)) :
           fifo[Steps(rd, i - 1)] = written[Len(taken) + i]
  BY <1>4 DEF IInv, Ring
<1>6. Ahead \in 1..(FifoSize - 1) /\ Ahead' = Ahead - 1
  BY <1>1, <1>2, <1>3 DEF Ahead
<1>7. Len(taken') = Len(taken) + 1 /\ Len(taken) \in Nat /\ Len(written) \in Nat
  BY <1>1, <1>2
<1>8. Len(written') = Len(taken') + Ahead' + Late'
  BY <1>1, <1>2, <1>5, <1>6, <1>7
<1>9. fifo[rd] = written[Len(taken) + 1]
  <2>1. 1 \in 1..(Len(written) - Len(taken))
    BY <1>2, <1>5, <1>6, <1>7
  <2>2. fifo[Steps(rd, 1 - 1)] = written[Len(taken) + 1]
    BY <2>1, <1>5
  <2>3. Steps(rd, 1 - 1) = rd
    BY <1>2 DEF Steps
  <2> QED
    BY <2>2, <2>3
<1>10. \A i \in 1..Len(taken') : taken'[i] = written'[i]
  BY <1>1, <1>2, <1>5, <1>7, <1>9
<1>11. ASSUME NEW i \in 1..(Len(written') - Len(taken'))
       PROVE  fifo'[Steps(rd', i - 1)] = written'[Len(taken') + i]
  <2>1. i + 1 \in 1..(Len(written) - Len(taken)) /\ i \in 1..FifoSize
    BY <1>1, <1>2, <1>5, <1>6, <1>7
  <2>2. fifo[Steps(rd, (i + 1) - 1)] = written[Len(taken) + (i + 1)]
    BY <2>1, <1>5
  <2>3. Steps(rd, (i + 1) - 1) = Steps(rd', i - 1)
    BY <1>2, <1>3, <2>1 DEF Steps
  <2>4. Len(taken) + (i + 1) = Len(taken') + i
    BY <1>7, <2>1
  <2> QED
    BY <1>1, <2>2, <2>3, <2>4
<1> QED
  BY <1>8, <1>10, <1>11

\* The first act of fifo_wr does.
LEMMA WriteRing ==
  ASSUME IInv, Write PROVE Ring'
<1>1. /\ tm.pc = "run" /\ fifo' = [fifo EXCEPT ![wr] = tm.task] /\ written' = Append(written, tm.task)
      /\ tm' = [pc |-> "resume", task |-> None]
      /\ UNCHANGED <<rd, wr, taken, overrun>>
  BY DEF Write, history, ring
<1>2. /\ rd \in 0..(FifoSize - 1) /\ wr \in 0..(FifoSize - 1) /\ FifoSize \in Nat \ {0}
      /\ fifo \in [0..(FifoSize - 1) -> Tasks \cup {None}]
      /\ written \in Seq(Tasks) /\ taken \in Seq(Tasks \cup {None}) /\ tm.task \in Tasks
  BY <1>1, RtcAssumption DEF IInv, TypeOK, Records, Places
<1>3. Late = 0 /\ Late' = 1 /\ Ahead' = Ahead /\ Ahead \in 0..(FifoSize - 1)
  BY <1>1, <1>2 DEF Late, Ahead
<1>4. SUFFICES ASSUME ~overrun
               PROVE  /\ Len(written') = Len(taken') + Ahead' + Late'
                      /\ \A i \in 1..Len(taken') : taken'[i] = written'[i]
                      /\ \A i \in 1..(Len(written') - Len(taken')) :
                           fifo'[Steps(rd', i - 1)] = written'[Len(taken') + i]
  BY <1>1 DEF Ring, Ahead, Late, Steps
<1>5. /\ Len(written) = Len(taken) + Ahead + Late
      /\ \A i \in 1..Len(taken) : taken[i] = written[i]
      /\ \A i \in 1..(Len(written) - Len(taken)) :
           fifo[Steps(rd, i - 1)] = written[Len(taken) + i]
  BY <1>4 DEF IInv, Ring
<1>6. /\ Len(written') = Len(written) + 1 /\ Len(taken) \in Nat /\ Len(written) \in Nat
      /\ \A i \in 1..Len(written) : written'[i] = written[i]
      /\ written'[Len(written) + 1] = tm.task
  BY <1>1, <1>2
<1>7. Len(written') = Len(taken') + Ahead' + Late'
  BY <1>1, <1>3, <1>5, <1>6
<1>8. \A i \in 1..Len(taken') : taken'[i] = written'[i]
  BY <1>1, <1>3, <1>5, <1>6
<1>9. ASSUME NEW i \in 1..(Len(written') - Len(taken'))
      PROVE  fifo'[Steps(rd', i - 1)] = written'[Len(taken') + i]
  <2>1. i \in 1..(Ahead + 1)
    BY <1>1, <1>3, <1>5, <1>6
  <2>2. CASE i = Ahead + 1
    <3>1. Steps(rd, i - 1) = wr
      BY <1>2, <2>2 DEF Steps, Ahead
    <3>2. Len(taken) + i = Len(written) + 1
      BY <1>3, <1>5, <1>6, <2>2
    <3> QED
      BY <1>1, <1>2, <1>6, <3>1, <3>2
  <2>3. CASE i # Ahead + 1
    <3>1. Steps(rd, i - 1) # wr /\ Steps(rd, i - 1) \in 0..(FifoSize - 1)
      BY <1>2, <1>3, <2>1, <2>3 DEF Steps, Ahead
    <3>2. i \in 1..(Len(written) - Len(taken)) /\ Len(taken) + i \in 1..Len(written)
      <4>1. Len(written) = Len(taken) + Ahead /\ i \in 1..Ahead
        BY <1>3, <1>5, <1>6, <2>1, <2>3
      <4> QED
        BY <1>3, <1>6, <4>1
    <3>3. fifo'[Steps(rd, i - 1)] = fifo[Steps(rd, i - 1)]
      BY <1>1, <1>2, <3>1
    <3>4. fifo[Steps(rd, i - 1)] = written[Len(taken) + i]
      BY <1>5, <3>2
    <3>5. written'[Len(taken) + i] = written[Len(taken) + i]
      BY <1>6, <3>2
    <3> QED
      BY <1>1, <3>3, <3>4, <3>5
  <2> QED
    BY <2>2, <2>3
<1> QED
  BY <1>7, <1>8, <1>9

\* The last act of fifo_wr does.
LEMMA AdvanceRing ==
  ASSUME IInv, Advance PROVE Ring'
<1>1. /\ tm.pc = "advance" /\ tm'.pc = "loop" /\ wr' = NextSlot(wr)
      /\ overrun' = (overrun \/ NextSlot(wr) = rd)
      /\ UNCHANGED <<fifo, rd, taken, written>>
  BY DEF Advance, Step, IInv, Records, history, ring
<1>2. rd \in 0..(FifoSize - 1) /\ wr \in 0..(FifoSize - 1) /\ FifoSize \in Nat \ {0}
  BY RtcAssumption DEF IInv, TypeOK
<1>3. NextSlot(wr) = IF wr = FifoSize - 1 THEN 0 ELSE wr + 1
  BY <1>2, NextSlotType
<1>4. Late = 1 /\ Late' = 0
  BY <1>1 DEF Late
<1>5. SUFFICES ASSUME ~overrun' PROVE Len(written) = Len(taken) + Ahead' + Late'
  BY <1>1 DEF IInv, Ring, Steps
<1>6. ~overrun /\ NextSlot(wr) # rd
  BY <1>1, <1>5, Zenon
<1>7. Ahead' = Ahead + 1 /\ Ahead \in Nat
  BY <1>1, <1>2, <1>3, <1>6 DEF Ahead
<1>8. Len(written) = Len(taken) + Ahead + Late /\ Len(taken) \in Nat
  BY <1>6 DEF IInv, Ring, Records
<1> QED
  BY <1>4, <1>7, <1>8

\* A step keeps the FIFO a ring of the tasks that wait.
LEMMA RingStep ==
  ASSUME IInv, Next PROVE Ring'
<1> USE  DEF IInv, Records, Places, Ring, Late, Ahead, shared, threads, ring, history, Ops, VmPlaces, TmPlaces, Steps
<1>1. ASSUME NEW d \in 0..MaxDate, Sched(d) PROVE Ring'
  BY <1>1 DEF Sched, Create, Begin
<1>2. ASSUME NEW d \in 0..MaxDate, NEW t \in Sleepers, Wait(d, t) PROVE Ring'
  BY <1>2 DEF Wait, Create, Begin
<1>3. ASSUME NEW d \in 0..MaxDate, SetBeat(d) PROVE Ring'
  BY <1>3 DEF SetBeat, Begin
<1>4. CASE SetTempo
  BY <1>4 DEF SetTempo, Begin
<1>5. CASE SetRes
  BY <1>5 DEF SetRes, Begin
<1>6. CASE InitTest
  BY <1>6 DEF InitTest, Go, Idle
<1>7. CASE InitLock
  BY <1>7 DEF InitLock, Go, Idle
<1>8. CASE CondWait
  BY <1>8 DEF CondWait, Go, Idle
<1>9. CASE Relock
  BY <1>9 DEF Relock, Go, Idle
<1>10. CASE InitUnlock
  BY <1>10 DEF InitUnlock, Go, Idle
<1>11. CASE LockTest
  BY <1>11 DEF LockTest, Go, Idle
<1>12. CASE Acquire
  BY <1>12 DEF Acquire, Go, Idle
<1>13. CASE Inside
  BY <1>13 DEF Inside
<1>14. CASE Enqueued
  BY <1>14 DEF Enqueued, Go, Idle
<1>15. CASE UnlockTest
  BY <1>15 DEF UnlockTest, Go, Idle, AfterUnlock
<1>16. CASE Release
  BY <1>16 DEF Release, Go, Idle, AfterUnlock
<1>17. CASE Restore
  BY <1>17 DEF Restore
<1>18. CASE Push
  BY <1>18 DEF Push, Go, Idle
<1>19. CASE Block
  BY <1>19 DEF Block, Go, Idle
<1>20. CASE Destroy
  BY <1>20 DEF Destroy, Go, Idle
<1>21. CASE StartStop
  BY <1>21 DEF StartStop
<1>22. CASE Term
  BY <1>22 DEF Term
<1>23. CASE Take
  BY <1>23, TakeRing DEF Take
<1>24. CASE FindNone
  BY <1>24 DEF FindNone
<1>25. CASE OpenFails
  BY <1>25 DEF OpenFails, Step
<1>26. CASE Open
  BY <1>26 DEF Open, Step
<1>27. CASE Lock
  BY <1>27 DEF Lock, Step, AfterLock
<1>28. CASE Up
  BY <1>28 DEF Up, Step
<1>29. CASE Unlock
  BY <1>29 DEF Unlock, Step
<1>30. CASE While
  BY <1>30 DEF While, Step
<1>31. CASE Read
  BY <1>31 DEF Read, Step
<1>32. CASE Tick
  BY <1>32 DEF Tick, Step
<1>33. CASE Loop
  BY <1>33 DEF Loop, Step
<1>34. CASE NothingDue
  BY <1>34 DEF NothingDue, Step, Due
<1>35. CASE Wake
  BY <1>35 DEF Wake
<1>36. CASE Write
  BY <1>36, WriteRing DEF Write
<1>37. CASE Resume
  BY <1>37 DEF Resume, Step
<1>38. CASE Advance
  BY <1>38, AdvanceRing DEF Advance, Step
<1>39. CASE Clear
  BY <1>39 DEF Clear, Step
<1>40. CASE Close
  BY <1>40 DEF Close, Step
<1>41. ASSUME NEW task \in queue, Dequeued(task) PROVE Ring'
  BY <1>41 DEF Dequeued, IsFirst, Due
<1>42. CASE Signal
  BY <1>42 DEF Signal, Step
<1>43. CASE WakeUp
  BY <1>43 DEF WakeUp, Go, Idle
<1> QED
  BY <1>1, <1>2, <1>3, <1>4, <1>5, <1>6, <1>7, <1>8, <1>9, <1>10, <1>11, <1>12, <1>13, <1>14, <1>15,
     <1>16, <1>17, <1>18, <1>19, <1>20, <1>21, <1>22, <1>23, <1>24, <1>25, <1>26, <1>27, <1>28,
     <1>29, <1>30, <1>31, <1>32, <1>33, <1>34, <1>35, <1>36, <1>37, <1>38, <1>39, <1>40, <1>41, <1>42,
     <1>43 DEF Next, Continue, Opcode, Routine

\* What the driver took is what was written first.
LEMMA RingPrefix == IInv => TakenInOrder
<1> SUFFICES ASSUME IInv, ~overrun
             PROVE  Len(taken) <= Len(written) /\ taken = SubSeq(written, 1, Len(taken))
  BY DEF TakenInOrder
<1>1. /\ Len(written) = Len(taken) + Ahead + Late
      /\ \A i \in 1..Len(taken) : taken[i] = written[i]
  BY DEF IInv, Ring
<1>2. /\ Len(taken) \in Nat /\ Len(written) \in Nat
      /\ written \in Seq(Tasks) /\ taken \in Seq(Tasks \cup {None})
  BY DEF IInv, Records
<1>3. Ahead \in Nat /\ Late \in Nat
  BY RtcAssumption DEF IInv, TypeOK, Ahead, Late
<1>4. Len(taken) <= Len(written)
  BY <1>1, <1>2, <1>3
<1>5. /\ SubSeq(written, 1, Len(taken)) \in Seq(Tasks)
      /\ Len(SubSeq(written, 1, Len(taken))) = Len(taken)
      /\ \A i \in 1..Len(taken) : SubSeq(written, 1, Len(taken))[i] = written[i]
  BY <1>2, <1>4
<1> QED
  BY <1>1, <1>2, <1>4, <1>5

LEMMA StepInv == IInv /\ [Next]_vars => IInv'
<1>1. ASSUME IInv, Next PROVE IInv'
  BY <1>1, TypeStep, RecordsStep, PlacesStep, UpStep, ExclusionStep, UniqueStep, AccountedStep,
     RingStep DEF IInv
<1>2. ASSUME IInv, UNCHANGED vars PROVE IInv'
  <2>1. TypeOK' /\ Records' /\ Places' /\ UpBefore' /\ Exclusion' /\ Unique'
    BY <1>2 DEF IInv, vars, shared, threads, ring, history, TypeOK, Records, Places, UpBefore,
       Exclusion, EngineHolds, Unique
  <2>2. Accounted'
    BY <1>2 DEF IInv, vars, history, Accounted, Entering, Numbers, Leaving, Listed
  <2>3. Ring'
    BY <1>2 DEF IInv, vars, ring, history, Ring, Steps, Ahead, Late
  <2> QED
    BY <2>1, <2>2, <2>3 DEF IInv
<1> QED
  BY <1>1, <1>2

LEMMA InitInv == Init => IInv
<1> SUFFICES ASSUME Init PROVE IInv
  OBVIOUS
<1>1. TypeOK
  <2>1. 0 \in 0..(FifoSize - 1) /\ 0 \in 0..MaxDate
    BY RtcAssumption
  <2> QED
    BY <2>1 DEF Init, TypeOK
<1>2. Records /\ Places /\ UpBefore /\ Exclusion /\ Unique
  BY RtcAssumption DEF Init, Idle, Records, Places, UpBefore, Exclusion, EngineHolds, TimerHolds,
     Unique, VmPlaces, TmPlaces, Ops
<1>3. Spread({}, {}, {}, {}, {}, 0)
  BY DEF Spread
<1>4. /\ Entering = {} /\ Numbers(queue) = {} /\ Leaving = {} /\ Listed(written) = {}
  BY DEF Init, Idle, Entering, Numbers, Leaving, Listed
<1>5. Accounted
  BY <1>3, <1>4, AccountedFlat DEF Init
<1>6. Ring
  BY RtcAssumption DEF Init, Ring, Ahead, Late
<1> QED
  BY <1>1, <1>2, <1>5, <1>6 DEF IInv

-----------------------------------------------------------------------------
(* The theorems *)

\* The inductive invariant of the two pthreads of timer.c and libRTC.c.
THEOREM RtcInvariance == Spec => []IInv
<1> QED
  BY InitInv, StepInv, PTL DEF Spec

\* The shared variables keep their types, the ends of the FIFO stay in it.
THEOREM RtcTypeCorrect == Spec => []TypeOK
<1>1. IInv => TypeOK
  BY DEF IInv
<1> QED
  BY <1>1, RtcInvariance, PTL

\* No task that RTC_wait or RTC_sched creates is lost or run twice.
THEOREM TasksAccounted == Spec => []Accounted
<1>1. IInv => Accounted
  BY DEF IInv
<1> QED
  BY <1>1, RtcInvariance, PTL

\* Two calls are in the queue at once only after the engine has met the
\* flag __selfcall of the timer, or the wait of RTC_term has returned without
\* a signal.
THEOREM QueueExclusive == Spec => []ExclusiveUnlessSkipped
<1>1. IInv => ExclusiveUnlessSkipped
  BY RtcAssumption DEF IInv, Places, UpBefore, Exclusion, EngineHolds, TimerHolds, Raced,
     ExclusiveUnlessSkipped
<1> QED
  BY <1>1, RtcInvariance, PTL

\* The FIFO without a lock hands over what was written, in that order.
THEOREM FifoInOrder == Spec => []TakenInOrder
<1> QED
  BY RingPrefix, RtcInvariance, PTL

\* pqDestroy is called after the timer's last turn, whichever of the timer's
\* two signals ended the wait of RTC_term.
THEOREM QueueDestroyedLast == Spec => []DestroyedLast
<1>1. IInv => DestroyedLast
  BY DEF IInv, Places, UpBefore, DestroyedLast, Turn
<1> QED
  BY <1>1, RtcInvariance, PTL

=============================================================================
