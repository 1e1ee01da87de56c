--------------------------- MODULE EventQueue_proofs ---------------------------
(***************************************************************************)
(* Three proofs about the event queue, for any timers, durations, threads  *)
(* and bounds.                                                             *)
(*                                                                         *)
(* No timer expires early.  The code never stores when a timer is due.  It *)
(* stores what was left of it when all timers were last counted down,      *)
(* plus, for a new timer, the time since then.  The invariant is that this *)
(* always comes to the same: what is left minus m_time is the time until   *)
(* the timer is due.                                                       *)
(*                                                                         *)
(* The table of events and the buffer of their numbers fit each other.     *)
(* The size of the table is a free number only because the numbers in use  *)
(* and those kept for reuse are together 0..Count - 1: that is the         *)
(* invariant, with the number that the main thread has taken but not yet   *)
(* looked up counted as in use.                                            *)
(*                                                                         *)
(* The queue implements EventOrder.  What a thread waits for is read off   *)
(* the numbers, the table and m_pending by a recursive function, of which  *)
(* it is shown by induction what one event more or less does to it.        *)
(***************************************************************************)
EXTENDS EventQueue, FiniteSetTheorems, SequenceTheorems, WellFoundedInduction, TLAPS

TimerType == [left : Int, timeout : Int, due : Int]

\* m_time runs with the time, and what a timer has left is true.
LeftIsTrue ==
    /\ clock \in Int /\ now \in Int
    /\ \A t \in Timer : timers[t] # NULL =>
           /\ timers[t] \in TimerType
           /\ timers[t].left - clock = timers[t].due - now

TimersInv == timers \in [Timer -> {NULL} \cup TimerType] /\ LeftIsTrue

-----------------------------------------------------------------------------
LEMMA InitTimers == Init => TimersInv
BY DEF Init, TimersInv, LeftIsTrue

\* Counting down all timers by m_time and starting it again changes nothing.
LEMMA CountingDown ==
    ASSUME TimersInv
    PROVE  /\ CountedDown \in [Timer -> {NULL} \cup TimerType]
           /\ \A t \in Timer : timers[t] = NULL => CountedDown[t] = NULL
           /\ \A t \in Timer : timers[t] # NULL =>
                  /\ CountedDown[t] \in TimerType
                  /\ CountedDown[t].left = timers[t].left - clock
                  /\ CountedDown[t].due = timers[t].due
                  /\ CountedDown[t].timeout = timers[t].timeout
<1>1. ASSUME NEW t \in Timer, timers[t] # NULL
      PROVE  LET b == [timers[t] EXCEPT !.left = @ - clock]
             IN  /\ b \in TimerType /\ b.left = timers[t].left - clock
                 /\ b.due = timers[t].due /\ b.timeout = timers[t].timeout
  BY <1>1 DEF TimersInv, LeftIsTrue, TimerType
<1> QED
  BY <1>1 DEF CountedDown

\* A timer gets the time since timers were last looked at as well, which will
\* be taken off again.
LEMMA NewTimerStep ==
    ASSUME TimersInv, NEW t \in Timer, NewTimer(t)
    PROVE  TimersInv'
<1>1. PICK d \in Durations :
          timers' = [timers EXCEPT ![t] = [left |-> InitialTime(d), timeout |-> d, due |-> now + d]]
  BY DEF NewTimer
<1>2. d \in Nat /\ clock \in Int /\ now \in Int
  BY EventQueueAssumption DEF TimersInv, LeftIsTrue
<1> DEFINE new == [left |-> d + clock, timeout |-> d, due |-> now + d]
<1>3. new \in TimerType /\ new.left - clock = new.due - now
  BY <1>2 DEF TimerType
<1>4. timers' = [timers EXCEPT ![t] = new] /\ clock' = clock /\ now' = now
  BY <1>1 DEF NewTimer, InitialTime
<1> HIDE DEF new
<1>5. timers' \in [Timer -> {NULL} \cup TimerType]
  BY <1>3, <1>4 DEF TimersInv
<1>6. \A u \in Timer : timers'[u] = IF u = t THEN new ELSE timers[u]
  BY <1>4 DEF TimersInv
<1> QED
  BY <1>2, <1>3, <1>4, <1>5, <1>6 DEF TimersInv, LeftIsTrue

LEMMA DeleteTimerStep ==
    ASSUME TimersInv, NEW t \in Timer, DeleteTimer(t)
    PROVE  TimersInv'
<1>1. \A u \in Timer : timers'[u] = IF u = t THEN NULL ELSE timers[u]
  BY DEF DeleteTimer, TimersInv
<1> QED
  BY <1>1 DEF DeleteTimer, TimersInv, LeftIsTrue

LEMMA TickStep == TimersInv /\ Tick => TimersInv'
<1> SUFFICES ASSUME TimersInv, Tick PROVE TimersInv'
  OBVIOUS
<1>1. now' = now + 1 /\ clock' = clock + 1 /\ timers' = timers
  BY DEF Tick
<1>2. ASSUME NEW t \in Timer, timers[t] # NULL
      PROVE  timers[t] \in TimerType /\ timers[t].left - (clock + 1) = timers[t].due - (now + 1)
  BY <1>2 DEF TimersInv, LeftIsTrue, TimerType
<1> QED
  BY <1>1, <1>2 DEF TimersInv, LeftIsTrue

\* The timers are counted down, and m_time starts again.  If there is no timer
\* it does not, which is as good.
LEMMA NoTimerExpiredStep == TimersInv /\ NoTimerExpired => TimersInv'
<1> SUFFICES ASSUME TimersInv, NoTimerExpired PROVE TimersInv'
  OBVIOUS
<1>1. timers' = CountedDown /\ now' = now /\ clock' \in {clock, 0}
  BY DEF NoTimerExpired
<1>2. ASSUME NEW t \in Timer, CountedDown[t] # NULL
      PROVE  /\ CountedDown[t] \in TimerType
             /\ CountedDown[t].left - clock' = CountedDown[t].due - now
  <2>1. timers[t] # NULL
    BY <1>2, CountingDown
  <2>2. clock' = 0
    BY <2>1 DEF NoTimerExpired, Running
  <2>3. /\ CountedDown[t] \in TimerType /\ CountedDown[t].left = timers[t].left - clock
        /\ CountedDown[t].due = timers[t].due
    BY <2>1, CountingDown
  <2>4. timers[t].left - clock = timers[t].due - now /\ timers[t] \in TimerType
    BY <2>1 DEF TimersInv, LeftIsTrue
  <2>5. CountedDown[t].left \in Int
    BY <2>3 DEF TimerType
  <2> QED
    BY <2>2, <2>3, <2>4, <2>5
<1>3. clock' \in Int /\ now \in Int
  BY <1>1 DEF TimersInv, LeftIsTrue
<1> QED
  BY <1>1, <1>2, <1>3, CountingDown DEF TimersInv, LeftIsTrue

\* The same when one expires; it goes, or goes back with all of its time.
LEMMA ExpiredTimerStep ==
    ASSUME TimersInv, NEW t \in Timer, ExpiredTimer(t)
    PROVE  TimersInv' /\ now >= timers[t].due
<1> DEFINE again == [CountedDown[t] EXCEPT !.left = timers[t].timeout,
                                           !.due = now + timers[t].timeout]
           next == IF t \in OneShot THEN NULL ELSE again
<1>1. timers' = [CountedDown EXCEPT ![t] = next] /\ now' = now /\ clock' = 0
  BY DEF ExpiredTimer
<1>2. timers[t] # NULL /\ CountedDown[t].left <= 0
  BY DEF ExpiredTimer, Tops, Running
<1>3. /\ timers[t] \in TimerType /\ CountedDown[t] \in TimerType
      /\ CountedDown[t].left = timers[t].left - clock
      /\ timers[t].left - clock = timers[t].due - now
      /\ clock \in Int /\ now \in Int
  BY <1>2, CountingDown DEF TimersInv, LeftIsTrue
<1>4. now >= timers[t].due
  <2>1. timers[t].due \in Int /\ timers[t].left \in Int
    BY <1>3 DEF TimerType
  <2> QED
    BY <1>2, <1>3, <2>1
<1>5. again \in TimerType /\ again.left - 0 = again.due - now
  <2>1. timers[t].timeout \in Int
    BY <1>3 DEF TimerType
  <2>2. /\ again.left = timers[t].timeout /\ again.due = now + timers[t].timeout
        /\ again \in TimerType
    <3>1. now + timers[t].timeout \in Int
      BY <1>3, <2>1
    <3> QED
      BY <1>3, <2>1, <3>1 DEF TimerType
  <2> HIDE DEF again
  <2> QED
    BY <1>3, <2>1, <2>2
<1>6. ASSUME NEW u \in Timer, u # t, CountedDown[u] # NULL
      PROVE  CountedDown[u] \in TimerType /\ CountedDown[u].left - 0 = CountedDown[u].due - now
  <2>1. timers[u] # NULL
    BY <1>6, CountingDown
  <2>2. /\ CountedDown[u] \in TimerType /\ CountedDown[u].left = timers[u].left - clock
        /\ CountedDown[u].due = timers[u].due
    BY <2>1, CountingDown
  <2>3. timers[u].left - clock = timers[u].due - now
    BY <2>1 DEF TimersInv, LeftIsTrue
  <2>4. CountedDown[u].left \in Int
    BY <2>2 DEF TimerType
  <2> QED
    BY <2>2, <2>3, <2>4
<1> HIDE DEF again
<1>7. next \in {NULL, again}
  OBVIOUS
<1> HIDE DEF next
<1>8. \A u \in Timer : timers'[u] = IF u = t THEN next ELSE CountedDown[u]
  BY <1>1, CountingDown
<1>9. timers' \in [Timer -> {NULL} \cup TimerType]
  BY <1>1, <1>5, <1>7, CountingDown
<1>10. ASSUME NEW u \in Timer, timers'[u] # NULL
       PROVE  timers'[u] \in TimerType /\ timers'[u].left - clock' = timers'[u].due - now'
  <2>1. CASE u = t
    BY <1>1, <1>5, <1>7, <1>8, <1>10, <2>1
  <2>2. CASE u # t
    BY <1>1, <1>6, <1>8, <1>10, <2>2
  <2> QED
    BY <2>1, <2>2
<1> QED
  BY <1>1, <1>3, <1>4, <1>9, <1>10 DEF TimersInv, LeftIsTrue

LEMMA StepTimers == TimersInv /\ [Next]_vars => TimersInv'
<1> SUFFICES ASSUME TimersInv, [Next]_vars PROVE TimersInv'
  OBVIOUS
<1>1. CASE UNCHANGED <<timers, clock, now>>
  BY <1>1 DEF TimersInv, LeftIsTrue
<1>2. CASE \/ Loop \/ TakePending \/ NoMorePending \/ GetID \/ RemoveEvent \/ Wake \/ Handled
           \/ MainAdds \/ AdoptBuffer \/ (\E t \in Other : AddEvent(t) \/ EventAdded(t))
           \/ UNCHANGED vars
  BY <1>1, <1>2 DEF Loop, TakePending, NoMorePending, GetID, RemoveEvent, Wake, Handled,
     MainAdds, AdoptBuffer, AddEvent, EventAdded, vars, timerVars
<1> QED
  BY <1>2, NewTimerStep, DeleteTimerStep, TickStep, NoTimerExpiredStep, ExpiredTimerStep
     DEF Next, MainLoop, Handlers

\* Only hasTimerExpired hands a timer to the main thread.
LEMMA OnlyExpiredAreHandled ==
    ASSUME TimersInv, [Next]_vars, NEW t \in Timer, Expires(t)
    PROVE  now >= timers[t].due
<1>1. PICK u \in Timer : ExpiredTimer(u)
  BY DEF Expires, Next, MainLoop, Handlers, Loop, TakePending, NoMorePending, GetID, RemoveEvent,
     NoTimerExpired, Wake, Handled, MainAdds, AdoptBuffer, NewTimer, DeleteTimer, Handling, Tick,
     AddEvent, EventAdded, vars
<1>2. u = t
  BY <1>1 DEF Expires, ExpiredTimer
<1> QED
  BY <1>1, <1>2, ExpiredTimerStep

-----------------------------------------------------------------------------
\* No timer expires before its time, whenever it was made, whatever else
\* expired since and however long events kept the loop from looking at timers.
THEOREM TimersAreNotEarly == Spec => NoTimerIsEarly
<1>1. TimersInv /\ [Next]_vars => [\A t \in Timer : Expires(t) => now >= timers[t].due]_vars
  BY OnlyExpiredAreHandled
<1> QED
  BY InitTimers, StepTimers, <1>1, PTL DEF Spec, NoTimerIsEarly

-----------------------------------------------------------------------------
(***************************************************************************)
(* Sequences without repetition.                                           *)
(***************************************************************************)
Distinct(q) == \A i, j \in DOMAIN q : q[i] = q[j] => i = j

LEMMA Elements ==
    ASSUME NEW S, NEW q \in Seq(S)
    PROVE  /\ Len(q) \in Nat /\ DOMAIN q = 1..Len(q) /\ Range(q) \subseteq S
           /\ q = <<>> <=> Len(q) = 0
           /\ \A x : x \in Range(q) <=> \E i \in DOMAIN q : q[i] = x
<1>1. Len(q) \in Nat /\ DOMAIN q = 1..Len(q) /\ (q = <<>> <=> Len(q) = 0)
  BY LenProperties, EmptySeq
<1>2. \A i \in DOMAIN q : q[i] \in S
  BY <1>1, ElementOfSeq
<1> QED
  BY <1>1, <1>2 DEF Range

LEMMA AppendingOne ==
    ASSUME NEW S, NEW q \in Seq(S), NEW x \in S
    PROVE  /\ Append(q, x) \in Seq(S) /\ Len(Append(q, x)) = Len(q) + 1
           /\ Range(Append(q, x)) = Range(q) \cup {x}
           /\ Distinct(q) /\ x \notin Range(q) => Distinct(Append(q, x))
<1> DEFINE more == Append(q, x)
<1>1. /\ more \in Seq(S) /\ Len(more) = Len(q) + 1
      /\ \A i \in 1..Len(q) : more[i] = q[i]
      /\ more[Len(q) + 1] = x
  BY AppendProperties
<1> HIDE DEF more
<1>2. Len(q) \in Nat /\ DOMAIN q = 1..Len(q) /\ DOMAIN more = 1..Len(q) + 1
  BY <1>1, Elements
<1>3. \A i \in DOMAIN more : i = Len(q) + 1 \/ i \in DOMAIN q
  BY <1>2
<1>4. Range(more) = Range(q) \cup {x}
  <2>1. Range(more) \subseteq Range(q) \cup {x}
    BY <1>1, <1>2, <1>3 DEF Range
  <2>2. x \in Range(more)
    BY <1>1, <1>2 DEF Range
  <2>3. Range(q) \subseteq Range(more)
    BY <1>1, <1>2 DEF Range
  <2> QED
    BY <2>1, <2>2, <2>3
<1>5. ASSUME Distinct(q), x \notin Range(q) PROVE Distinct(more)
  <2>1. \A i \in DOMAIN q : q[i] # x /\ more[i] = q[i]
    BY <1>1, <1>2, <1>5 DEF Range
  <2> QED
    BY <1>1, <1>3, <1>5, <2>1 DEF Distinct
<1> QED
  BY <1>1, <1>4, <1>5 DEF more

LEMMA TakingHead ==
    ASSUME NEW S, NEW q \in Seq(S), q # <<>>
    PROVE  /\ Tail(q) \in Seq(S) /\ Len(Tail(q)) = Len(q) - 1 /\ Head(q) \in Range(q)
           /\ Distinct(q) => Distinct(Tail(q)) /\ Range(Tail(q)) = Range(q) \ {Head(q)}
<1> DEFINE rest == Tail(q)
<1>1. /\ rest \in Seq(S) /\ Len(rest) = Len(q) - 1 /\ Head(q) = q[1]
      /\ \A i \in 1..Len(rest) : rest[i] = q[i + 1]
  BY HeadTailProperties
<1> HIDE DEF rest
<1>2. Len(q) \in Nat /\ Len(q) # 0 /\ DOMAIN q = 1..Len(q) /\ DOMAIN rest = 1..Len(q) - 1
  BY <1>1, Elements
<1>3. Head(q) \in Range(q)
  BY <1>1, <1>2 DEF Range
<1>4. \A i \in DOMAIN rest : i + 1 \in DOMAIN q /\ i + 1 # 1 /\ rest[i] = q[i + 1]
  BY <1>1, <1>2
<1>5. \A i \in DOMAIN q : i # 1 => i - 1 \in DOMAIN rest /\ rest[i - 1] = q[i]
  BY <1>1, <1>2
<1>6. ASSUME Distinct(q) PROVE Distinct(rest) /\ Range(rest) = Range(q) \ {Head(q)}
  <2>1. ASSUME NEW i \in DOMAIN rest, NEW j \in DOMAIN rest, rest[i] = rest[j] PROVE i = j
    <3>1. i + 1 = j + 1
      BY <1>4, <1>6, <2>1 DEF Distinct
    <3> QED
      BY <1>2, <3>1
  <2>2. 1 \in DOMAIN q
    BY <1>2
  <2>3. ASSUME NEW y \in Range(rest) PROVE y \in Range(q) \ {Head(q)}
    <3>1. PICK i \in DOMAIN rest : rest[i] = y
      BY <2>3 DEF Range
    <3>2. q[i + 1] # q[1]
      BY <1>4, <1>6, <2>2 DEF Distinct
    <3> QED
      BY <1>1, <1>4, <3>1, <3>2 DEF Range
  <2>4. ASSUME NEW y \in Range(q) \ {Head(q)} PROVE y \in Range(rest)
    <3>1. PICK i \in DOMAIN q : q[i] = y /\ i # 1
      BY <1>1, <2>4 DEF Range
    <3> QED
      BY <1>5, <3>1 DEF Range
  <2> QED
    BY <2>1, <2>3, <2>4 DEF Distinct
<1> QED
  BY <1>1, <1>3, <1>6 DEF rest

LEMMA TakingLast ==
    ASSUME NEW S, NEW q \in Seq(S), q # <<>>
    PROVE  /\ Front(q) \in Seq(S) /\ Len(Front(q)) = Len(q) - 1 /\ Last(q) \in Range(q)
           /\ Distinct(q) => Distinct(Front(q)) /\ Range(Front(q)) = Range(q) \ {Last(q)}
<1> DEFINE rest == Front(q)
           n == Len(q)
<1>1. n \in Nat /\ n # 0 /\ DOMAIN q = 1..n
  BY Elements
<1>2. rest = SubSeq(q, 1, n - 1) /\ Last(q) = q[n]
  BY DEF Front, Last
<1>3. /\ rest \in Seq(S) /\ Len(rest) = n - 1
      /\ \A i \in 1..n - 1 : rest[i] = q[i]
  <2>1. n - 1 \in Int /\ 1 \in Int /\ \A i \in 1..n - 1 : q[i] \in S
    BY <1>1, ElementOfSeq
  <2>2. /\ SubSeq(q, 1, n - 1) \in Seq(S)
        /\ Len(SubSeq(q, 1, n - 1)) = IF 1 <= n - 1 THEN (n - 1) - 1 + 1 ELSE 0
        /\ \A i \in 1..(n - 1) - 1 + 1 : SubSeq(q, 1, n - 1)[i] = q[1 + i - 1]
    BY <2>1, SubSeqProperties
  <2>3. (n - 1) - 1 + 1 = n - 1 /\ (~(1 <= n - 1) => n - 1 = 0)
    BY <1>1
  <2>4. \A i \in 1..n - 1 : 1 + i - 1 = i
    BY <1>1
  <2> HIDE DEF n, rest
  <2> QED
    BY <1>2, <2>2, <2>3, <2>4
<1> HIDE DEF rest, n
<1>4. DOMAIN rest = 1..n - 1 /\ Last(q) \in Range(q) /\ n \in DOMAIN q
  BY <1>1, <1>2, <1>3, Elements DEF Range
<1>5. \A i \in DOMAIN rest : i \in DOMAIN q /\ i # n /\ rest[i] = q[i]
  BY <1>1, <1>3, <1>4
<1>6. \A i \in DOMAIN q : i # n => i \in DOMAIN rest /\ rest[i] = q[i]
  BY <1>1, <1>3, <1>4
<1>7. ASSUME Distinct(q) PROVE Distinct(rest) /\ Range(rest) = Range(q) \ {Last(q)}
  <2>1. Distinct(rest)
    BY <1>5, <1>7 DEF Distinct
  <2>2. ASSUME NEW y \in Range(rest) PROVE y \in Range(q) \ {Last(q)}
    <3>1. PICK i \in DOMAIN rest : rest[i] = y
      BY <2>2 DEF Range
    <3>2. q[i] # q[n]
      BY <1>4, <1>5, <1>7 DEF Distinct
    <3> QED
      BY <1>2, <1>5, <3>1, <3>2 DEF Range
  <2>3. ASSUME NEW y \in Range(q) \ {Last(q)} PROVE y \in Range(rest)
    <3>1. PICK i \in DOMAIN q : q[i] = y /\ i # n
      BY <1>2, <2>3 DEF Range
    <3> QED
      BY <1>6, <3>1 DEF Range
  <2> QED
    BY <2>1, <2>2, <2>3
<1> QED
  BY <1>3, <1>4, <1>7 DEF rest, n

LEMMA Joining ==
    ASSUME NEW S, NEW a \in Seq(S), NEW b \in Seq(S)
    PROVE  /\ a \o b \in Seq(S) /\ Len(a \o b) = Len(a) + Len(b)
           /\ Range(a \o b) = Range(a) \cup Range(b)
           /\ Distinct(a) /\ Distinct(b) /\ Range(a) \cap Range(b) = {} => Distinct(a \o b)
<1> DEFINE more == a \o b
<1>1. /\ more \in Seq(S) /\ Len(more) = Len(a) + Len(b)
      /\ \A i \in 1..Len(a) + Len(b) : more[i] = IF i <= Len(a) THEN a[i] ELSE b[i - Len(a)]
  BY ConcatProperties
<1> HIDE DEF more
<1>2. /\ Len(a) \in Nat /\ DOMAIN a = 1..Len(a) /\ Len(b) \in Nat /\ DOMAIN b = 1..Len(b)
      /\ DOMAIN more = 1..Len(a) + Len(b)
  BY <1>1, Elements
<1>3. \A i \in DOMAIN more : \/ i \in DOMAIN a /\ more[i] = a[i]
                             \/ /\ i - Len(a) \in DOMAIN b /\ more[i] = b[i - Len(a)]
                                /\ i \in Int
  BY <1>1, <1>2
<1>4. \A i \in DOMAIN a : i \in DOMAIN more /\ more[i] = a[i]
  BY <1>1, <1>2
<1>5. ASSUME NEW i \in DOMAIN b PROVE i + Len(a) \in DOMAIN more /\ more[i + Len(a)] = b[i]
  <2>1. i + Len(a) \in 1..Len(a) + Len(b) /\ ~(i + Len(a) <= Len(a)) /\ (i + Len(a)) - Len(a) = i
    BY <1>2
  <2> QED
    BY <1>1, <1>2, <2>1
<1>6. Range(more) = Range(a) \cup Range(b)
  <2>1. Range(more) \subseteq Range(a) \cup Range(b)
    BY <1>3 DEF Range
  <2>2. Range(a) \subseteq Range(more)
    BY <1>4 DEF Range
  <2>3. Range(b) \subseteq Range(more)
    BY <1>5 DEF Range
  <2> QED
    BY <2>1, <2>2, <2>3
<1>7. ASSUME Distinct(a), Distinct(b), Range(a) \cap Range(b) = {} PROVE Distinct(more)
  <2> SUFFICES ASSUME NEW i \in DOMAIN more, NEW j \in DOMAIN more, more[i] = more[j]
               PROVE  i = j
    BY DEF Distinct
  <2>1. \A k \in DOMAIN a : a[k] \in Range(a)
    BY DEF Range
  <2>2. \A k \in DOMAIN b : b[k] \in Range(b)
    BY DEF Range
  <2>3. CASE i \in DOMAIN a /\ more[i] = a[i] /\ j \in DOMAIN a /\ more[j] = a[j]
    BY <1>7, <2>3 DEF Distinct
  <2>4. CASE /\ i - Len(a) \in DOMAIN b /\ more[i] = b[i - Len(a)] /\ i \in Int
             /\ j - Len(a) \in DOMAIN b /\ more[j] = b[j - Len(a)] /\ j \in Int
    <3>1. i - Len(a) = j - Len(a)
      BY <1>7, <2>4 DEF Distinct
    <3> QED
      BY <1>2, <2>4, <3>1
  <2> QED
    BY <1>3, <1>7, <2>1, <2>2, <2>3, <2>4
<1> QED
  BY <1>1, <1>6, <1>7 DEF more

LEMMA Counting ==
    ASSUME NEW S, NEW q \in Seq(S), Distinct(q)
    PROVE  Cardinality(Range(q)) = Len(q)
<1>1. Len(q) \in Nat /\ DOMAIN q = 1..Len(q)
  BY Elements
<1>2. IsFiniteSet(1..Len(q)) /\ Cardinality(1..Len(q)) = Len(q)
  BY <1>1, FS_Interval
<1> DEFINE f == [i \in 1..Len(q) |-> q[i]]
<1>3. f \in Bijection(1..Len(q), Range(q))
  <2>1. f \in [1..Len(q) -> Range(q)]
    BY <1>1 DEF Range
  <2>2. \A i, j \in 1..Len(q) : f[i] = f[j] => i = j
    BY <1>1 DEF Distinct
  <2>3. \A y \in Range(q) : \E i \in 1..Len(q) : f[i] = y
    BY <1>1 DEF Range
  <2> HIDE DEF f
  <2> QED
    BY <2>1, <2>2, <2>3 DEF Bijection, Injection, IsInjective, Surjection
<1>4. ExistsBijection(1..Len(q), Range(q))
  BY <1>3 DEF ExistsBijection
<1> QED
  BY <1>2, <1>4, FS_Bijection

-----------------------------------------------------------------------------
(***************************************************************************)
(* The numbers of the events.                                              *)
(***************************************************************************)
Taken == IF main = "removeEvent" THEN {dataID} ELSE {}
InUse == Range(buffer) \cup Taken
Count == Len(buffer) + (IF main = "removeEvent" THEN 1 ELSE 0) + Len(oldEventIDs)

\* The events and the numbers, whatever their threads are at.
Numbers ==
    /\ DOMAIN events \subseteq Nat /\ Range(events) \subseteq Event
    /\ buffer \in Seq(Nat) /\ oldEventIDs \in Seq(Nat)
    /\ main = "removeEvent" => dataID \in Nat
    /\ Distinct(buffer) /\ Distinct(oldEventIDs)
    /\ Range(buffer) \cap Range(oldEventIDs) = {}
    /\ Taken \cap (Range(buffer) \cup Range(oldEventIDs)) = {}
    /\ DOMAIN events = InUse
    /\ InUse \cup Range(oldEventIDs) = 0..Count - 1

Threads ==
    /\ ready \in BOOLEAN /\ pending \in Seq(Event) /\ posted \in 0..MaxPosts
    /\ main \in {"start", "pending", "getEvent", "removeEvent", "handle", "waitForEvent", "ended"}
    /\ adding \in [Other -> {NULL} \cup [event : Event, ready : BOOLEAN]]

QueueInv == Numbers /\ Threads

\* The number is new, or one that is kept for reuse.
LEMMA FreeIDIsFree ==
    ASSUME Numbers
    PROVE  /\ FreeID \in Nat /\ FreeID \notin InUse
           /\ oldEventIDs = <<>> => FreeID = Count
           /\ oldEventIDs # <<>> => FreeID = Last(oldEventIDs) /\ FreeID \in Range(oldEventIDs)
<1>1. Len(buffer) \in Nat /\ Len(oldEventIDs) \in Nat /\ Count \in Nat
  BY Elements DEF Numbers, Count
<1>2. CASE oldEventIDs = <<>>
  <2>1. Range(oldEventIDs) = {}
    BY <1>2 DEF Range
  <2>2. DOMAIN events = 0..Count - 1
    BY <2>1 DEF Numbers
  <2>3. Cardinality(0..Count - 1) = Count
    BY <1>1, FS_Interval
  <2>4. FreeID = Count
    BY <1>2, <2>2, <2>3 DEF FreeID
  <2>5. Count \notin 0..Count - 1
    BY <1>1
  <2> QED
    BY <1>1, <1>2, <2>2, <2>4, <2>5 DEF Numbers
<1>3. CASE oldEventIDs # <<>>
  <2>1. FreeID = Last(oldEventIDs) /\ oldEventIDs \in Seq(Nat)
    BY <1>3 DEF FreeID, Numbers
  <2>2. FreeID \in Range(oldEventIDs) /\ Range(oldEventIDs) \subseteq Nat
    BY <1>3, <2>1, TakingLast, Elements
  <2> QED
    BY <1>3, <2>1, <2>2 DEF Numbers, InUse
<1> QED
  BY <1>2, <1>3

LEMMA AddingKeepsNumbers ==
    ASSUME Numbers, NEW e \in Event, AddEventToBuffer(e), main' = main, dataID' = dataID
    PROVE  Numbers'
<1> DEFINE id == FreeID
<1>1. /\ id \in Nat /\ id \notin InUse
      /\ oldEventIDs = <<>> => id = Count
      /\ oldEventIDs # <<>> => id = Last(oldEventIDs) /\ id \in Range(oldEventIDs)
  BY FreeIDIsFree
<1>2. /\ events' = [n \in DOMAIN events \cup {id} |-> IF n = id THEN e ELSE events[n]]
      /\ oldEventIDs' = IF oldEventIDs # <<>> THEN Front(oldEventIDs) ELSE <<>>
      /\ buffer' = Append(buffer, id)
  BY DEF AddEventToBuffer
<1> HIDE DEF id
<1>3. buffer \in Seq(Nat) /\ oldEventIDs \in Seq(Nat) /\ Len(buffer) \in Nat /\ Len(oldEventIDs) \in Nat
  BY Elements DEF Numbers
<1>4. DOMAIN events' = DOMAIN events \cup {id} /\ Range(events') \subseteq Event
  <2>1. \A n \in DOMAIN events : events[n] \in Event
    BY DEF Numbers, Range
  <2> QED
    BY <1>2, <2>1 DEF Range
<1>5. /\ buffer' \in Seq(Nat) /\ Len(buffer') = Len(buffer) + 1
      /\ Range(buffer') = Range(buffer) \cup {id} /\ Distinct(buffer')
  BY <1>1, <1>2, <1>3, AppendingOne DEF Numbers, InUse
<1>6. Taken' = Taken
  BY DEF Taken
<1>7. InUse' = InUse \cup {id} /\ DOMAIN events' = InUse'
  BY <1>4, <1>5, <1>6 DEF Numbers, InUse
<1>8. id \notin Taken /\ id \notin Range(buffer)
  BY <1>1 DEF InUse
<1>9. CASE oldEventIDs = <<>>
  <2>1. oldEventIDs' = <<>> /\ Range(oldEventIDs') = {} /\ Range(oldEventIDs) = {}
        /\ oldEventIDs' = oldEventIDs
    BY <1>2, <1>9 DEF Range
  <2>2. Count' = Count + 1 /\ Count \in Nat
    BY <1>3, <1>5, <2>1 DEF Count
  <2>3. InUse' \cup Range(oldEventIDs') = 0..Count' - 1
    <3>1. InUse = 0..Count - 1
      BY <2>1 DEF Numbers
    <3>2. 0..(Count + 1) - 1 = 0..Count - 1 \cup {Count}
      BY <2>2
    <3> QED
      BY <1>1, <1>7, <1>9, <2>1, <2>2, <3>1, <3>2
  <2> QED
    BY <1>1, <1>3, <1>4, <1>5, <1>6, <1>7, <1>8, <2>1, <2>3 DEF Numbers
<1>10. CASE oldEventIDs # <<>>
  <2>1. /\ oldEventIDs' \in Seq(Nat) /\ Len(oldEventIDs') = Len(oldEventIDs) - 1
        /\ Distinct(oldEventIDs') /\ Range(oldEventIDs') = Range(oldEventIDs) \ {id}
    <3>1. oldEventIDs' = Front(oldEventIDs) /\ id = Last(oldEventIDs) /\ Distinct(oldEventIDs)
      BY <1>1, <1>2, <1>10 DEF Numbers
    <3>2. /\ Front(oldEventIDs) \in Seq(Nat) /\ Len(Front(oldEventIDs)) = Len(oldEventIDs) - 1
          /\ Distinct(Front(oldEventIDs))
          /\ Range(Front(oldEventIDs)) = Range(oldEventIDs) \ {Last(oldEventIDs)}
      BY <1>3, <1>10, <3>1, TakingLast
    <3> QED
      BY <3>1, <3>2
  <2>2. Count' = Count
    <3>1. Count' = Len(buffer') + (IF main = "removeEvent" THEN 1 ELSE 0) + Len(oldEventIDs')
      BY DEF Count
    <3>2. Len(buffer') = Len(buffer) + 1 /\ Len(oldEventIDs') = Len(oldEventIDs) - 1
      BY <1>5, <2>1
    <3>3. CASE main = "removeEvent"
      BY <1>3, <3>1, <3>2, <3>3 DEF Count
    <3>4. CASE main # "removeEvent"
      BY <1>3, <3>1, <3>2, <3>4 DEF Count
    <3> QED
      BY <3>3, <3>4
  <2>3. InUse' \cup Range(oldEventIDs') = 0..Count' - 1
    BY <1>1, <1>7, <1>10, <2>1, <2>2 DEF Numbers
  <2> QED
    BY <1>1, <1>3, <1>4, <1>5, <1>6, <1>7, <1>8, <1>10, <2>1, <2>3 DEF Numbers
<1> QED
  BY <1>9, <1>10

LEMMA GetIDKeepsNumbers ==
    ASSUME Numbers, GetID
    PROVE  Numbers'
<1>1. /\ main = "getEvent" /\ buffer # <<>>
      /\ dataID' = Head(buffer) /\ buffer' = Tail(buffer) /\ main' = "removeEvent"
      /\ events' = events /\ oldEventIDs' = oldEventIDs
  BY DEF GetID
<1>2. buffer \in Seq(Nat) /\ Range(buffer) \subseteq Nat /\ Len(buffer) \in Nat
      /\ Len(oldEventIDs) \in Nat
  BY Elements DEF Numbers
<1>3. /\ buffer' \in Seq(Nat) /\ Len(buffer') = Len(buffer) - 1 /\ dataID' \in Range(buffer)
      /\ Distinct(buffer') /\ Range(buffer') = Range(buffer) \ {dataID'}
  BY <1>1, <1>2, TakingHead DEF Numbers
<1>4. Taken = {} /\ Taken' = {dataID'}
  BY <1>1 DEF Taken
<1>5. InUse' = InUse /\ Count' = Count
  BY <1>1, <1>2, <1>3, <1>4 DEF InUse, Count
<1>6. Taken' \cap (Range(buffer') \cup Range(oldEventIDs')) = {}
      /\ Range(buffer') \cap Range(oldEventIDs') = {}
  BY <1>1, <1>3, <1>4 DEF Numbers
<1> QED
  BY <1>1, <1>2, <1>3, <1>5, <1>6 DEF Numbers

LEMMA RemoveEventKeepsNumbers ==
    ASSUME Numbers, RemoveEvent
    PROVE  Numbers'
<1>1. /\ main = "removeEvent" /\ main' # "removeEvent"
      /\ events' = Restrict(events, DOMAIN events \ {dataID})
      /\ oldEventIDs' = Append(oldEventIDs, dataID) /\ buffer' = buffer
  BY DEF RemoveEvent
<1>2. /\ buffer \in Seq(Nat) /\ oldEventIDs \in Seq(Nat) /\ dataID \in Nat
      /\ Len(buffer) \in Nat /\ Len(oldEventIDs) \in Nat
  BY <1>1, Elements DEF Numbers
<1>3. Taken = {dataID} /\ Taken' = {}
  BY <1>1 DEF Taken
<1>4. /\ oldEventIDs' \in Seq(Nat) /\ Len(oldEventIDs') = Len(oldEventIDs) + 1
      /\ Distinct(oldEventIDs') /\ Range(oldEventIDs') = Range(oldEventIDs) \cup {dataID}
  BY <1>1, <1>2, <1>3, AppendingOne DEF Numbers
<1>5. /\ DOMAIN events' = DOMAIN events \ {dataID} /\ Range(events') \subseteq Event
  <2>1. \A n \in DOMAIN events : events[n] \in Event
    BY DEF Numbers, Range
  <2> QED
    BY <1>1, <2>1 DEF Restrict, Range
<1>6. InUse' = InUse \ {dataID} /\ DOMAIN events' = InUse'
  BY <1>1, <1>3, <1>5 DEF Numbers, InUse
<1>7. Count' = Count
  BY <1>1, <1>2, <1>4 DEF Count
<1>8. InUse' \cup Range(oldEventIDs') = InUse \cup Range(oldEventIDs)
  BY <1>3, <1>4, <1>6 DEF InUse
<1>9. Range(buffer') \cap Range(oldEventIDs') = {}
  BY <1>1, <1>3, <1>4 DEF Numbers
<1> QED
  BY <1>1, <1>2, <1>3, <1>4, <1>5, <1>6, <1>7, <1>8, <1>9 DEF Numbers

LEMMA AdoptBufferKeepsNumbers ==
    ASSUME AdoptBuffer
    PROVE  Numbers'
<1>1. /\ events' = NoEvents /\ buffer' = <<>> /\ oldEventIDs' = <<>>
      /\ main' # "removeEvent"
  BY DEF AdoptBuffer, Handling, Active
<1>2. /\ DOMAIN events' = {} /\ Range(events') = {} /\ Range(buffer') = {}
      /\ Range(oldEventIDs') = {} /\ Distinct(buffer') /\ Distinct(oldEventIDs')
      /\ Len(buffer') = 0 /\ Len(oldEventIDs') = 0
  BY <1>1 DEF NoEvents, Range, Distinct
<1>3. buffer' \in Seq(Nat) /\ oldEventIDs' \in Seq(Nat)
  BY <1>1
<1>4. Taken' = {} /\ InUse' = {} /\ Count' = 0 /\ 0..0 - 1 = {}
  BY <1>1, <1>2 DEF Taken, InUse, Count
<1> QED
  BY <1>1, <1>2, <1>3, <1>4 DEF Numbers

-----------------------------------------------------------------------------
LEMMA NewEventsAreEvents ==
    ASSUME Threads, MayPost, NEW t \in Thread, NEW e \in NewEvent(t)
    PROVE  e \in Event /\ posted + 1 \in 0..MaxPosts
<1>1. posted + 1 \in 1..MaxPosts /\ posted + 1 \in 0..MaxPosts
  BY EventQueueAssumption DEF Threads, MayPost
<1>2. PICK q \in BOOLEAN : e = [by |-> t, n |-> posted + 1, quit |-> q]
  BY DEF NewEvent
<1> QED
  BY <1>1, <1>2 DEF Event

LEMMA EventsKeepQueue ==
    ASSUME QueueInv, MainAdds \/ \E t \in Other : AddEvent(t) \/ EventAdded(t)
    PROVE  QueueInv'
<1>1. CASE MainAdds
  <2>1. PICK e \in NewEvent(Main) :
           IF ready THEN AddEventToBuffer(e) /\ UNCHANGED pending ELSE AddPending(e)
    BY <1>1 DEF MainAdds
  <2>2. /\ main' = main /\ dataID' = dataID /\ adding' = adding /\ ready' = ready
        /\ posted' = posted + 1 /\ MayPost
    BY <1>1 DEF MainAdds, Handling
  <2>3. e \in Event /\ posted' \in 0..MaxPosts
    BY <2>2, NewEventsAreEvents DEF QueueInv, Thread
  <2>4. CASE ready
    <3>1. AddEventToBuffer(e) /\ pending' = pending
      BY <2>1, <2>4
    <3>2. Numbers'
      BY <2>2, <2>3, <3>1, AddingKeepsNumbers DEF QueueInv
    <3> QED
      BY <2>2, <2>3, <3>1, <3>2 DEF QueueInv, Threads
  <2>5. CASE ~ready
    <3>1. AddPending(e)
      BY <2>1, <2>5
    <3>2. pending' = Append(pending, e) /\ UNCHANGED <<events, oldEventIDs, buffer>>
      BY <3>1 DEF AddPending
    <3>3. pending' \in Seq(Event)
      BY <2>3, <3>2 DEF QueueInv, Threads
    <3>4. Numbers'
      BY <2>2, <3>2 DEF QueueInv, Numbers, InUse, Taken, Count
    <3> QED
      BY <2>2, <2>3, <3>3, <3>4 DEF QueueInv, Threads
  <2> QED
    BY <2>4, <2>5
<1>2. ASSUME NEW t \in Other, AddEvent(t) PROVE QueueInv'
  <2>1. PICK e \in NewEvent(t) : adding' = [adding EXCEPT ![t] = [event |-> e, ready |-> ready]]
    BY <1>2 DEF AddEvent
  <2>2. /\ UNCHANGED queueVars /\ main' = main /\ dataID' = dataID
        /\ posted' = posted + 1 /\ MayPost
    BY <1>2 DEF AddEvent
  <2>3. e \in Event /\ posted' \in 0..MaxPosts
    BY <2>2, NewEventsAreEvents DEF QueueInv, Thread
  <2>4. adding' \in [Other -> {NULL} \cup [event : Event, ready : BOOLEAN]]
    BY <2>1, <2>3 DEF QueueInv, Threads
  <2>5. Numbers'
    BY <2>2 DEF QueueInv, queueVars, Numbers, InUse, Taken, Count
  <2> QED
    BY <2>2, <2>3, <2>4, <2>5 DEF QueueInv, Threads, queueVars
<1>3. ASSUME NEW t \in Other, EventAdded(t) PROVE QueueInv'
  <2> DEFINE e == adding[t].event
  <2>1. /\ adding[t] # NULL /\ adding' = [adding EXCEPT ![t] = NULL]
        /\ IF adding[t].ready THEN AddEventToBuffer(e) /\ UNCHANGED pending ELSE AddPending(e)
        /\ ready' = ready /\ main' = main /\ dataID' = dataID /\ posted' = posted
    BY <1>3 DEF EventAdded
  <2>2. e \in Event
    BY <2>1 DEF QueueInv, Threads
  <2>3. adding' \in [Other -> {NULL} \cup [event : Event, ready : BOOLEAN]]
    BY <2>1 DEF QueueInv, Threads
  <2> HIDE DEF e
  <2>4. CASE adding[t].ready
    <3>1. AddEventToBuffer(e) /\ pending' = pending
      BY <2>1, <2>4
    <3>2. Numbers'
      BY <2>1, <2>2, <3>1, AddingKeepsNumbers DEF QueueInv
    <3> QED
      BY <2>1, <2>3, <3>1, <3>2 DEF QueueInv, Threads
  <2>5. CASE ~adding[t].ready
    <3>1. AddPending(e)
      BY <2>1, <2>5
    <3>2. pending' = Append(pending, e) /\ UNCHANGED <<events, oldEventIDs, buffer>>
      BY <3>1 DEF AddPending
    <3>3. pending' \in Seq(Event)
      BY <2>2, <3>2 DEF QueueInv, Threads
    <3>4. Numbers'
      BY <2>1, <3>2 DEF QueueInv, Numbers, InUse, Taken, Count
    <3> QED
      BY <2>1, <2>3, <3>3, <3>4 DEF QueueInv, Threads
  <2> QED
    BY <2>4, <2>5
<1> QED
  BY <1>1, <1>2, <1>3

LEMMA StepQueue == QueueInv /\ [Next]_vars => QueueInv'
<1> SUFFICES ASSUME QueueInv, [Next]_vars PROVE QueueInv'
  OBVIOUS
<1>1. CASE TakePending
  <2>1. /\ pending # <<>> /\ AddEventToBuffer(Head(pending)) /\ pending' = Tail(pending)
        /\ ready' = ready /\ main' = main /\ dataID' = dataID /\ adding' = adding
        /\ posted' = posted
    BY <1>1 DEF TakePending
  <2>2. Head(pending) \in Event /\ pending' \in Seq(Event)
    BY <2>1 DEF QueueInv, Threads
  <2>3. Numbers'
    BY <2>1, <2>2, AddingKeepsNumbers DEF QueueInv
  <2> QED
    BY <2>1, <2>2, <2>3 DEF QueueInv, Threads
<1>2. CASE GetID
  <2>1. Numbers'
    BY <1>2, GetIDKeepsNumbers DEF QueueInv
  <2> QED
    BY <1>2, <2>1 DEF QueueInv, Threads, GetID
<1>3. CASE RemoveEvent
  <2>1. Numbers'
    BY <1>3, RemoveEventKeepsNumbers DEF QueueInv
  <2> QED
    BY <1>3, <2>1 DEF QueueInv, Threads, RemoveEvent
<1>4. CASE AdoptBuffer
  <2>1. Numbers'
    BY <1>4, AdoptBufferKeepsNumbers
  <2> QED
    BY <1>4, <2>1 DEF QueueInv, Threads, AdoptBuffer, Handling
<1>5. CASE MainAdds \/ \E t \in Other : AddEvent(t) \/ EventAdded(t)
  BY <1>5, EventsKeepQueue
<1>6. CASE /\ UNCHANGED <<pending, events, oldEventIDs, buffer, dataID, adding, posted>>
           /\ ready' \in BOOLEAN
           /\ \/ main' = main
              \/ /\ main # "removeEvent"
                 /\ main' \in {"pending", "getEvent", "handle", "waitForEvent"}
  BY <1>6 DEF QueueInv, Numbers, Threads, InUse, Taken, Count
<1>7. CASE \/ Loop \/ NoMorePending \/ (\E t \in Timer : ExpiredTimer(t)) \/ NoTimerExpired
           \/ Wake \/ Handled \/ Tick \/ (\E t \in Timer : NewTimer(t) \/ DeleteTimer(t))
           \/ UNCHANGED vars
  <2>1. ready \in BOOLEAN
    BY DEF QueueInv, Threads
  <2> QED
    BY <1>6, <1>7, <2>1 DEF Loop, NoMorePending, ExpiredTimer, NoTimerExpired, Wake, Handled, Tick,
       NewTimer, DeleteTimer, Handling, vars, queueVars
<1> QED
  BY <1>1, <1>2, <1>3, <1>4, <1>5, <1>7 DEF Next, MainLoop, Handlers

LEMMA InitQueue == Init => QueueInv
<1> SUFFICES ASSUME Init PROVE QueueInv
  OBVIOUS
<1>1. /\ events = NoEvents /\ oldEventIDs = <<>> /\ buffer = <<>> /\ pending = <<>>
      /\ main = "start" /\ ready = FALSE /\ posted = 0 /\ adding = [t \in Other |-> NULL]
  BY DEF Init
<1>2. /\ DOMAIN events = {} /\ Range(events) = {} /\ Range(buffer) = {}
      /\ Range(oldEventIDs) = {} /\ Distinct(buffer) /\ Distinct(oldEventIDs)
      /\ Len(buffer) = 0 /\ Len(oldEventIDs) = 0
  BY <1>1 DEF NoEvents, Range, Distinct
<1>3. buffer \in Seq(Nat) /\ oldEventIDs \in Seq(Nat) /\ pending \in Seq(Event)
  BY <1>1
<1>4. Taken = {} /\ InUse = {} /\ Count = 0 /\ 0..0 - 1 = {}
  BY <1>1, <1>2 DEF Taken, InUse, Count
<1>5. Numbers
  <2>1. main # "removeEvent" /\ DOMAIN events = InUse /\ InUse \cup Range(oldEventIDs) = 0..Count - 1
    BY <1>1, <1>2, <1>4
  <2> QED
    BY <1>2, <1>3, <1>4, <2>1 DEF Numbers
<1>6. Threads
  <2>1. adding \in [Other -> {NULL} \cup [event : Event, ready : BOOLEAN]]
    BY <1>1
  <2>2. posted \in 0..MaxPosts
    BY <1>1, EventQueueAssumption
  <2> QED
    BY <1>1, <1>3, <2>1, <2>2 DEF Threads
<1> QED
  BY <1>5, <1>6 DEF QueueInv

LEMMA NumbersOnce ==
    ASSUME QueueInv
    PROVE  NumbersAreInUseOnce
<1> DEFINE first == IF main = "removeEvent" THEN <<dataID>> ELSE <<>>
<1>1. buffer \in Seq(Nat) /\ oldEventIDs \in Seq(Nat) /\ Queued = first \o buffer
  BY DEF QueueInv, Numbers, Queued
<1>2. /\ first \in Seq(Nat) /\ Range(first) = Taken /\ Distinct(first)
      /\ Len(first) = IF main = "removeEvent" THEN 1 ELSE 0
  BY DEF QueueInv, Numbers, Range, Taken, Distinct
<1> HIDE DEF first
<1>3. /\ Queued \in Seq(Nat) /\ Len(Queued) = Len(first) + Len(buffer)
      /\ Range(Queued) = InUse /\ Distinct(Queued)
  <2>1. Distinct(buffer) /\ Range(first) \cap Range(buffer) = {}
    BY <1>2 DEF QueueInv, Numbers
  <2>2. /\ first \o buffer \in Seq(Nat) /\ Len(first \o buffer) = Len(first) + Len(buffer)
        /\ Range(first \o buffer) = Range(first) \cup Range(buffer)
    BY <1>1, <1>2, Joining
  <2>3. Distinct(first \o buffer)
    BY <1>1, <1>2, <2>1, Joining
  <2> QED
    BY <1>1, <1>2, <2>2, <2>3 DEF InUse
<1> DEFINE all == Queued \o oldEventIDs
<1>4. /\ all \in Seq(Nat) /\ Len(all) = Len(Queued) + Len(oldEventIDs)
      /\ Range(all) = InUse \cup Range(oldEventIDs) /\ Distinct(all)
  <2>1. Range(Queued) \cap Range(oldEventIDs) = {} /\ Distinct(oldEventIDs)
    BY <1>3 DEF QueueInv, Numbers, InUse
  <2>2. all \in Seq(Nat) /\ Len(all) = Len(Queued) + Len(oldEventIDs)
        /\ Range(all) = Range(Queued) \cup Range(oldEventIDs)
    <3>1. Queued \in Seq(Nat) /\ oldEventIDs \in Seq(Nat)
      BY <1>1, <1>3
    <3> QED
      BY <3>1, Joining
  <2>3. Distinct(all)
    BY <1>1, <1>3, <2>1, Joining
  <2> QED
    BY <1>3, <2>2, <2>3
<1>5. Len(all) = Count
  <2>1. Len(buffer) \in Nat /\ Len(oldEventIDs) \in Nat
    BY <1>1, Elements
  <2> QED
    BY <1>2, <1>3, <1>4, <2>1 DEF Count
<1>6. Cardinality(Range(all)) = Len(all)
  BY <1>4, Counting
<1> HIDE DEF all
<1>7. Range(all) = 0..Len(all) - 1 /\ Range(Queued) = DOMAIN events
  BY <1>3, <1>4, <1>5 DEF QueueInv, Numbers
<1> QED
  BY <1>6, <1>7 DEF NumbersAreInUseOnce, all

-----------------------------------------------------------------------------
(***************************************************************************)
(* The rest of the type invariant: how long a timer has left.              *)
(***************************************************************************)
TimersFit ==
    /\ now \in 0..MaxNow /\ clock \in 0..now
    /\ \A t \in Timer : timers[t] # NULL =>
           timers[t].timeout \in Durations /\ timers[t].left <= clock + timers[t].timeout

LEMMA StepFits == TimersInv /\ TimersFit /\ [Next]_vars => TimersFit'
<1> SUFFICES ASSUME TimersInv, TimersFit, [Next]_vars PROVE TimersFit'
  OBVIOUS
<1>1. now \in Nat /\ clock \in Nat /\ clock <= now /\ now <= MaxNow /\ MaxNow \in Nat
  BY EventQueueAssumption DEF TimersFit
<1>2. ASSUME NEW t \in Timer, timers[t] # NULL
      PROVE  /\ timers[t].left \in Int /\ timers[t].timeout \in Durations /\ timers[t].timeout \in Nat
             /\ timers[t].left <= clock + timers[t].timeout
  BY <1>2, EventQueueAssumption DEF TimersInv, LeftIsTrue, TimerType, TimersFit
<1>3. CASE UNCHANGED <<timers, clock, now>>
  BY <1>3 DEF TimersFit
<1>4. CASE \/ Loop \/ TakePending \/ NoMorePending \/ GetID \/ RemoveEvent \/ Wake \/ Handled
           \/ MainAdds \/ AdoptBuffer \/ (\E t \in Other : AddEvent(t) \/ EventAdded(t))
           \/ UNCHANGED vars
  BY <1>3, <1>4 DEF Loop, TakePending, NoMorePending, GetID, RemoveEvent, Wake, Handled,
     MainAdds, AdoptBuffer, AddEvent, EventAdded, vars, timerVars
<1>5. ASSUME NEW t \in Timer, NewTimer(t) PROVE TimersFit'
  <2>1. PICK d \in Durations :
           timers' = [timers EXCEPT ![t] = [left |-> d + clock, timeout |-> d, due |-> now + d]]
    BY <1>5 DEF NewTimer, InitialTime
  <2>2. clock' = clock /\ now' = now /\ d \in Nat
    BY <1>5, EventQueueAssumption DEF NewTimer
  <2> DEFINE new == [left |-> d + clock, timeout |-> d, due |-> now + d]
  <2>3. new.timeout = d /\ new.left = d + clock
    OBVIOUS
  <2>4. timers' = [timers EXCEPT ![t] = new]
    BY <2>1
  <2> HIDE DEF new
  <2>5. \A u \in Timer : timers'[u] = IF u = t THEN new ELSE timers[u]
    BY <2>4 DEF TimersInv
  <2> QED
    BY <1>1, <1>2, <2>2, <2>3, <2>5 DEF TimersFit
<1>6. ASSUME NEW t \in Timer, DeleteTimer(t) PROVE TimersFit'
  <2>1. \A u \in Timer : timers'[u] = IF u = t THEN NULL ELSE timers[u]
    BY <1>6 DEF DeleteTimer, TimersInv
  <2>2. clock' = clock /\ now' = now
    BY <1>6 DEF DeleteTimer
  <2> QED
    BY <2>1, <2>2 DEF TimersFit
<1>7. CASE Tick
  <2>1. now' = now + 1 /\ clock' = clock + 1 /\ timers' = timers /\ now < MaxNow
    BY <1>7 DEF Tick
  <2>2. now' \in 0..MaxNow /\ clock' \in 0..now'
    BY <1>1, <2>1
  <2>3. \A t \in Timer : timers[t] # NULL => timers[t].left <= (clock + 1) + timers[t].timeout
    BY <1>1, <1>2
  <2> QED
    BY <1>2, <2>1, <2>2, <2>3 DEF TimersFit
<1>8. ASSUME NEW t \in Timer, timers[t] # NULL
      PROVE  /\ CountedDown[t].timeout \in Durations
             /\ CountedDown[t].left <= CountedDown[t].timeout
             /\ CountedDown[t].left \in Int /\ CountedDown[t].timeout \in Nat
  <2>1. CountedDown[t].left = timers[t].left - clock /\ CountedDown[t].timeout = timers[t].timeout
    BY <1>8, CountingDown
  <2> QED
    BY <1>1, <1>2, <1>8, <2>1
<1>9. CASE NoTimerExpired
  <2>1. timers' = CountedDown /\ now' = now /\ clock' \in {clock, 0}
    BY <1>9 DEF NoTimerExpired
  <2>2. ASSUME NEW t \in Timer, CountedDown[t] # NULL
        PROVE  /\ CountedDown[t].timeout \in Durations
               /\ CountedDown[t].left <= clock' + CountedDown[t].timeout
    <3>1. timers[t] # NULL
      BY <2>2, CountingDown
    <3>2. clock' \in Nat
      BY <1>1, <2>1
    <3> QED
      BY <1>8, <3>1, <3>2
  <2>3. clock' \in 0..now' /\ now' \in 0..MaxNow
    BY <1>1, <2>1
  <2> QED
    BY <2>1, <2>2, <2>3 DEF TimersFit
<1>10. ASSUME NEW t \in Timer, ExpiredTimer(t) PROVE TimersFit'
  <2> DEFINE again == [CountedDown[t] EXCEPT !.left = timers[t].timeout,
                                             !.due = now + timers[t].timeout]
             next == IF t \in OneShot THEN NULL ELSE again
  <2>1. timers' = [CountedDown EXCEPT ![t] = next] /\ now' = now /\ clock' = 0
    BY <1>10 DEF ExpiredTimer
  <2>2. timers[t] # NULL
    BY <1>10 DEF ExpiredTimer, Tops, Running
  <2>3. CountedDown[t] \in TimerType /\ CountedDown[t].timeout = timers[t].timeout
    BY <2>2, CountingDown
  <2>4. again.left = timers[t].timeout /\ again.timeout = timers[t].timeout
    BY <2>3 DEF TimerType
  <2>5. again.timeout \in Durations /\ again.left <= 0 + again.timeout
    <3>1. timers[t].timeout \in Durations /\ timers[t].timeout \in Nat
      BY <1>2, <2>2
    <3> HIDE DEF again
    <3> QED
      BY <2>4, <3>1
  <2> HIDE DEF again
  <2>6. next \in {NULL, again}
    OBVIOUS
  <2> HIDE DEF next
  <2>7. \A u \in Timer : timers'[u] = IF u = t THEN next ELSE CountedDown[u]
    BY <2>1, CountingDown
  <2>8. ASSUME NEW u \in Timer, timers'[u] # NULL
        PROVE  timers'[u].timeout \in Durations /\ timers'[u].left <= 0 + timers'[u].timeout
    <3>1. CASE u = t
      BY <2>5, <2>6, <2>7, <2>8, <3>1
    <3>2. CASE u # t
      <4>1. timers'[u] = CountedDown[u] /\ timers[u] # NULL
        BY <2>7, <2>8, <3>2, CountingDown
      <4> QED
        BY <1>8, <4>1
    <3> QED
      BY <3>1, <3>2
  <2>9. clock' \in 0..now' /\ now' \in 0..MaxNow
    BY <1>1, <2>1
  <2> QED
    BY <2>1, <2>8, <2>9 DEF TimersFit
<1> QED
  BY <1>4, <1>5, <1>6, <1>7, <1>9, <1>10 DEF Next, MainLoop, Handlers

LEMMA InvImplies ==
    ASSUME QueueInv, TimersInv, TimersFit
    PROVE  NumbersFit
<1>1. ASSUME NEW t \in Running
      PROVE  timers[t].timeout \in Durations /\ timers[t].left <= MaxNow + timers[t].timeout
  <2>1. /\ t \in Timer /\ timers[t] # NULL
        /\ timers[t].timeout \in Durations /\ timers[t].left <= clock + timers[t].timeout
    BY <1>1 DEF Running, TimersFit
  <2>2. timers[t].timeout \in Nat /\ timers[t].left \in Int
    BY <2>1, EventQueueAssumption DEF TimersInv, LeftIsTrue, TimerType
  <2>3. clock \in Nat /\ clock <= MaxNow /\ MaxNow \in Nat
    BY EventQueueAssumption DEF TimersFit
  <2> QED
    BY <2>1, <2>2, <2>3
<1>2. TypeOK
  BY <1>1 DEF TypeOK, QueueInv, Numbers, Threads, TimersFit
<1> QED
  BY <1>2, NumbersOnce DEF NumbersFit

\* For any threads, timers and bounds: an event number is never in use twice, none
\* is lost, and each number that is queued has its event, whenever threads add
\* events between the two locks of the loop.
THEOREM TheNumbersFit == Spec => []NumbersFit
<1>1. Init => QueueInv /\ TimersInv /\ TimersFit
  <2>1. Init => TimersFit
    BY EventQueueAssumption DEF Init, TimersFit
  <2> QED
    BY <2>1, InitQueue, InitTimers
<1>2. QueueInv /\ TimersInv /\ TimersFit /\ [Next]_vars => (QueueInv /\ TimersInv /\ TimersFit)'
  BY StepQueue, StepTimers, StepFits
<1>3. QueueInv /\ TimersInv /\ TimersFit => NumbersFit
  BY InvImplies
<1> QED
  BY <1>1, <1>2, <1>3, PTL DEF Spec

-----------------------------------------------------------------------------
(***************************************************************************)
(* Induction, for a set of numbers or of sequences.                        *)
(***************************************************************************)
LEMMA LeastNat ==
    ASSUME NEW T \in SUBSET Nat, T # {}
    PROVE  \E n \in T : \A m \in T : n <= m
<1>1. IsWellFoundedOn(OpToRel(<, Nat), Nat)
  BY NatLessThanWellFounded
<1>2. PICK n \in T : \A m \in T : ~(<<m, n>> \in OpToRel(<, Nat))
  BY <1>1, WFMin
<1>3. \A m \in T : ~(m < n)
  BY <1>2 DEF OpToRel
<1> QED
  BY <1>3

LEMMA SetInduction ==
    ASSUME NEW I, 0 \in I, \A n \in Nat : n \in I => n + 1 \in I
    PROVE  Nat \subseteq I
<1> SUFFICES ASSUME Nat \ I # {} PROVE FALSE
  OBVIOUS
<1>1. PICK n \in Nat \ I : \A m \in Nat \ I : n <= m
  BY LeastNat
<1>2. n # 0 /\ n - 1 \in Nat /\ n - 1 \in I
  BY <1>1
<1>3. (n - 1) + 1 \in I
  BY <1>2
<1> QED
  BY <1>1, <1>3

LEMMA SeqInduction ==
    ASSUME NEW S, NEW I, <<>> \in I,
           \A s \in Seq(S), e \in S : s \in I => Append(s, e) \in I
    PROVE  Seq(S) \subseteq I
<1> DEFINE L == {n \in Nat : \A s \in Seq(S) : Len(s) = n => s \in I}
<1>1. 0 \in L
  <2>1. \A s \in Seq(S) : Len(s) = 0 => s = <<>>
    BY EmptySeq
  <2> QED
    BY <2>1
<1>2. ASSUME NEW n \in Nat, n \in L PROVE n + 1 \in L
  <2> SUFFICES ASSUME NEW s \in Seq(S), Len(s) = n + 1 PROVE s \in I
    OBVIOUS
  <2>1. s # <<>>
    OBVIOUS
  <2>2. PICK t \in Seq(S), e \in S : s = Append(t, e)
    BY <2>1, SequenceEmptyOrAppend
  <2>3. Len(t) = n
    BY <2>2, AppendProperties, LenProperties
  <2> QED
    BY <1>2, <2>2, <2>3
<1> HIDE DEF L
<1>3. Nat \subseteq L
  BY <1>1, <1>2, SetInduction
<1> QED
  BY <1>3, LenProperties DEF L

(***************************************************************************)
(* The events of one thread: the recursive function in AddedBy exists, and *)
(* what it does with one event more and with two sequences.                *)
(***************************************************************************)
\* c holds what t added among the first n events of q, for n up to m.
Scan(t, q, m, c) ==
    c = [n \in 0..m |->
            IF n = 0 THEN <<>>
            ELSE IF q[n].by = t THEN Append(c[n - 1], q[n])
            ELSE c[n - 1]]

LEMMA ScanExists ==
    ASSUME NEW t, NEW q
    PROVE  \A m \in Nat : \E c : Scan(t, q, m, c)
<1> DEFINE I == {m \in Nat : \E c : Scan(t, q, m, c)}
<1>1. 0 \in I
  <2>1. Scan(t, q, 0, [n \in 0..0 |-> <<>>])
    BY DEF Scan
  <2> QED
    BY <2>1
<1>2. ASSUME NEW m \in Nat, m \in I PROVE m + 1 \in I
  <2>1. PICK c : Scan(t, q, m, c)
    BY <1>2
  <2> DEFINE next == IF q[m + 1].by = t THEN Append(c[m], q[m + 1]) ELSE c[m]
             d == [n \in 0..m + 1 |-> IF n = m + 1 THEN next ELSE c[n]]
  <2>2. \A n \in 0..m : d[n] = c[n]
    OBVIOUS
  <2>3. ASSUME NEW n \in 0..m + 1 PROVE d[n] = IF n = 0 THEN <<>>
            ELSE IF q[n].by = t THEN Append(d[n - 1], q[n])
            ELSE d[n - 1]
    <3>1. CASE n = m + 1
      <4>1. d[n] = next /\ d[n - 1] = c[m]
        BY <3>1
      <4> QED
        BY <3>1, <4>1
    <3>2. CASE n # m + 1
      <4>1. n \in 0..m /\ (n # 0 => n - 1 \in 0..m)
        BY <3>2
      <4>2. d[n] = c[n] /\ (n # 0 => d[n - 1] = c[n - 1])
        BY <4>1, <2>2
      <4> HIDE DEF d
      <4> QED
        BY <2>1, <4>1, <4>2 DEF Scan
    <3> QED
      BY <3>1, <3>2
  <2>4. Scan(t, q, m + 1, d)
    BY <2>3 DEF Scan
  <2> QED
    BY <2>4
<1> HIDE DEF I
<1>3. Nat \subseteq I
  BY <1>1, <1>2, SetInduction
<1> QED
  BY <1>3 DEF I

LEMMA AddedByScan ==
    ASSUME NEW t, NEW q, Len(q) \in Nat
    PROVE  \E c : Scan(t, q, Len(q), c) /\ AddedBy(t, q) = c[Len(q)]
<1>0. \E c : Scan(t, q, Len(q), c)
  BY ScanExists
<1> DEFINE chosen == CHOOSE c : Scan(t, q, Len(q), c)
<1>1. Scan(t, q, Len(q), chosen)
  BY <1>0
<1>2. AddedBy(t, q) = chosen[Len(q)]
  BY DEF AddedBy, Scan
<1> QED
  BY <1>1, <1>2

LEMMA ScansAgree ==
    ASSUME NEW t, NEW q, NEW r, NEW c, NEW d, NEW n \in Nat,
           Scan(t, q, n, c), Scan(t, r, n + 1, d), \A i \in 1..n : q[i] = r[i]
    PROVE  d[n + 1] = IF r[n + 1].by = t THEN Append(c[n], r[n + 1]) ELSE c[n]
<1> DEFINE I == {k \in Nat : k <= n => c[k] = d[k]}
<1>1. 0 \in I
  BY DEF Scan
<1>2. ASSUME NEW k \in Nat, k \in I PROVE k + 1 \in I
  <2> SUFFICES ASSUME k + 1 <= n PROVE c[k + 1] = d[k + 1]
    OBVIOUS
  <2>1. c[k] = d[k] /\ q[k + 1] = r[k + 1] /\ k + 1 # 0 /\ (k + 1) - 1 = k
        /\ k + 1 \in 0..n /\ k + 1 \in 0..n + 1
    BY <1>2
  <2>2. c[k + 1] = (IF q[k + 1].by = t THEN Append(c[k], q[k + 1]) ELSE c[k])
    BY <2>1 DEF Scan
  <2>3. d[k + 1] = (IF r[k + 1].by = t THEN Append(d[k], r[k + 1]) ELSE d[k])
    BY <2>1 DEF Scan
  <2> QED
    BY <2>1, <2>2, <2>3
<1> HIDE DEF I
<1>3. Nat \subseteq I
  BY <1>1, <1>2, SetInduction
<1>4. c[n] = d[n]
  BY <1>3 DEF I
<1>5. n + 1 # 0 /\ (n + 1) - 1 = n /\ n + 1 \in 0..n + 1
  OBVIOUS
<1>6. d[n + 1] = (IF r[n + 1].by = t THEN Append(d[n], r[n + 1]) ELSE d[n])
  BY <1>5 DEF Scan
<1> QED
  BY <1>4, <1>6

LEMMA AddedByEmpty == ASSUME NEW t PROVE AddedBy(t, <<>>) = <<>>
<1>1. Len(<<>>) = 0
  OBVIOUS
<1>2. PICK c : Scan(t, <<>>, 0, c) /\ AddedBy(t, <<>>) = c[0]
  BY <1>1, AddedByScan
<1> QED
  BY <1>2 DEF Scan

LEMMA AddedByAppend ==
    ASSUME NEW t, NEW q \in Seq(Event), NEW e \in Event
    PROVE  AddedBy(t, Append(q, e))
             = IF e.by = t THEN Append(AddedBy(t, q), e) ELSE AddedBy(t, q)
<1> DEFINE more == Append(q, e)
           n == Len(q)
<1>1. n \in Nat /\ Len(more) = n + 1 /\ more[n + 1] = e
  BY AppendProperties
<1>2. \A i \in 1..n : q[i] = more[i]
  BY AppendProperties
<1> HIDE DEF more
<1>3. PICK c : Scan(t, q, n, c) /\ AddedBy(t, q) = c[n]
  BY <1>1, AddedByScan
<1>4. PICK d : Scan(t, more, n + 1, d) /\ AddedBy(t, more) = d[n + 1]
  BY <1>1, AddedByScan
<1> HIDE DEF n
<1>5. d[n + 1] = IF more[n + 1].by = t THEN Append(c[n], more[n + 1]) ELSE c[n]
  BY <1>1, <1>2, <1>3, <1>4, ScansAgree
<1> QED
  BY <1>1, <1>3, <1>4, <1>5 DEF more

LEMMA AddedByType ==
    ASSUME NEW t
    PROVE  \A q \in Seq(Event) : AddedBy(t, q) \in Seq(Event)
<1> DEFINE I == {q \in Seq(Event) : AddedBy(t, q) \in Seq(Event)}
<1>1. <<>> \in I
  <2>1. <<>> \in Seq(Event)
    OBVIOUS
  <2> QED
    BY <2>1, AddedByEmpty
<1>2. ASSUME NEW s \in Seq(Event), NEW e \in Event, s \in I PROVE Append(s, e) \in I
  <2>1. AddedBy(t, Append(s, e)) \in Seq(Event)
    BY <1>2, AddedByAppend
  <2> QED
    BY <2>1
<1> HIDE DEF I
<1>3. Seq(Event) \subseteq I
  BY <1>1, <1>2, SeqInduction
<1> QED
  BY <1>3 DEF I

LEMMA AddedByJoined ==
    ASSUME NEW t, NEW a \in Seq(Event)
    PROVE  \A b \in Seq(Event) : AddedBy(t, a \o b) = AddedBy(t, a) \o AddedBy(t, b)
<1> DEFINE Goal(b) == AddedBy(t, a \o b) = AddedBy(t, a) \o AddedBy(t, b)
           I == {b \in Seq(Event) : Goal(b)}
<1>1. Goal(<<>>)
  <2>1. AddedBy(t, a) \in Seq(Event)
    BY AddedByType
  <2>2. a \o <<>> = a /\ AddedBy(t, a) \o <<>> = AddedBy(t, a)
    BY <2>1
  <2> QED
    BY <2>2, AddedByEmpty
<1>2. ASSUME NEW s \in Seq(Event), NEW e \in Event, Goal(s) PROVE Goal(Append(s, e))
  <2>1. a \o Append(s, e) = Append(a \o s, e) /\ a \o s \in Seq(Event)
    OBVIOUS
  <2>2. AddedBy(t, Append(a \o s, e))
          = IF e.by = t THEN Append(AddedBy(t, a \o s), e) ELSE AddedBy(t, a \o s)
    BY <2>1, AddedByAppend
  <2>3. AddedBy(t, Append(s, e)) = IF e.by = t THEN Append(AddedBy(t, s), e) ELSE AddedBy(t, s)
    BY AddedByAppend
  <2>4. AddedBy(t, a) \in Seq(Event) /\ AddedBy(t, s) \in Seq(Event)
    BY AddedByType
  <2>5. AddedBy(t, a) \o Append(AddedBy(t, s), e) = Append(AddedBy(t, a) \o AddedBy(t, s), e)
    BY <2>4
  <2> QED
    BY <1>2, <2>1, <2>2, <2>3, <2>5
<1> HIDE DEF Goal
<1>3. <<>> \in I /\ \A s \in Seq(Event), e \in Event : s \in I => Append(s, e) \in I
  BY <1>1, <1>2
<1> HIDE DEF I
<1>4. Seq(Event) \subseteq I
  BY <1>3, SeqInduction
<1> QED
  BY <1>4 DEF I, Goal

LEMMA AddedByOne ==
    ASSUME NEW t, NEW e \in Event
    PROVE  AddedBy(t, <<e>>) = IF e.by = t THEN <<e>> ELSE <<>>
<1>1. <<e>> = Append(<<>>, e) /\ <<>> \in Seq(Event)
  OBVIOUS
<1>2. AddedBy(t, Append(<<>>, e))
        = IF e.by = t THEN Append(AddedBy(t, <<>>), e) ELSE AddedBy(t, <<>>)
  BY <1>1, AddedByAppend
<1>3. AddedBy(t, <<>>) = <<>>
  BY AddedByEmpty
<1> QED
  BY <1>1, <1>2, <1>3

LEMMA AddedByOthers ==
    ASSUME NEW t
    PROVE  \A q \in Seq(Event) : (\A i \in DOMAIN q : q[i].by # t) => AddedBy(t, q) = <<>>
<1> DEFINE Goal(q) == (\A i \in DOMAIN q : q[i].by # t) => AddedBy(t, q) = <<>>
           I == {q \in Seq(Event) : Goal(q)}
<1>1. Goal(<<>>)
  BY AddedByEmpty
<1>2. ASSUME NEW s \in Seq(Event), NEW e \in Event, Goal(s) PROVE Goal(Append(s, e))
  <2> DEFINE more == Append(s, e)
  <2>1. /\ Len(s) \in Nat /\ DOMAIN s = 1..Len(s) /\ DOMAIN more = 1..Len(s) + 1
        /\ more[Len(s) + 1] = e /\ \A i \in 1..Len(s) : more[i] = s[i]
    BY AppendProperties, Elements
  <2> SUFFICES ASSUME \A i \in DOMAIN more : more[i].by # t PROVE AddedBy(t, more) = <<>>
    OBVIOUS
  <2>2. AddedBy(t, more) = IF e.by = t THEN Append(AddedBy(t, s), e) ELSE AddedBy(t, s)
    BY AddedByAppend
  <2> HIDE DEF more
  <2>3. e.by # t /\ \A i \in DOMAIN s : s[i].by # t
    BY <2>1
  <2> QED
    BY <1>2, <2>2, <2>3
<1> HIDE DEF Goal
<1>3. <<>> \in I /\ \A s \in Seq(Event), e \in Event : s \in I => Append(s, e) \in I
  BY <1>1, <1>2
<1> HIDE DEF I
<1>4. Seq(Event) \subseteq I
  BY <1>3, SeqInduction
<1> QED
  BY <1>4 DEF I, Goal

(***************************************************************************)
(* EventsOf: what it does when a number is added at the end or taken from  *)
(* the front.                                                              *)
(***************************************************************************)
LEMMA EventsOfType ==
    ASSUME NEW ids \in Seq(Nat), NEW table, Range(ids) \subseteq DOMAIN table,
           Range(table) \subseteq Event
    PROVE  /\ EventsOf(ids, table) \in Seq(Event)
           /\ Len(EventsOf(ids, table)) = Len(ids)
           /\ \A i \in 1..Len(ids) : EventsOf(ids, table)[i] = table[ids[i]]
<1>1. Len(ids) \in Nat /\ DOMAIN ids = 1..Len(ids)
  BY Elements
<1>2. \A i \in 1..Len(ids) : table[ids[i]] \in Event
  BY <1>1 DEF Range
<1> DEFINE f == [i \in 1..Len(ids) |-> table[ids[i]]]
<1>3. f \in [1..Len(ids) -> Event]
  BY <1>2
<1>4. f \in Seq(Event) /\ Len(f) = Len(ids)
  <2> HIDE DEF f
  <2>1. f \in Seq(Event)
    BY <1>1, <1>3, SeqDef
  <2>2. DOMAIN f = 1..Len(ids)
    BY <1>3
  <2> QED
    BY <1>1, <2>1, <2>2, LenProperties
<1>5. EventsOf(ids, table) = f
  BY <1>1 DEF EventsOf
<1> QED
  BY <1>4, <1>5

\* What saveEvent and removeEvent do to the table.
Grown(table, id, e, more) ==
    /\ DOMAIN more = DOMAIN table \cup {id} /\ more[id] = e
    /\ \A n \in DOMAIN table : n # id => more[n] = table[n]
Shrunk(table, id, less) ==
    /\ DOMAIN less = DOMAIN table \ {id}
    /\ \A n \in DOMAIN less : less[n] = table[n]

LEMMA EventsOfAppend ==
    ASSUME NEW ids \in Seq(Nat), NEW table, Range(ids) \subseteq DOMAIN table,
           Range(table) \subseteq Event, NEW id \in Nat, id \notin Range(ids), NEW e \in Event,
           NEW more, Grown(table, id, e, more)
    PROVE  EventsOf(Append(ids, id), more) = Append(EventsOf(ids, table), e)
<1> DEFINE longer == Append(ids, id)
           old == EventsOf(ids, table)
           new == EventsOf(longer, more)
<1>0. /\ DOMAIN more = DOMAIN table \cup {id} /\ more[id] = e
      /\ \A n \in DOMAIN table : n # id => more[n] = table[n]
  BY DEF Grown
<1>1. /\ longer \in Seq(Nat) /\ Len(longer) = Len(ids) + 1 /\ longer[Len(ids) + 1] = id
      /\ \A i \in 1..Len(ids) : longer[i] = ids[i]
      /\ Range(longer) = Range(ids) \cup {id}
  BY AppendProperties, AppendingOne
<1>2. Len(ids) \in Nat /\ DOMAIN ids = 1..Len(ids)
  BY Elements
<1> HIDE DEF longer
<1>3. old \in Seq(Event) /\ Len(old) = Len(ids) /\ \A i \in 1..Len(ids) : old[i] = table[ids[i]]
  BY EventsOfType
<1>4. Range(longer) \subseteq DOMAIN more /\ Range(more) \subseteq Event
  <2>1. ASSUME NEW n \in DOMAIN more PROVE more[n] \in Event
    <3>1. CASE n = id
      BY <1>0, <3>1
    <3>2. CASE n # id
      BY <1>0, <2>1, <3>2 DEF Range
    <3> QED
      BY <3>1, <3>2
  <2> QED
    BY <1>0, <1>1, <2>1 DEF Range
<1>5. /\ new \in Seq(Event) /\ Len(new) = Len(longer)
      /\ \A i \in 1..Len(longer) : new[i] = more[longer[i]]
  BY <1>1, <1>4, EventsOfType
<1> HIDE DEF old, new
<1>6. /\ Append(old, e) \in Seq(Event) /\ Len(Append(old, e)) = Len(old) + 1
      /\ \A i \in 1..Len(old) : Append(old, e)[i] = old[i]
      /\ Append(old, e)[Len(old) + 1] = e
  BY <1>3, AppendProperties
<1>7. ASSUME NEW i \in 1..Len(ids) + 1 PROVE new[i] = Append(old, e)[i]
  <2>1. CASE i = Len(ids) + 1
    <3>1. new[i] = e
      BY <1>0, <1>1, <1>2, <1>5, <2>1
    <3>2. Append(old, e)[i] = e
      BY <1>3, <1>6, <2>1
    <3> QED
      BY <3>1, <3>2
  <2>2. CASE i # Len(ids) + 1
    <3>1. i \in 1..Len(ids) /\ i \in 1..Len(longer)
      BY <1>1, <1>2, <2>2
    <3>2. longer[i] = ids[i] /\ ids[i] \in Range(ids) /\ ids[i] # id
      BY <1>1, <1>2, <3>1 DEF Range
    <3>3. new[i] = table[ids[i]]
      BY <1>0, <1>5, <3>1, <3>2
    <3> QED
      BY <1>3, <1>6, <3>1, <3>3
  <2> QED
    BY <2>1, <2>2
<1>8. Len(new) = Len(Append(old, e))
  BY <1>1, <1>3, <1>5, <1>6
<1>9. new = Append(old, e)
  <2>1. \A i \in 1..Len(new) : new[i] = Append(old, e)[i]
    BY <1>1, <1>5, <1>7
  <2> QED
    BY <1>5, <1>6, <1>8, <2>1, SeqEqual
<1> QED
  BY <1>9 DEF new, old, longer

\* q is rest with x in front.
InFront(x, rest, q) ==
    Len(q) = 1 + Len(rest) /\ q[1] = x /\ \A i \in 1..Len(rest) : q[i + 1] = rest[i]

LEMMA InFrontJoins ==
    ASSUME NEW S, NEW x \in S, NEW rest \in Seq(S), NEW q \in Seq(S)
    PROVE  InFront(x, rest, q) <=> q = <<x>> \o rest
<1> DEFINE all == <<x>> \o rest
<1>1. /\ all \in Seq(S) /\ Len(all) = 1 + Len(rest) /\ Len(rest) \in Nat
      /\ all[1] = x /\ \A i \in 1..Len(rest) : all[i + 1] = rest[i]
  OBVIOUS
<1> HIDE DEF all
<1>2. ASSUME InFront(x, rest, q) PROVE q = all
  <2>1. Len(q) = Len(all)
    BY <1>1, <1>2 DEF InFront
  <2>2. ASSUME NEW i \in 1..Len(q) PROVE q[i] = all[i]
    <3>1. CASE i = 1
      BY <1>1, <1>2, <3>1 DEF InFront
    <3>2. CASE i # 1
      <4>1. i - 1 \in 1..Len(rest) /\ (i - 1) + 1 = i
        BY <1>1, <1>2, <3>2 DEF InFront
      <4>2. q[(i - 1) + 1] = all[(i - 1) + 1]
        BY <1>1, <1>2, <4>1 DEF InFront
      <4> QED
        BY <4>1, <4>2
    <3> QED
      BY <3>1, <3>2
  <2> QED
    BY <1>1, <2>1, <2>2, SeqEqual
<1>3. ASSUME q = all PROVE InFront(x, rest, q)
  BY <1>1, <1>3 DEF InFront
<1> QED
  BY <1>2, <1>3 DEF all

\* The number at the front is taken, and its entry is removed from the table.
LEMMA EventsOfFront ==
    ASSUME NEW ids \in Seq(Nat), NEW longer \in Seq(Nat), NEW id, InFront(id, ids, longer),
           id \notin Range(ids), NEW table, Range(table) \subseteq Event,
           Range(longer) \subseteq DOMAIN table, Range(ids) \subseteq DOMAIN table,
           NEW less, Shrunk(table, id, less)
    PROVE  InFront(table[id], EventsOf(ids, less), EventsOf(longer, table))
<1> DEFINE new == EventsOf(ids, less)
           old == EventsOf(longer, table)
<1>1. DOMAIN less = DOMAIN table \ {id} /\ \A n \in DOMAIN less : less[n] = table[n]
  BY DEF Shrunk
<1>2. Len(ids) \in Nat /\ DOMAIN ids = 1..Len(ids)
  BY Elements
<1>3. Len(longer) = 1 + Len(ids) /\ longer[1] = id /\ \A i \in 1..Len(ids) : longer[i + 1] = ids[i]
  BY DEF InFront
<1>4. Range(ids) \subseteq DOMAIN less /\ Range(less) \subseteq Event
  BY <1>1 DEF Range
<1>5. Len(old) = Len(longer) /\ \A i \in 1..Len(longer) : old[i] = table[longer[i]]
  BY EventsOfType
<1>6. Len(new) = Len(ids) /\ \A i \in 1..Len(ids) : new[i] = less[ids[i]]
  BY <1>4, EventsOfType
<1> HIDE DEF old, new
<1>7. Len(old) = 1 + Len(new)
  BY <1>3, <1>5, <1>6
<1>8. old[1] = table[id]
  <2>1. 1 \in 1..Len(longer)
    BY <1>2, <1>3
  <2> QED
    BY <1>3, <1>5, <2>1
<1>9. ASSUME NEW i \in 1..Len(new) PROVE old[i + 1] = new[i]
  <2>1. i \in 1..Len(ids) /\ i + 1 \in 1..Len(longer)
    BY <1>2, <1>3, <1>6
  <2>2. longer[i + 1] = ids[i] /\ ids[i] \in Range(ids)
    BY <1>2, <1>3, <2>1 DEF Range
  <2>3. table[ids[i]] = less[ids[i]]
    BY <1>1, <1>4, <2>2
  <2>4. old[i + 1] = table[ids[i]]
    BY <1>5, <2>1, <2>2
  <2> QED
    BY <1>6, <2>1, <2>3, <2>4
<1>10. InFront(table[id], new, old)
  BY <1>7, <1>8, <1>9 DEF InFront
<1> QED
  BY <1>10 DEF new, old

-----------------------------------------------------------------------------
(***************************************************************************)
(* The queue implements EventOrder, if no thread adds an event before the  *)
(* loop is ready.  Then what waits in m_pending is the main thread's own,  *)
(* and another thread's event may go to the buffer past it.                *)
(***************************************************************************)
OrderInv ==
    /\ QueueInv
    /\ ready = (main # "start")
    /\ main = "start" => buffer = <<>>
    /\ main \notin {"start", "pending"} => pending = <<>>
    /\ \A i \in DOMAIN pending : pending[i].by = Main
    /\ \A t \in Other : adding[t] # NULL => ready /\ adding[t].ready /\ adding[t].event.by = t
    /\ main \in {"handle", "ended"} => got \in Timer \cup Event

LEMMA QueuedEvents ==
    ASSUME QueueInv
    PROVE  /\ Queued \in Seq(Nat) /\ Range(Queued) = DOMAIN events /\ Range(events) \subseteq Event
           /\ EventsOf(Queued, events) \in Seq(Event) /\ pending \in Seq(Event)
           /\ \A t : AddedBy(t, InOrder)
                       = AddedBy(t, EventsOf(Queued, events)) \o AddedBy(t, pending)
<1>1. Queued \in Seq(Nat)
  BY DEF Queued, QueueInv, Numbers
<1>2. Range(Queued) = DOMAIN events
  BY NumbersOnce DEF NumbersAreInUseOnce
<1>3. Range(events) \subseteq Event /\ pending \in Seq(Event)
  BY DEF QueueInv, Numbers, Threads
<1>4. EventsOf(Queued, events) \in Seq(Event)
  BY <1>1, <1>2, <1>3, EventsOfType
<1>5. ASSUME NEW t
      PROVE  AddedBy(t, InOrder) = AddedBy(t, EventsOf(Queued, events)) \o AddedBy(t, pending)
  BY <1>3, <1>4, AddedByJoined DEF InOrder
<1> QED
  BY <1>1, <1>2, <1>3, <1>4, <1>5

LEMMA BufferGrows ==
    ASSUME QueueInv, NEW e \in Event, AddEventToBuffer(e), main' = main, dataID' = dataID
    PROVE  EventsOf(Queued', events') = Append(EventsOf(Queued, events), e)
<1> DEFINE id == FreeID
<1>1. id \in Nat /\ id \notin InUse
  BY FreeIDIsFree DEF QueueInv
<1>2. /\ events' = [n \in DOMAIN events \cup {id} |-> IF n = id THEN e ELSE events[n]]
      /\ buffer' = Append(buffer, id)
  BY DEF AddEventToBuffer
<1> HIDE DEF id
<1>3. id \notin Range(Queued)
  BY <1>1, QueuedEvents DEF QueueInv, Numbers
<1>4. Queued' = Append(Queued, id)
  <2>1. buffer \in Seq(Nat) /\ (main = "removeEvent" => dataID \in Nat)
    BY DEF QueueInv, Numbers
  <2>2. CASE main = "removeEvent"
    <3>1. Queued' = <<dataID>> \o Append(buffer, id) /\ Queued = <<dataID>> \o buffer
      BY <1>2, <2>2 DEF Queued
    <3>2. <<dataID>> \o Append(buffer, id) = Append(<<dataID>> \o buffer, id)
      BY <1>1, <2>1, <2>2
    <3> QED
      BY <3>1, <3>2
  <2>3. CASE main # "removeEvent"
    <3>1. Queued' = <<>> \o Append(buffer, id) /\ Queued = <<>> \o buffer
      BY <1>2, <2>3 DEF Queued
    <3>2. <<>> \o Append(buffer, id) = Append(<<>> \o buffer, id)
      BY <1>1, <2>1
    <3> QED
      BY <3>1, <3>2
  <2> QED
    BY <2>2, <2>3
<1>5. /\ DOMAIN events' = DOMAIN events \cup {id} /\ events'[id] = e
      /\ \A n \in DOMAIN events : n # id => events'[n] = events[n]
  BY <1>2
<1>6. Queued \in Seq(Nat) /\ Range(Queued) \subseteq DOMAIN events /\ Range(events) \subseteq Event
  BY QueuedEvents
<1> DEFINE more == events'
<1> HIDE DEF more
<1>7. EventsOf(Append(Queued, id), more) = Append(EventsOf(Queued, events), e)
  <2>1. Grown(events, id, e, more)
    BY <1>5 DEF more, Grown
  <2> QED
    BY <1>1, <1>3, <1>6, <2>1, EventsOfAppend
<1> QED
  BY <1>4, <1>7 DEF more

\* A step that gives one thread one event more is a Post, one that leaves what
\* each thread waits for is none.
LEMMA Posting ==
    ASSUME QueueInv, NEW t \in Thread, NEW e \in Event, InHand' = InHand,
           \A u \in Thread : AddedBy(u, InOrder')
               = IF u = t THEN Append(AddedBy(u, InOrder), e) ELSE AddedBy(u, InOrder)
    PROVE  Order!Post(t)
<1> DEFINE q == AddedBy(t, InOrder)
<1>1. q \in Seq(Event)
  <2>1. InOrder \in Seq(Event)
    BY QueuedEvents DEF InOrder
  <2> QED
    BY <2>1, AddedByType
<1> HIDE DEF q
<1>2. Append(q, e) # <<>> /\ Last(Append(q, e)) = e
  <2>1. Len(Append(q, e)) = Len(q) + 1 /\ Append(q, e)[Len(q) + 1] = e /\ Len(q) \in Nat
    BY <1>1, AppendProperties
  <2> QED
    BY <2>1 DEF Last
<1>3. Waiting' = [u \in Thread |-> IF u = t THEN Append(q, e) ELSE Waiting[u]]
  BY DEF Waiting, q
<1>4. Waiting[t] = q /\ Waiting = [u \in Thread |-> Waiting[u]]
  BY DEF Waiting, q
<1>5. Waiting' = [Waiting EXCEPT ![t] = Append(q, e)] /\ (Waiting')[t] = Append(q, e)
  BY <1>3, <1>4
<1>6. (Waiting')[t] # <<>> /\ Order!Last((Waiting')[t]) = e
  BY <1>2, <1>5 DEF Order!Last, Last
<1>7. Waiting' = [Waiting EXCEPT ![t] = Append(Waiting[t], Order!Last((Waiting')[t]))]
  BY <1>4, <1>5, <1>6
<1> QED
  BY <1>6, <1>7 DEF Order!Post

LEMMA Unordered ==
    ASSUME \A u \in Thread : AddedBy(u, InOrder') = AddedBy(u, InOrder), InHand' = InHand
    PROVE  UNCHANGED <<Waiting, InHand>>
BY DEF Waiting

-----------------------------------------------------------------------------
\* One lemma for each action that changes the order.
LEMMA MainAddsPosts ==
    ASSUME OrderInv, MainAdds
    PROVE  Order!Post(Main)
<1>1. PICK e \in NewEvent(Main) :
          IF ready THEN AddEventToBuffer(e) /\ UNCHANGED pending ELSE AddPending(e)
  BY DEF MainAdds
<1>2. main' = main /\ dataID' = dataID /\ got' = got /\ main \in {"start", "handle"} /\ MayPost
  BY DEF MainAdds, Handling, Active
<1>3. Main \in Thread /\ QueueInv
  BY DEF Thread, OrderInv
<1>4. e \in Event /\ e.by = Main
  <2>1. Threads
    BY <1>3 DEF QueueInv
  <2>2. e \in Event
    BY <1>2, <1>3, <2>1, NewEventsAreEvents
  <2> QED
    BY <2>2 DEF NewEvent
<1>5. InHand' = InHand
  BY <1>2 DEF InHand
<1>6. /\ EventsOf(Queued, events) \in Seq(Event) /\ pending \in Seq(Event)
      /\ InOrder = EventsOf(Queued, events) \o pending
  BY <1>3, QueuedEvents DEF InOrder
<1>7. InOrder' = Append(InOrder, e) /\ InOrder \in Seq(Event)
  <2>1. CASE ready
    <3>1. main = "handle" /\ pending = <<>> /\ pending' = pending
      BY <1>1, <1>2, <2>1 DEF OrderInv
    <3>2. EventsOf(Queued', events') = Append(EventsOf(Queued, events), e)
      BY <1>1, <1>2, <1>3, <1>4, <2>1, BufferGrows
    <3>3. InOrder' = Append(EventsOf(Queued, events), e) \o <<>>
      BY <3>1, <3>2 DEF InOrder
    <3>4. InOrder = EventsOf(Queued, events) \o <<>>
      BY <3>1 DEF InOrder
    <3> QED
      BY <1>4, <1>6, <3>3, <3>4
  <2>2. CASE ~ready
    <3>1. pending' = Append(pending, e) /\ UNCHANGED <<events, buffer>>
      BY <1>1, <2>2 DEF AddPending
    <3>2. Queued' = Queued
      BY <1>2, <3>1 DEF Queued
    <3>3. InOrder' = EventsOf(Queued, events) \o Append(pending, e)
      BY <3>1, <3>2 DEF InOrder
    <3> QED
      BY <1>4, <1>6, <3>3
  <2> QED
    BY <2>1, <2>2
<1>8. ASSUME NEW u \in Thread
      PROVE  AddedBy(u, InOrder')
               = IF u = Main THEN Append(AddedBy(u, InOrder), e) ELSE AddedBy(u, InOrder)
  BY <1>4, <1>7, AddedByAppend
<1> QED
  BY <1>3, <1>4, <1>5, <1>8, Posting

\* It goes to the end of the buffer, past what is left in m_pending, where there
\* is nothing of the same thread.
LEMMA EventAddedPosts ==
    ASSUME OrderInv, NEW t \in Other, EventAdded(t)
    PROVE  Order!Post(t)
<1> DEFINE e == adding[t].event
<1>1. /\ adding[t] # NULL /\ adding[t].ready /\ e.by = t
      /\ main' = main /\ dataID' = dataID /\ got' = got
  BY DEF EventAdded, OrderInv
<1>2. e \in Event /\ QueueInv
  BY <1>1 DEF OrderInv, QueueInv, Threads
<1>3. AddEventToBuffer(e) /\ pending' = pending
  BY <1>1 DEF EventAdded
<1> HIDE DEF e
<1>4. InHand' = InHand
  BY <1>1 DEF InHand
<1> DEFINE q == EventsOf(Queued, events)
<1>5. q \in Seq(Event) /\ pending \in Seq(Event) /\ InOrder = q \o pending
  BY <1>2, QueuedEvents DEF InOrder
<1>6. InOrder' = Append(q, e) \o pending
  BY <1>1, <1>2, <1>3, BufferGrows DEF InOrder
<1> HIDE DEF q
<1>7. t \in Thread /\ t # Main
  BY EventQueueAssumption DEF Thread
<1>8. ASSUME NEW u \in Thread
      PROVE  AddedBy(u, InOrder')
               = IF u = t THEN Append(AddedBy(u, InOrder), e) ELSE AddedBy(u, InOrder)
  <2>1. Append(q, e) \in Seq(Event)
    BY <1>2, <1>5
  <2>2. AddedBy(u, Append(q, e) \o pending) = AddedBy(u, Append(q, e)) \o AddedBy(u, pending)
    BY <1>5, <2>1, AddedByJoined
  <2>3. AddedBy(u, q \o pending) = AddedBy(u, q) \o AddedBy(u, pending)
    BY <1>5, AddedByJoined
  <2>4. AddedBy(u, Append(q, e)) = IF e.by = u THEN Append(AddedBy(u, q), e) ELSE AddedBy(u, q)
    BY <1>2, <1>5, AddedByAppend
  <2>5. CASE u = t
    <3>1. \A i \in DOMAIN pending : pending[i].by # u
      BY <1>7, <2>5 DEF OrderInv
    <3>2. AddedBy(u, pending) = <<>>
      BY <1>5, <3>1, AddedByOthers
    <3>3. AddedBy(u, q) \in Seq(Event)
      BY <1>5, AddedByType
    <3>4. /\ AddedBy(u, q) \o <<>> = AddedBy(u, q)
          /\ Append(AddedBy(u, q), e) \o <<>> = Append(AddedBy(u, q), e)
      BY <1>2, <3>3
    <3> QED
      BY <1>1, <1>5, <1>6, <2>2, <2>3, <2>4, <2>5, <3>2, <3>4
  <2>6. CASE u # t
    BY <1>1, <1>5, <1>6, <2>2, <2>3, <2>4, <2>6
  <2> QED
    BY <2>5, <2>6
<1> QED
  BY <1>2, <1>4, <1>7, <1>8, Posting

LEMMA TakePendingKeeps ==
    ASSUME OrderInv, TakePending
    PROVE  UNCHANGED <<Waiting, InHand>>
<1> DEFINE e == Head(pending)
           q == EventsOf(Queued, events)
<1>1. /\ pending # <<>> /\ AddEventToBuffer(e) /\ pending' = Tail(pending)
      /\ main' = main /\ dataID' = dataID /\ got' = got
  BY DEF TakePending
<1>2. QueueInv /\ q \in Seq(Event) /\ pending \in Seq(Event)
  BY QueuedEvents DEF OrderInv
<1>3. e \in Event
  BY <1>1, <1>2
<1>4. EventsOf(Queued', events') = Append(q, e)
  BY <1>1, <1>2, <1>3, BufferGrows
<1>5. InOrder' = Append(q, e) \o Tail(pending) /\ InOrder = q \o pending
  BY <1>1, <1>4 DEF InOrder
<1> HIDE DEF q
<1>6. Append(q, e) \o Tail(pending) = q \o pending
  BY <1>1, <1>2
<1>7. InHand' = InHand
  BY <1>1 DEF InHand
<1> QED
  BY <1>5, <1>6, <1>7, Unordered

LEMMA RemoveEventTakes ==
    ASSUME OrderInv, RemoveEvent
    PROVE  \E t \in Thread : Order!Take(t)
<1> DEFINE e == events[dataID]
           rest == EventsOf(buffer, events')
<1>1. /\ main = "removeEvent" /\ got' = e /\ main' \in {"handle", "ended"}
      /\ events' = Restrict(events, DOMAIN events \ {dataID}) /\ buffer' = buffer
      /\ pending' = pending
  BY DEF RemoveEvent
<1>2. QueueInv /\ pending = <<>>
  BY <1>1 DEF OrderInv
<1>3. /\ Queued = <<dataID>> \o buffer /\ Queued' = buffer
  <2>1. buffer \in Seq(Nat)
    BY <1>2 DEF QueueInv, Numbers
  <2> QED
    BY <1>1, <2>1 DEF Queued
<1>4. /\ buffer \in Seq(Nat) /\ dataID \in Nat /\ dataID \notin Range(buffer)
      /\ Range(buffer) \cup {dataID} = DOMAIN events /\ Range(events) \subseteq Event
  BY <1>1, <1>2 DEF QueueInv, Numbers, InUse, Taken
<1>5. DOMAIN events' = DOMAIN events \ {dataID} /\ \A n \in DOMAIN events' : events'[n] = events[n]
  BY <1>1 DEF Restrict
<1>6. e \in Event
  BY <1>4 DEF Range
<1>7. rest \in Seq(Event)
  <2> DEFINE less == events'
  <2>1. Range(buffer) \subseteq DOMAIN less /\ Range(less) \subseteq Event
    BY <1>4, <1>5 DEF Range
  <2> HIDE DEF less
  <2>2. EventsOf(buffer, less) \in Seq(Event)
    BY <1>4, <2>1, EventsOfType
  <2> QED
    BY <2>2 DEF less
<1>8. EventsOf(Queued, events) = <<e>> \o rest
  <2> DEFINE less == events'
             all == EventsOf(Queued, events)
  <2>1. Shrunk(events, dataID, less)
    BY <1>5 DEF Shrunk
  <2>2. Queued \in Seq(Nat) /\ Range(Queued) \subseteq DOMAIN events /\ all \in Seq(Event)
    BY <1>2, QueuedEvents
  <2>3. InFront(dataID, buffer, Queued)
    BY <1>3, <1>4, <2>2, InFrontJoins
  <2>4. Range(buffer) \subseteq DOMAIN events
    BY <1>4
  <2> HIDE DEF less
  <2>5. InFront(events[dataID], EventsOf(buffer, less), EventsOf(Queued, events))
    BY <1>4, <2>1, <2>2, <2>3, <2>4, EventsOfFront
  <2>6. InFront(e, rest, all)
    BY <2>5 DEF less
  <2> HIDE DEF e, rest, all
  <2>7. all = <<e>> \o rest
    BY <1>6, <1>7, <2>2, <2>6, InFrontJoins
  <2> QED
    BY <2>7 DEF all
<1>9. InOrder = <<e>> \o rest /\ InOrder' = rest
  <2>1. InOrder = (<<e>> \o rest) \o <<>>
    BY <1>2, <1>8 DEF InOrder
  <2>2. InOrder' = rest \o <<>>
    BY <1>1, <1>2, <1>3 DEF InOrder
  <2> HIDE DEF rest, e
  <2> QED
    BY <1>6, <1>7, <2>1, <2>2
<1>10. InHand = NULL /\ InHand' = e
  <2>1. e \notin Timer
    BY <1>6, EventQueueAssumption
  <2> QED
    BY <1>1, <2>1 DEF InHand
<1> HIDE DEF e, rest
<1>11. PICK t \in Thread : e.by = t
  BY <1>6 DEF Event
<1>12. ASSUME NEW u \in Thread
       PROVE  /\ AddedBy(u, InOrder') \in Seq(Event)
              /\ AddedBy(u, InOrder) = IF u = t THEN <<e>> \o AddedBy(u, InOrder')
                                       ELSE AddedBy(u, InOrder')
  <2> DEFINE one == <<e>>
  <2>1. one \in Seq(Event) /\ AddedBy(u, one) = IF e.by = u THEN <<e>> ELSE <<>>
    BY <1>6, AddedByOne
  <2> HIDE DEF one
  <2>2. AddedBy(u, one \o rest) = AddedBy(u, one) \o AddedBy(u, rest)
    BY <1>7, <2>1, AddedByJoined
  <2>3. AddedBy(u, rest) \in Seq(Event)
    BY <1>7, AddedByType
  <2>4. AddedBy(u, InOrder) = AddedBy(u, one \o rest)
    BY <1>9 DEF one
  <2>5. <<>> \o AddedBy(u, rest) = AddedBy(u, rest)
    BY <2>3
  <2> QED
    BY <1>9, <1>11, <2>1, <2>2, <2>3, <2>4, <2>5
<1>13. Waiting[t] = <<e>> \o AddedBy(t, InOrder')
  BY <1>12 DEF Waiting
<1>14. Waiting[t] # <<>> /\ Head(Waiting[t]) = e /\ Tail(Waiting[t]) = AddedBy(t, InOrder')
  <2> DEFINE tail == AddedBy(t, InOrder')
  <2>1. tail \in Seq(Event)
    BY <1>12
  <2> HIDE DEF tail
  <2>2. <<e>> \o tail # <<>> /\ Head(<<e>> \o tail) = e /\ Tail(<<e>> \o tail) = tail
    BY <1>6, <2>1
  <2> QED
    BY <1>13, <2>2 DEF tail
<1>15. Waiting' = [u \in Thread |-> IF u = t THEN AddedBy(t, InOrder') ELSE Waiting[u]]
  BY <1>12 DEF Waiting
<1>16. Waiting' = [Waiting EXCEPT ![t] = Tail(Waiting[t])]
  <2>1. Waiting = [u \in Thread |-> Waiting[u]]
    BY DEF Waiting
  <2> QED
    BY <1>14, <1>15, <2>1
<1> QED
  BY <1>10, <1>14, <1>16 DEF Order!Take

LEMMA GetIDKeeps ==
    ASSUME OrderInv, GetID
    PROVE  UNCHANGED <<Waiting, InHand>>
<1>1. /\ main = "getEvent" /\ buffer # <<>> /\ dataID' = Head(buffer) /\ buffer' = Tail(buffer)
      /\ main' = "removeEvent" /\ events' = events /\ pending' = pending
  BY DEF GetID
<1>2. buffer \in Seq(Nat)
  BY DEF OrderInv, QueueInv, Numbers
<1>3. Queued = <<>> \o buffer /\ Queued' = <<Head(buffer)>> \o Tail(buffer)
  BY <1>1 DEF Queued
<1>4. Queued' = Queued
  BY <1>1, <1>2, <1>3
<1>5. InHand' = InHand
  BY <1>1 DEF InHand
<1>6. InOrder' = InOrder
  BY <1>1, <1>4 DEF InOrder
<1> QED
  BY <1>5, <1>6, Unordered

\* Before the loop there is nothing in a buffer that could be discarded.
LEMMA AdoptBufferDiscards ==
    ASSUME OrderInv, AdoptBuffer
    PROVE  Order!Discard \/ UNCHANGED <<Waiting, InHand>>
<1>1. /\ main \in {"start", "handle"} /\ main' = main /\ got' = got
      /\ buffer' = <<>> /\ pending' = pending
  BY DEF AdoptBuffer, Handling, Active
<1>2. InHand' = InHand
  BY <1>1 DEF InHand
<1>3. Queued' = <<>>
  BY <1>1 DEF Queued
<1>4. EventsOf(Queued', events') = <<>>
  BY <1>3 DEF EventsOf
<1>5. pending \in Seq(Event)
  BY DEF OrderInv, QueueInv, Threads
<1>6. InOrder' = pending
  <2>1. InOrder' = <<>> \o pending
    BY <1>1, <1>4 DEF InOrder
  <2> QED
    BY <1>5, <2>1
<1>7. CASE main = "start"
  <2>1. Queued = <<>>
    BY <1>7 DEF Queued, OrderInv
  <2>2. EventsOf(Queued, events) = <<>>
    BY <2>1 DEF EventsOf
  <2>3. InOrder = <<>> \o pending
    BY <2>2 DEF InOrder
  <2>4. InOrder = pending
    BY <1>5, <2>3
  <2> QED
    BY <1>2, <1>6, <2>4, Unordered
<1>8. CASE main = "handle"
  <2>1. InOrder' = <<>>
    BY <1>6, <1>8 DEF OrderInv
  <2>2. Waiting' = [t \in Thread |-> <<>>]
    BY <2>1, AddedByEmpty DEF Waiting
  <2> QED
    BY <1>2, <2>2 DEF Order!Discard
<1> QED
  BY <1>1, <1>7, <1>8

LEMMA HandledIsHandled ==
    ASSUME OrderInv, Handled
    PROVE  Order!Handled \/ UNCHANGED <<Waiting, InHand>>
<1>1. main = "handle" /\ main' = "getEvent" /\ UNCHANGED <<pending, events, buffer>>
  BY DEF Handled, queueVars
<1>2. InHand' = NULL
  BY <1>1 DEF InHand
<1>3. Queued' = Queued
  BY <1>1 DEF Queued
<1>4. InOrder' = InOrder
  BY <1>1, <1>3 DEF InOrder
<1>5. Waiting' = Waiting
  BY <1>4 DEF Waiting
<1> QED
  BY <1>2, <1>5 DEF Order!Handled

\* The rest: the loop's own steps, timers, time, and the look at m_readyCondVar.
LEMMA RestKeeps ==
    ASSUME OrderInv,
           \/ Loop \/ NoMorePending \/ (\E t \in Timer : ExpiredTimer(t)) \/ NoTimerExpired
           \/ Wake \/ Tick \/ (\E t \in Timer : NewTimer(t) \/ DeleteTimer(t))
           \/ (\E t \in Other : AddEvent(t)) \/ UNCHANGED vars
    PROVE  UNCHANGED <<Waiting, InHand>>
<1>1. /\ UNCHANGED <<pending, events, buffer, dataID>>
      /\ \/ main' = main /\ got' = got
         \/ /\ main \in {"start", "pending", "getEvent", "waitForEvent"}
            /\ main' \in {"pending", "getEvent", "waitForEvent"}
         \/ main = "getEvent" /\ main' = "handle" /\ got' \in Timer
  <2>1. CASE \/ Loop \/ NoMorePending \/ NoTimerExpired \/ Wake \/ Tick \/ UNCHANGED vars
    BY <2>1 DEF Loop, NoMorePending, NoTimerExpired, Wake, Tick, vars, queueVars
  <2>2. CASE \E t \in Timer : ExpiredTimer(t)
    BY <2>2 DEF ExpiredTimer, queueVars
  <2>3. CASE \E t \in Timer : NewTimer(t) \/ DeleteTimer(t)
    BY <2>3 DEF NewTimer, DeleteTimer, Handling, queueVars
  <2>4. CASE \E t \in Other : AddEvent(t)
    BY <2>4 DEF AddEvent, queueVars
  <2> QED
    BY <2>1, <2>2, <2>3, <2>4
<1>2. InHand' = InHand
  BY <1>1 DEF InHand
<1>3. Queued' = Queued
  BY <1>1 DEF Queued
<1>4. InOrder' = InOrder
  BY <1>1, <1>3 DEF InOrder
<1> QED
  BY <1>2, <1>4, Unordered

LEMMA StepOrder ==
    ASSUME OrderInv, [Next]_vars
    PROVE  [Order!OrderNext]_<<Waiting, InHand>>
<1>1. CASE MainAdds
  <2>1. Order!Post(Main) /\ Main \in Thread
    BY <1>1, MainAddsPosts DEF Thread
  <2> QED
    BY <2>1 DEF Order!OrderNext
<1>2. ASSUME NEW t \in Other, EventAdded(t) PROVE Order!OrderNext
  <2>1. Order!Post(t) /\ t \in Thread
    BY <1>2, EventAddedPosts DEF Thread
  <2> QED
    BY <2>1 DEF Order!OrderNext
<1>3. CASE RemoveEvent
  BY <1>3, RemoveEventTakes DEF Order!OrderNext
<1>4. CASE AdoptBuffer
  BY <1>4, AdoptBufferDiscards DEF Order!OrderNext
<1>5. CASE Handled
  BY <1>5, HandledIsHandled DEF Order!OrderNext
<1>6. CASE TakePending \/ GetID
  BY <1>6, TakePendingKeeps, GetIDKeeps
<1>7. CASE \/ Loop \/ NoMorePending \/ (\E t \in Timer : ExpiredTimer(t)) \/ NoTimerExpired
           \/ Wake \/ Tick \/ (\E t \in Timer : NewTimer(t) \/ DeleteTimer(t))
           \/ (\E t \in Other : AddEvent(t)) \/ UNCHANGED vars
  BY <1>7, RestKeeps
<1> QED
  BY <1>1, <1>2, <1>3, <1>4, <1>5, <1>6, <1>7 DEF Next, MainLoop, Handlers

-----------------------------------------------------------------------------
\* That the step keeps the invariant, if nobody is early.
LEMMA OrderInvMainAdds ==
    ASSUME OrderInv, MainAdds, QueueInv'
    PROVE  OrderInv'
<1>1. PICK e \in NewEvent(Main) :
          IF ready THEN AddEventToBuffer(e) /\ UNCHANGED pending ELSE AddPending(e)
  BY DEF MainAdds
<1>2. main' = main /\ got' = got /\ adding' = adding /\ ready' = ready
  BY DEF MainAdds, Handling
<1>3. e.by = Main /\ pending \in Seq(Event)
  BY DEF NewEvent, OrderInv, QueueInv, Threads
<1>4. CASE ready
  BY <1>1, <1>2, <1>4 DEF OrderInv
<1>5. CASE ~ready
  <2>1. pending' = Append(pending, e) /\ buffer' = buffer /\ main = "start"
    BY <1>1, <1>5 DEF AddPending, OrderInv
  <2>2. \A i \in DOMAIN pending' : pending'[i].by = Main
    <3>1. /\ DOMAIN pending' = 1..Len(pending) + 1 /\ DOMAIN pending = 1..Len(pending)
          /\ Len(pending) \in Nat /\ pending'[Len(pending) + 1] = e
          /\ \A i \in 1..Len(pending) : pending'[i] = pending[i]
      <4>1. pending' \in Seq(Event)
        BY DEF QueueInv, Threads
      <4> QED
        BY <1>3, <2>1
    <3>2. \A i \in DOMAIN pending' : i = Len(pending) + 1 \/ i \in DOMAIN pending
      BY <3>1
    <3> QED
      BY <1>3, <3>1, <3>2 DEF OrderInv
  <2> QED
    BY <1>2, <2>1, <2>2 DEF OrderInv
<1> QED
  BY <1>4, <1>5

LEMMA OrderInvStep ==
    ASSUME Early = {}, OrderInv, [Next]_vars
    PROVE  OrderInv'
<1>1. QueueInv'
  BY StepQueue DEF OrderInv
<1>2. CASE MainAdds
  BY <1>1, <1>2, OrderInvMainAdds
<1>3. ASSUME NEW t \in Other, AddEvent(t) PROVE OrderInv'
  <2>1. PICK e \in NewEvent(t) : adding' = [adding EXCEPT ![t] = [event |-> e, ready |-> ready]]
    BY <1>3 DEF AddEvent
  <2>2. UNCHANGED <<ready, pending, buffer, main, got>> /\ ready /\ e.by = t
    BY <1>3 DEF AddEvent, queueVars, NewEvent
  <2>3. adding \in [Other -> {NULL} \cup [event : Event, ready : BOOLEAN]]
    BY DEF OrderInv, QueueInv, Threads
  <2>4. \A u \in Other : adding'[u] = IF u = t THEN [event |-> e, ready |-> ready] ELSE adding[u]
    BY <2>1, <2>3
  <2>5. \A u \in Other : adding'[u] # NULL =>
            ready' /\ adding'[u].ready /\ adding'[u].event.by = u
    BY <2>2, <2>4 DEF OrderInv
  <2> QED
    BY <1>1, <2>2, <2>5 DEF OrderInv
<1>4. ASSUME NEW t \in Other, EventAdded(t) PROVE OrderInv'
  <2>1. /\ adding[t] # NULL /\ adding' = [adding EXCEPT ![t] = NULL]
        /\ UNCHANGED <<ready, main, got>>
    BY <1>4 DEF EventAdded
  <2>2. ready /\ adding[t].ready
    BY <2>1 DEF OrderInv
  <2>3. pending' = pending /\ main # "start"
    BY <1>4, <2>2 DEF EventAdded, OrderInv
  <2>4. \A u \in Other : adding'[u] = IF u = t THEN NULL ELSE adding[u]
    BY <2>1 DEF OrderInv, QueueInv, Threads
  <2> QED
    BY <1>1, <2>1, <2>2, <2>3, <2>4 DEF OrderInv
<1>5. CASE TakePending
  <2>1. /\ main = "pending" /\ pending # <<>> /\ pending' = Tail(pending)
        /\ UNCHANGED <<ready, main, got, adding>>
    BY <1>5 DEF TakePending
  <2>2. \A i \in DOMAIN pending' : pending'[i].by = Main
    <3>1. pending \in Seq(Event)
      BY DEF OrderInv, QueueInv, Threads
    <3>2. /\ Len(pending) \in Nat /\ Len(pending) # 0 /\ DOMAIN pending = 1..Len(pending)
          /\ DOMAIN pending' = 1..Len(pending) - 1
          /\ \A i \in 1..Len(pending) - 1 : pending'[i] = pending[i + 1]
      BY <2>1, <3>1
    <3>3. \A i \in DOMAIN pending' : i + 1 \in DOMAIN pending /\ pending'[i] = pending[i + 1]
      BY <3>2
    <3> QED
      BY <3>3 DEF OrderInv
  <2> QED
    BY <1>1, <2>1, <2>2 DEF OrderInv
<1>6. CASE RemoveEvent
  <2>1. /\ main = "removeEvent" /\ main' \in {"handle", "ended"} /\ got' = events[dataID]
        /\ UNCHANGED <<ready, pending, buffer, adding>>
    BY <1>6 DEF RemoveEvent
  <2>2. got' \in Event
    <3>1. dataID \in DOMAIN events /\ Range(events) \subseteq Event
      BY <2>1 DEF OrderInv, QueueInv, Numbers, InUse, Taken
    <3> QED
      BY <2>1, <3>1 DEF Range
  <2> QED
    BY <1>1, <2>1, <2>2 DEF OrderInv
<1>7. CASE AdoptBuffer
  BY <1>1, <1>7 DEF OrderInv, AdoptBuffer, Handling
<1>8. CASE Loop
  BY <1>1, <1>8 DEF OrderInv, Loop
<1>9. CASE NoMorePending \/ GetID \/ NoTimerExpired \/ Wake \/ Handled
  BY <1>1, <1>9 DEF OrderInv, NoMorePending, GetID, NoTimerExpired, Wake, Handled, queueVars
<1>10. CASE \E t \in Timer : ExpiredTimer(t)
  BY <1>1, <1>10 DEF OrderInv, ExpiredTimer, queueVars
<1>11. CASE Tick \/ (\E t \in Timer : NewTimer(t) \/ DeleteTimer(t)) \/ UNCHANGED vars
  BY <1>1, <1>11 DEF OrderInv, Tick, NewTimer, DeleteTimer, Handling, queueVars, vars
<1> QED
  BY <1>2, <1>3, <1>4, <1>5, <1>6, <1>7, <1>8, <1>9, <1>10, <1>11 DEF Next, MainLoop, Handlers

LEMMA InitOrder ==
    ASSUME Init
    PROVE  OrderInv /\ Order!OrderInit
<1>1. /\ main = "start" /\ ready = FALSE /\ buffer = <<>> /\ pending = <<>>
      /\ adding = [t \in Other |-> NULL]
  BY DEF Init
<1>2. OrderInv
  <2>1. QueueInv
    BY InitQueue
  <2>2. DOMAIN pending = {} /\ \A t \in Other : adding[t] = NULL
    BY <1>1
  <2> QED
    BY <1>1, <2>1, <2>2 DEF OrderInv
<1>3. Queued = <<>>
  BY <1>1 DEF Queued
<1>4. EventsOf(Queued, events) = <<>>
  BY <1>3 DEF EventsOf
<1>5. InOrder = <<>>
  BY <1>1, <1>4 DEF InOrder
<1>6. Waiting = [t \in Thread |-> <<>>] /\ InHand = NULL
  BY <1>1, <1>5, AddedByEmpty DEF Waiting, InHand
<1> QED
  BY <1>2, <1>6 DEF Order!OrderInit

\* For any threads, timers and bounds: each event is handled once, and those of a
\* thread in the order in which it added them, although numbers and events are
\* changed under locks of their own and events from before the loop are moved
\* while other threads add theirs; if no other thread adds one before the loop.
THEOREM EventsKeepOrder ==
    ASSUME Early = {}
    PROVE  Spec => OrderSpec
<1>1. Init => OrderInv /\ Order!OrderInit
  BY InitOrder
<1>2. OrderInv /\ [Next]_vars => OrderInv' /\ [Order!OrderNext]_<<Waiting, InHand>>
  BY OrderInvStep, StepOrder
<1> QED
  BY <1>1, <1>2, PTL DEF Spec, OrderSpec, Order!OrderSpec, Order!orderVars
===============================================================================
