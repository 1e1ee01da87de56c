------------------------------ MODULE EventQueue ------------------------------
(***************************************************************************)
(* CEventQueue with CSimpleEventQueueBuffer.  Any thread adds events; the  *)
(* main thread loops.  An event waits in m_pending before the loop has     *)
(* begun, then in m_events under a number that is in the buffer.  addEvent *)
(* looks at m_readyCondVar without a lock, and then adds.  Timers are only *)
(* looked at when the buffer is empty; they are used by the main thread    *)
(* only.                                                                   *)
(***************************************************************************)
EXTENDS Integers, Sequences, SequencesExt, Functions, FiniteSets

CONSTANTS
    Main, Other,        \* the main thread, and the set of the others
    Early,              \* those that add events before the loop is ready
    OneShot, Recurring, \* timers
    NULL,
    Durations,
    MaxPosts,           \* bound on the events
    MaxNow              \* bound on the time

Thread == Other \cup {Main}
Timer == OneShot \cup Recurring
Event == [by : Thread, n : 1..MaxPosts, quit : BOOLEAN]

\* The constants are what they are named for; events, timers and NULL differ.
ASSUME EventQueueAssumption ==
    /\ Main \notin Other /\ Early \subseteq Other /\ OneShot \cap Recurring = {}
    /\ NULL \notin Event \cup Timer /\ Event \cap Timer = {}
    /\ Durations \subseteq Nat \ {0} /\ MaxPosts \in Nat /\ MaxNow \in Nat

VARIABLES
    ready, pending,     \* m_readyCondVar, m_pending
    events, oldEventIDs,    \* m_events, m_oldEventIDs
    buffer,             \* the numbers of the queued events, the next one first
    main,               \* where the main thread is
    dataID,             \* the number it has taken, 0 otherwise
    got,                \* the event or timer that is handled
    adding,             \* what the other threads are adding, and where
    posted,             \* how many events have been added
    timers,             \* m_timerQueue, by timer
    clock, now          \* m_time, which is reset when timers are looked at, and the time

queueVars == <<ready, pending, events, oldEventIDs, buffer>>
timerVars == <<timers, clock>>
vars == <<queueVars, main, dataID, got, adding, posted, timerVars, now>>

NoEvents == [id \in {} |-> NULL]

Init ==
    /\ ready = FALSE /\ pending = <<>>
    /\ events = NoEvents /\ oldEventIDs = <<>> /\ buffer = <<>>
    /\ main = "start" /\ dataID = 0 /\ got = NULL
    /\ adding = [t \in Other |-> NULL] /\ posted = 0
    /\ timers = [t \in Timer |-> NULL] /\ clock = 0 /\ now = 0

\* The handlers of the main thread, and the program before the loop.
Active == main \in {"start", "handle"}
Handling == Active /\ UNCHANGED <<main, dataID, got, adding>>

-----------------------------------------------------------------------------
(***************************************************************************)
(* Events.                                                                 *)
(***************************************************************************)
MayPost == posted < MaxPosts
NewEvent(t) == {[by |-> t, n |-> posted + 1, quit |-> q] : q \in BOOLEAN}

\* saveEvent: an old number, or a new one.
SizeIsFree == Cardinality(DOMAIN events)
FreeID == IF oldEventIDs # <<>> THEN Last(oldEventIDs) ELSE Cardinality(DOMAIN events)

AddFirst(e) ==
    /\ events' = [id \in DOMAIN events \cup {FreeID} |-> IF id = FreeID THEN e ELSE events[id]]
    /\ oldEventIDs' = IF oldEventIDs # <<>> THEN Front(oldEventIDs) ELSE <<>>
    /\ buffer' = <<FreeID>> \o buffer
AddEventToBuffer(e) ==
    /\ events' = [id \in DOMAIN events \cup {FreeID} |-> IF id = FreeID THEN e ELSE events[id]]
    /\ oldEventIDs' = IF oldEventIDs # <<>> THEN Front(oldEventIDs) ELSE <<>>
    /\ buffer' = Append(buffer, FreeID)

AddPending(e) == pending' = Append(pending, e) /\ UNCHANGED <<events, oldEventIDs, buffer>>

\* addEvent by the main thread, which alone changes m_readyCondVar.
MainAdds ==
    /\ Handling /\ MayPost
    /\ \E e \in NewEvent(Main) :
          IF ready THEN AddEventToBuffer(e) /\ UNCHANGED pending ELSE AddPending(e)
    /\ posted' = posted + 1
    /\ UNCHANGED <<ready, timerVars, now>>

\* addEvent by another thread: the look at m_readyCondVar, then the rest.
AddEvent(t) ==
    /\ adding[t] = NULL /\ MayPost
    /\ t \in Early \/ ready
    /\ \E e \in NewEvent(t) : adding' = [adding EXCEPT ![t] = [event |-> e, ready |-> ready]]
    /\ posted' = posted + 1
    /\ UNCHANGED <<queueVars, main, dataID, got, timerVars, now>>

EventAdded(t) ==
    /\ adding[t] # NULL
    /\ IF adding[t].ready THEN AddEventToBuffer(adding[t].event) /\ UNCHANGED pending
       ELSE AddPending(adding[t].event)
    /\ adding' = [adding EXCEPT ![t] = NULL]
    /\ UNCHANGED <<ready, main, dataID, got, posted, timerVars, now>>

\* A screen gives the queue another buffer, and NULL when it goes.
AdoptBuffer ==
    /\ Handling
    /\ events' = NoEvents /\ buffer' = <<>> /\ oldEventIDs' = <<>>
    /\ UNCHANGED <<ready, pending, posted, timerVars, now>>

-----------------------------------------------------------------------------
(***************************************************************************)
(* Timers: the time left, the duration, and for the properties when it is  *)
(* due.                                                                    *)
(***************************************************************************)
Requested(duration) == duration
InitialTime(duration) == duration + clock

NewTimer(t) ==
    /\ Handling /\ timers[t] = NULL
    /\ \E d \in Durations :
          timers' = [timers EXCEPT ![t] = [left |-> InitialTime(d), timeout |-> d, due |-> now + d]]
    /\ UNCHANGED <<queueVars, posted, clock, now>>

DeleteTimer(t) ==
    /\ Handling /\ timers[t] # NULL
    /\ timers' = [timers EXCEPT ![t] = NULL]
    /\ UNCHANGED <<queueVars, posted, clock, now>>

Running == {t \in Timer : timers[t] # NULL}

\* How much of each timer is left when m_time is taken off.
CountedDown == [t \in Timer |->
    IF timers[t] = NULL THEN NULL ELSE [timers[t] EXCEPT !.left = @ - clock]]

Bottoms(left) == {t \in Running : \A u \in Running : left[t].left >= left[u].left}
Tops(left) == {t \in Running : \A u \in Running : left[t].left <= left[u].left}

Tick ==
    /\ now < MaxNow /\ main # "ended"
    /\ now' = now + 1 /\ clock' = clock + 1
    /\ UNCHANGED <<queueVars, main, dataID, got, adding, posted, timers>>

-----------------------------------------------------------------------------
(***************************************************************************)
(* loop.                                                                   *)
(***************************************************************************)
Loop ==
    /\ main = "start"
    /\ ready' = TRUE /\ main' = "pending"
    /\ UNCHANGED <<pending, events, oldEventIDs, buffer, dataID, got, adding, posted, timerVars, now>>

TakePending ==
    /\ main = "pending" /\ pending # <<>>
    /\ AddEventToBuffer(Head(pending)) /\ pending' = Tail(pending)
    /\ UNCHANGED <<ready, main, dataID, got, adding, posted, timerVars, now>>

NoMorePending ==
    /\ main = "pending" /\ pending = <<>> /\ main' = "getEvent"
    /\ UNCHANGED <<queueVars, dataID, got, adding, posted, timerVars, now>>

\* getEvent, with an event in the buffer.  Numbers and events have locks of
\* their own.
GetID ==
    /\ main = "getEvent" /\ buffer # <<>>
    /\ dataID' = Head(buffer) /\ buffer' = Tail(buffer) /\ main' = "removeEvent"
    /\ UNCHANGED <<ready, pending, events, oldEventIDs, got, adding, posted, timerVars, now>>

RemoveEvent ==
    /\ main = "removeEvent"
    /\ got' = events[dataID] /\ events' = Restrict(events, DOMAIN events \ {dataID})
    /\ oldEventIDs' = Append(oldEventIDs, dataID) /\ dataID' = 0
    /\ main' = IF got'.quit THEN "ended" ELSE "handle"
    /\ UNCHANGED <<ready, pending, buffer, adding, posted, timerVars, now>>

\* hasTimerExpired.  A recurring timer goes back to the queue before it is handled.
ExpiredTimer(t) ==
    /\ main = "getEvent" /\ buffer = <<>>
    /\ t \in Tops(CountedDown) /\ CountedDown[t].left <= 0
    /\ timers' = [CountedDown EXCEPT ![t] =
           IF t \in OneShot THEN NULL
           ELSE [@ EXCEPT !.left = timers[t].timeout, !.due = now + timers[t].timeout]]
    /\ clock' = 0 /\ got' = t /\ main' = "handle"
    /\ UNCHANGED <<queueVars, dataID, adding, posted, now>>

NoTimerExpired ==
    /\ main = "getEvent" /\ buffer = <<>>
    /\ \A t \in Running : CountedDown[t].left > 0
    /\ timers' = CountedDown /\ clock' = IF Running = {} THEN clock ELSE 0
    /\ main' = "waitForEvent"
    /\ UNCHANGED <<queueVars, dataID, got, adding, posted, now>>

WakesUp == buffer # <<>> \/ \E t \in Running : CountedDown[t].left <= 0
Wake ==
    /\ main = "waitForEvent" /\ WakesUp
    /\ main' = "getEvent"
    /\ UNCHANGED <<queueVars, dataID, got, adding, posted, timerVars, now>>

Handled ==
    /\ main = "handle" /\ main' = "getEvent" /\ got' = NULL
    /\ UNCHANGED <<queueVars, dataID, adding, posted, timerVars, now>>

MainLoop ==
    \/ Loop \/ TakePending \/ NoMorePending \/ GetID \/ RemoveEvent
    \/ (\E t \in Timer : ExpiredTimer(t)) \/ NoTimerExpired \/ Wake \/ Handled

Handlers == MainAdds \/ AdoptBuffer \/ \E t \in Timer : NewTimer(t) \/ DeleteTimer(t)

Next ==
    \/ MainLoop \/ Handlers \/ Tick
    \/ \E t \in Other : AddEvent(t) \/ EventAdded(t)

Spec == Init /\ [][Next]_vars
FairSpec ==
    /\ Spec /\ WF_vars(MainLoop) /\ WF_vars(Tick)
    /\ \A t \in Other : WF_vars(EventAdded(t))

-----------------------------------------------------------------------------
\* The type invariant.
TypeOK ==
    /\ ready \in BOOLEAN /\ pending \in Seq(Event) /\ now \in 0..MaxNow /\ clock \in 0..now
    /\ DOMAIN events \subseteq Nat /\ Range(events) \subseteq Event
    /\ buffer \in Seq(Nat) /\ oldEventIDs \in Seq(Nat)
    /\ main \in {"start", "pending", "getEvent", "removeEvent", "handle", "waitForEvent", "ended"}
    /\ posted \in 0..MaxPosts
    /\ adding \in [Other -> {NULL} \cup [event : Event, ready : BOOLEAN]]
    /\ \A t \in Running : timers[t].timeout \in Durations /\ timers[t].left <= MaxNow + timers[t].timeout

\* The numbers in the buffer and the saved events are the same, each once, and a
\* number that is kept for reuse is not in use: no event is taken for another
\* although numbers are given back between the two locks of getEvent.
Queued == (IF main = "removeEvent" THEN <<dataID>> ELSE <<>>) \o buffer
NumbersAreInUseOnce ==
    LET all == Queued \o oldEventIDs IN
    /\ Range(Queued) = DOMAIN events
    /\ Cardinality(Range(all)) = Len(all)
    /\ Range(all) = 0..Len(all) - 1

\* The queue implements EventOrder: each event is handled once, those of a thread
\* in the order it added them, the ones from before the loop first; if no thread
\* but the main one adds events before the loop is ready.
AddedBy(t, q) ==
    LET found[n \in 0..Len(q)] ==
            IF n = 0 THEN <<>>
            ELSE IF q[n].by = t THEN Append(found[n - 1], q[n])
            ELSE found[n - 1]
    IN  found[Len(q)]
EventsOf(ids, table) == [i \in DOMAIN ids |-> table[ids[i]]]
InOrder == EventsOf(Queued, events) \o pending
Waiting == [t \in Thread |-> AddedBy(t, InOrder)]
InHand == IF main \in {"handle", "ended"} /\ got \notin Timer THEN got ELSE NULL
Order == INSTANCE EventOrder WITH waiting <- Waiting, current <- InHand
OrderSpec == Order!OrderSpec

\* EventQueue.cpp:323: m_time's elapsed time is added to a new timer "because the
\* latter will be subtracted the next time we check for timers": no timer expires
\* before its time, whenever it was made and whatever else expired since.
Expires(t) == main = "getEvent" /\ main' = "handle" /\ got' = t
NoTimerIsEarly == [][\A t \in Timer : Expires(t) => now >= timers[t].due]_vars

\* Every event is handled in the end, or the loop ended before, or the buffer was
\* replaced: no thread adds one without waking the loop.
EventsAreHandled == \A t \in Thread : (Waiting[t] # <<>> /\ ready) ~> (Waiting[t] = <<>> \/ main = "ended")

\* Every timer that is not deleted expires, even if events keep the loop busy.
Due(t, time) == timers[t] # NULL /\ timers[t].due = time
TimersExpire ==
    \A t \in Timer, time \in 1..MaxNow : (Due(t, time) /\ ready) ~> (~Due(t, time) \/ main = "ended")

\* IEventQueue.h:92: addEvent "Adds event to the end of the queue".  Once the loop
\* goes on no event is left in m_pending, which nobody looks at any more.
EventsAreInTheQueue == main \notin {"start", "pending"} => pending = <<>>

\* The table of events and the buffer of numbers fit each other between their locks.
NumbersFit == TypeOK /\ NumbersAreInUseOnce

\* Neither an event nor a timer waits for ever, whatever the other threads add.
NothingWaitsForEver == EventsAreHandled /\ TimersExpire
===============================================================================
