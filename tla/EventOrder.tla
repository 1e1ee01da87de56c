------------------------------ MODULE EventOrder ------------------------------
(***************************************************************************)
(* What an event queue promises (IEventQueue.h): events are put at its end *)
(* and taken from its head, each once.  Between the events of different    *)
(* threads no order is promised.  Replacing the buffer discards what is    *)
(* queued.                                                                 *)
(***************************************************************************)
EXTENDS Sequences, SequencesExt

CONSTANTS Thread, NULL

VARIABLES
    waiting,    \* the events of each thread that were not taken, in order
    current     \* the event that is being handled, or NULL

orderVars == <<waiting, current>>

OrderInit == waiting = [t \in Thread |-> <<>>] /\ current = NULL

Post(t) ==
    /\ waiting'[t] # <<>>
    /\ waiting' = [waiting EXCEPT ![t] = Append(@, Last(waiting'[t]))]
    /\ UNCHANGED current

Take(t) ==
    /\ current = NULL /\ waiting[t] # <<>>
    /\ current' = Head(waiting[t])
    /\ waiting' = [waiting EXCEPT ![t] = Tail(@)]

Handled == current # NULL /\ current' = NULL /\ UNCHANGED waiting

Discard == waiting' = [t \in Thread |-> <<>>] /\ UNCHANGED current

OrderNext == (\E t \in Thread : Post(t) \/ Take(t)) \/ Handled \/ Discard

OrderSpec == OrderInit /\ [][OrderNext]_orderVars
===============================================================================
