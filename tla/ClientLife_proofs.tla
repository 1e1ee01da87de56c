-------------------------- MODULE ClientLife_proofs --------------------------
(***************************************************************************)
(* Proofs about ClientLife, for any number of suspends and quits.  Type    *)
(* correctness, the timers of the stages and the solitude of a suspended   *)
(* client are inductive together; that a client is never forgotten follows *)
(* step by step from what the queue holds before and after.  That the      *)
(* restart timers are as few as the suspends is a balance: whatever may    *)
(* still lead to a restart is counted once, every handler trades one such  *)
(* thing for at most one other, and only a suspend adds to them.           *)
(***************************************************************************)
EXTENDS ClientLife, FiniteSetTheorems, TLAPS

IInv == TypeOK /\ EveryStageIsTimed /\ SuspendedIsAlone

-----------------------------------------------------------------------------
(***************************************************************************)
(* What queued events are on their way after one is added or taken.        *)
(***************************************************************************)
LEMMA EventsAreStrings ==
    /\ "connected" \in Events /\ "connectionFailed" \in Events
    /\ "disconnected" \in Events /\ "kQuit" \in Events
BY DEF Events

LEMMA AddedIsOnItsWay ==
    ASSUME NEW q \in Seq(Events), NEW e \in Events, e # "connected"
    PROVE  Append(q, e) \in Seq(Events) /\ OnItsWay(Append(q, e))
<1>1. Append(q, e) \in Seq(Events) /\ Len(Append(q, e)) = Len(q) + 1
      /\ Append(q, e)[Len(q) + 1] = e /\ Len(q) \in Nat
  OBVIOUS
<1>2. Len(q) + 1 \in 1..Len(Append(q, e))
  BY <1>1
<1> QED
  BY <1>1, <1>2 DEF OnItsWay

LEMMA AddingKeeps ==
    ASSUME NEW q \in Seq(Events), NEW e \in Events, OnItsWay(q)
    PROVE  OnItsWay(Append(q, e))
<1>1. PICK i \in 1..Len(q) : q[i] # "connected"
  BY DEF OnItsWay
<1>2. i \in 1..Len(Append(q, e)) /\ Append(q, e)[i] = q[i]
  OBVIOUS
<1> QED
  BY <1>1, <1>2 DEF OnItsWay

LEMMA TakingConnectedKeeps ==
    ASSUME NEW q \in Seq(Events), q # <<>>, Head(q) = "connected", OnItsWay(q)
    PROVE  OnItsWay(Tail(q))
<1>1. PICK i \in 1..Len(q) : q[i] # "connected"
  BY DEF OnItsWay
<1>2. i # 1
  BY <1>1
<1>3. i - 1 \in 1..Len(Tail(q)) /\ Tail(q)[i - 1] = q[i]
  BY <1>2
<1> QED
  BY <1>1, <1>3 DEF OnItsWay

LEMMA TailIsQueue ==
    ASSUME NEW q \in Seq(Events), q # <<>>
    PROVE  Tail(q) \in Seq(Events)
OBVIOUS

-----------------------------------------------------------------------------
(***************************************************************************)
(* The parts of the actions.                                               *)
(***************************************************************************)
LEMMA AttemptLemma ==
    ASSUME IInv, NEW q \in Seq(Events), Attempt(q)
    PROVE  /\ stage' \in Stages /\ peer' \in {"alive", "silent"}
           /\ {timer', heartbeat', alarm', ready'} \subseteq BOOLEAN
           /\ queue' \in Seq(Events)
           /\ EveryStageIsTimed'
           /\ stage' # "none" \/ OnItsWay(queue')
<1>1. CASE stage # "none" /\ queue' = q /\ UNCHANGED connection
  BY <1>1 DEF IInv, TypeOK, EveryStageIsTimed, HasProxy, connection
<1>2. CASE /\ stage = "none" /\ stage' = "connecting" /\ timer' = TRUE /\ peer' = "alive"
           /\ queue' = q /\ UNCHANGED <<heartbeat, alarm, ready>>
  BY <1>2 DEF IInv, TypeOK, EveryStageIsTimed, HasProxy, Stages
<1>3. CASE stage = "none" /\ queue' = Append(q, "connectionFailed") /\ UNCHANGED connection
  <2>1. queue' \in Seq(Events) /\ OnItsWay(queue')
    BY <1>3, AddedIsOnItsWay, EventsAreStrings
  <2> QED
    BY <1>3, <2>1 DEF IInv, TypeOK, EveryStageIsTimed, HasProxy, connection
<1> QED
  BY <1>1, <1>2, <1>3 DEF Attempt

LEMMA ConnectLemma ==
    ASSUME IInv, NEW q \in Seq(Events), Connect(q), suspended' = suspended
    PROVE  /\ stage' \in Stages /\ peer' \in {"alive", "silent"}
           /\ {timer', heartbeat', alarm', ready', connectOnResume'} \subseteq BOOLEAN
           /\ queue' \in Seq(Events)
           /\ EveryStageIsTimed' /\ SuspendedIsAlone'
           /\ stage' # "none" \/ OnItsWay(queue') \/ (suspended' /\ connectOnResume')
<1>1. CASE ~(suspended /\ stage = "none") /\ Attempt(q) /\ UNCHANGED connectOnResume
  <2>1. ~suspended
    BY <1>1 DEF IInv, SuspendedIsAlone
  <2> QED
    BY <1>1, <2>1, AttemptLemma DEF IInv, TypeOK, SuspendedIsAlone
<1>2. CASE /\ suspended /\ stage = "none"
           /\ connectOnResume' = TRUE /\ queue' = q /\ UNCHANGED connection
  BY <1>2 DEF IInv, TypeOK, EveryStageIsTimed, SuspendedIsAlone, HasProxy, connection
<1> QED
  BY <1>1, <1>2 DEF Connect

LEMMA CleanUpLemma ==
    ASSUME IInv, CleanUp
    PROVE  /\ stage' = "none" /\ stage' \in Stages /\ peer' \in {"alive", "silent"}
           /\ {timer', heartbeat', alarm', ready'} \subseteq BOOLEAN
           /\ EveryStageIsTimed' /\ SuspendedIsAlone'
BY DEF CleanUp, SetKeepAliveRate, IInv, TypeOK, EveryStageIsTimed, SuspendedIsAlone, HasProxy, Stages

LEMMA EndsLemma ==
    ASSUME IInv, NEW e \in Events, e # "connected", Ends(e), connectOnResume' \in BOOLEAN
    PROVE  IInv' /\ NeverForgotten'
<1>1. queue' \in Seq(Events) /\ OnItsWay(queue')
  BY AddedIsOnItsWay DEF Ends, IInv, TypeOK
<1> QED
  BY <1>1, CleanUpLemma DEF Ends, IInv, TypeOK, NeverForgotten

-----------------------------------------------------------------------------
(***************************************************************************)
(* The steps.                                                              *)
(***************************************************************************)
Inv == IInv /\ NeverForgotten

LEMMA InitInv == Init => Inv
<1> SUFFICES ASSUME Init PROVE Inv
  OBVIOUS
<1>1. <<>> \in Seq(Events)
  OBVIOUS
<1>2. TypeOK
  <2>1. restartable \in BOOLEAN /\ phase = "boot" /\ stage \in Stages
    BY DEF Init, Stages
  <2>2. suspends \in 0..MaxSuspends /\ errors \in 0..MaxErrors /\ restarts \in Nat
    BY ClientAssumption DEF Init
  <2> QED
    BY <1>1, <2>1, <2>2 DEF Init, TypeOK
<1>3. EveryStageIsTimed /\ SuspendedIsAlone /\ NeverForgotten
  BY DEF Init, EveryStageIsTimed, SuspendedIsAlone, NeverForgotten, HasProxy, Loop
<1> QED
  BY <1>2, <1>3 DEF Inv, IInv

LEMMA ApplicationStep ==
    ASSUME Inv, Application
    PROVE  Inv'
<1> USE DEF Inv
<1>1. queue \in Seq(Events) /\ Events = {"connected", "connectionFailed", "disconnected", "kQuit"}
  BY DEF IInv, TypeOK, Events
<1>2. CASE Boot
  <2>1. CASE phase' = "loop" /\ Connect(queue)
    BY <1>1, <1>2, <2>1, ConnectLemma DEF Boot, IInv, TypeOK, NeverForgotten
  <2>2. CASE /\ phase' \in {"failed"} \union {p \in {"crashed"} : restartable}
             /\ UNCHANGED <<connection, connectOnResume, queue>>
    BY <1>2, <2>2
       DEF Boot, IInv, TypeOK, EveryStageIsTimed, SuspendedIsAlone, HasProxy, NeverForgotten,
           Loop, connection
  <2> QED
    BY <1>2, <2>1, <2>2 DEF Boot
<1>3. CASE HandleClientRestart
  <2>1. restarts' \in Nat
    BY <1>3 DEF HandleClientRestart, IInv, TypeOK
  <2>2. Connect(queue) /\ UNCHANGED <<restartable, phase, suspended, suspends, errors>>
    BY <1>3 DEF HandleClientRestart
  <2> QED
    BY <1>1, <2>1, <2>2, ConnectLemma DEF IInv, TypeOK, NeverForgotten
<1>4. CASE HandleClientConnected
  <2>1. Tail(queue) \in Seq(Events) /\ (OnItsWay(queue) => OnItsWay(Tail(queue)))
    BY <1>1, <1>4, TailIsQueue, TakingConnectedKeeps DEF HandleClientConnected, Dispatch
  <2> QED
    BY <1>4, <2>1
       DEF HandleClientConnected, IInv, TypeOK, EveryStageIsTimed, SuspendedIsAlone, HasProxy,
           NeverForgotten, Loop, connection, resumption
<1>5. CASE HandleClientFailed
  <2>1. Tail(queue) \in Seq(Events)
    BY <1>1, <1>5, TailIsQueue DEF HandleClientFailed, Dispatch
  <2>2. Append(Tail(queue), "kQuit") \in Seq(Events)
    BY <1>1, <2>1
  <2>3. IInv'
    BY <1>5, <2>1, <2>2
       DEF HandleClientFailed, IInv, TypeOK, EveryStageIsTimed, SuspendedIsAlone, HasProxy,
           connection, resumption
  <2>4. restartable' => restarts' > 0
    BY <1>5 DEF HandleClientFailed, IInv, TypeOK
  <2> QED
    BY <2>3, <2>4 DEF NeverForgotten
<1>6. CASE HandleClientDisconnected
  <2>1. Tail(queue) \in Seq(Events)
    BY <1>1, <1>6, TailIsQueue DEF HandleClientDisconnected, Dispatch
  <2>2. Append(Tail(queue), "kQuit") \in Seq(Events)
    BY <1>1, <2>1
  <2>3. CASE restartable /\ Connect(Tail(queue))
    BY <1>6, <2>1, <2>3, ConnectLemma
       DEF HandleClientDisconnected, IInv, TypeOK, NeverForgotten
  <2>4. CASE /\ ~restartable /\ queue' = Append(Tail(queue), "kQuit")
             /\ UNCHANGED <<connection, connectOnResume>>
    BY <1>6, <2>2, <2>4
       DEF HandleClientDisconnected, IInv, TypeOK, EveryStageIsTimed, SuspendedIsAlone, HasProxy,
           NeverForgotten, connection
  <2> QED
    BY <1>6, <2>3, <2>4 DEF HandleClientDisconnected
<1>7. CASE HandleScreenError
  <2>1. queue' \in Seq(Events) /\ OnItsWay(queue')
    BY <1>1, <1>7, AddedIsOnItsWay DEF HandleScreenError
  <2> QED
    BY <1>7, <2>1, ClientAssumption
       DEF HandleScreenError, IInv, TypeOK, EveryStageIsTimed, SuspendedIsAlone, HasProxy,
           NeverForgotten, connection, resumption
<1>8. CASE StopClient
  <2>1. Tail(queue) \in Seq(Events)
    BY <1>1, <1>8, TailIsQueue DEF StopClient, Dispatch
  <2> QED
    BY <1>8, <2>1, CleanUpLemma DEF StopClient, IInv, TypeOK, NeverForgotten, Loop, resumption
<1> QED
  BY <1>2, <1>3, <1>4, <1>5, <1>6, <1>7, <1>8 DEF Application

LEMMA ClientStep ==
    ASSUME Inv, Client
    PROVE  Inv'
<1> USE DEF Inv
<1>1. /\ queue \in Seq(Events) /\ connectOnResume \in BOOLEAN
      /\ Events = {"connected", "connectionFailed", "disconnected", "kQuit"}
  BY DEF IInv, TypeOK, Events
<1>2. CASE HandleConnected
  BY <1>2 DEF HandleConnected, Answers, IInv, TypeOK, EveryStageIsTimed, SuspendedIsAlone,
              NeverForgotten, HasProxy, Stages, resumption
<1>3. CASE HandleConnectionFailed
  BY <1>1, <1>3, EndsLemma DEF HandleConnectionFailed
<1>4. CASE HandleConnectTimeout
  BY <1>1, <1>4, EndsLemma DEF HandleConnectTimeout
<1>5. CASE HandleHello
  BY <1>5 DEF HandleHello, SetKeepAliveRate, Answers, IInv, TypeOK, EveryStageIsTimed, SuspendedIsAlone,
              NeverForgotten, HasProxy, Stages, resumption
<1>6. CASE HandleBadHello
  BY <1>1, <1>6, EndsLemma DEF HandleBadHello
<1>7. CASE HandleDisconnected
  BY <1>1, <1>7, EndsLemma DEF HandleDisconnected
<1>8. CASE HandleSuspend
  <2>1. queue' \in Seq(Events) /\ OnItsWay(queue')
    BY <1>1, <1>8, AddedIsOnItsWay DEF HandleSuspend
  <2>2. connectOnResume' \in BOOLEAN
    BY <1>8 DEF HandleSuspend, HasProxy
  <2> QED
    BY <1>8, <2>1, <2>2, CleanUpLemma, ClientAssumption DEF HandleSuspend, IInv, TypeOK, NeverForgotten
<1>9. CASE HandleResume
  <2>1. CASE connectOnResume /\ connectOnResume' = FALSE /\ Attempt(queue)
    BY <1>1, <1>9, <2>1, AttemptLemma
       DEF HandleResume, IInv, TypeOK, SuspendedIsAlone, NeverForgotten
  <2>2. CASE ~connectOnResume /\ UNCHANGED <<connection, connectOnResume, queue>>
    BY <1>9, <2>2
       DEF HandleResume, IInv, TypeOK, EveryStageIsTimed, SuspendedIsAlone, NeverForgotten,
           HasProxy, Loop, connection
  <2> QED
    BY <1>9, <2>1, <2>2 DEF HandleResume
<1> QED
  BY <1>2, <1>3, <1>4, <1>5, <1>6, <1>7, <1>8, <1>9 DEF Client

LEMMA ProxyStep ==
    ASSUME Inv, Proxy
    PROVE  Inv'
<1> USE DEF Inv
<1>1. /\ queue \in Seq(Events)
      /\ Events = {"connected", "connectionFailed", "disconnected", "kQuit"}
  BY DEF IInv, TypeOK, Events
<1>2. CASE HandshakeComplete
  <2>1. queue' \in Seq(Events)
    BY <1>1, <1>2 DEF HandshakeComplete
  <2> QED
    BY <1>2, <2>1 DEF HandshakeComplete, SetKeepAliveRate, Answers, IInv, TypeOK, EveryStageIsTimed,
                      SuspendedIsAlone, NeverForgotten, HasProxy, Stages, resumption
<1>3. CASE HandleClose
  BY <1>1, <1>3, EndsLemma DEF HandleClose, Disconnect
<1>4. CASE HandleError
  BY <1>1, <1>4, EndsLemma DEF HandleError, Disconnect
<1>5. CASE HandleKeepAliveAlarm
  BY <1>1, <1>5, EndsLemma DEF HandleKeepAliveAlarm, Disconnect
<1>6. CASE SetOptions \/ ResetOptions
  <2>1. PICK positive \in BOOLEAN : HasProxy /\ (stage = "handshake" => positive) /\ NewRate(positive)
    BY <1>6 DEF SetOptions, ResetOptions, HasProxy
  <2> QED
    BY <2>1 DEF NewRate, SetKeepAliveRate, IInv, TypeOK, EveryStageIsTimed, SuspendedIsAlone,
                NeverForgotten, HasProxy, Loop, resumption
<1> QED
  BY <1>2, <1>3, <1>4, <1>5, <1>6 DEF Proxy

LEMMA StepInv == Inv /\ [Next]_vars => Inv'
<1> SUFFICES ASSUME Inv, [Next]_vars PROVE Inv'
  OBVIOUS
<1>1. CASE PeerVanishes
  BY <1>1 DEF Inv, PeerVanishes, Answers, IInv, TypeOK, EveryStageIsTimed, SuspendedIsAlone,
              NeverForgotten, HasProxy, resumption
<1>2. CASE UNCHANGED vars
  BY <1>2 DEF Inv, IInv, TypeOK, EveryStageIsTimed, SuspendedIsAlone, NeverForgotten, HasProxy,
              Loop, vars, connection, resumption
<1> QED
  BY <1>1, <1>2, ApplicationStep, ClientStep, ProxyStep DEF Next

-----------------------------------------------------------------------------
\* Every variable keeps its type.
THEOREM TypeCorrect == Spec => []TypeOK
<1>1. Inv => TypeOK
  BY DEF Inv, IInv
<1> QED
  BY InitInv, StepInv, <1>1, PTL DEF Spec

\* A connection has the timer that ends it at every stage, unless the server
\* asked for no heartbeat after the handshake, and no timer is left over, for
\* any number of suspends and of options: the handlers that end a connection
\* all clean up, and only connect, the hello and a new rate set timers.
THEOREM StagesAreTimed == Spec => []EveryStageIsTimed
<1>1. Inv => EveryStageIsTimed
  BY DEF Inv, IInv
<1> QED
  BY InitInv, StepInv, <1>1, PTL DEF Spec

\* A suspended client has no connection: connect is the only way to one, and
\* asks m_suspended each time, whoever calls it.
THEOREM SuspendedStaysAlone == Spec => []SuspendedIsAlone
<1>1. Inv => SuspendedIsAlone
  BY DEF Inv, IInv
<1> QED
  BY InitInv, StepInv, <1>1, PTL DEF Spec

\* A client that may restart and has no connection has an event, a timer or a
\* resume to come that connects it: each handler that ends a connection posts
\* an event, each event is traded for an attempt, a timer or connectOnResume.
THEOREM NobodyIsForgotten == Spec => []NeverForgotten
<1>1. Inv => NeverForgotten
  BY DEF Inv
<1> QED
  BY InitInv, StepInv, <1>1, PTL DEF Spec

\* What the run client_life checks in one invariant, for every bound.
THEOREM ClientAlwaysFits == Spec => []ClientFits
<1>1. Inv => ClientFits
  BY DEF Inv, IInv, ClientFits
<1> QED
  BY InitInv, StepInv, <1>1, PTL DEF Spec

-----------------------------------------------------------------------------
(***************************************************************************)
(* The balance of the restarts.  The queued events that make the           *)
(* application connect, and how many there are.                            *)
(***************************************************************************)
Asking == {"connectionFailed", "disconnected"}
AskingAt(q) == {i \in 1..Len(q) : q[i] \in Asking}
Pending(q) == Cardinality(AskingAt(q))
One(b) == IF b THEN 1 ELSE 0

LEMMA PendingIsNumber ==
    ASSUME NEW q \in Seq(Events)
    PROVE  IsFiniteSet(AskingAt(q)) /\ Pending(q) \in Nat
<1>1. IsFiniteSet(1..Len(q))
  BY FS_Interval
<1>2. AskingAt(q) \subseteq 1..Len(q)
  BY DEF AskingAt
<1>3. IsFiniteSet(AskingAt(q))
  BY <1>1, <1>2, FS_Subset
<1> QED
  BY <1>3, FS_CardinalityType DEF Pending

LEMMA NothingPending == Pending(<<>>) = 0
<1>1. AskingAt(<<>>) = {}
  BY DEF AskingAt
<1> QED
  BY <1>1, FS_EmptySet DEF Pending

LEMMA PendingAppended ==
    ASSUME NEW q \in Seq(Events), NEW e \in Events
    PROVE  Pending(Append(q, e)) = Pending(q) + One(e \in Asking)
<1> DEFINE r == Append(q, e)
           n == Len(q) + 1
<1>1. /\ Len(q) \in Nat /\ r \in Seq(Events) /\ Len(r) = n /\ r[n] = e
      /\ \A i \in 1..Len(q) : r[i] = q[i]
  OBVIOUS
<1>2. IsFiniteSet(AskingAt(q)) /\ Pending(q) \in Nat
  BY PendingIsNumber
<1>3. n \notin AskingAt(q)
  BY <1>1 DEF AskingAt
<1>4. CASE e \in Asking
  <2>1. AskingAt(r) = AskingAt(q) \cup {n}
    BY <1>1, <1>4 DEF AskingAt
  <2> QED
    BY <1>2, <1>3, <1>4, <2>1, FS_AddElement DEF Pending, One
<1>5. CASE e \notin Asking
  <2>1. AskingAt(r) = AskingAt(q)
    BY <1>1, <1>5 DEF AskingAt
  <2> QED
    BY <1>2, <1>5, <2>1 DEF Pending, One
<1> QED
  BY <1>4, <1>5

LEMMA QuitIsNotPending ==
    ASSUME NEW q \in Seq(Events)
    PROVE  Pending(Append(q, "kQuit")) = Pending(q)
<1>1. "kQuit" \in Events /\ "kQuit" \notin Asking /\ Pending(q) \in Nat
  BY PendingIsNumber DEF Events, Asking
<1> QED
  BY <1>1, PendingAppended DEF One

\* the places move down by one, and the first is gone
LEMMA PendingTaken ==
    ASSUME NEW q \in Seq(Events), q # <<>>
    PROVE  Pending(q) = Pending(Tail(q)) + One(Head(q) \in Asking)
<1> DEFINE r == Tail(q)
           f == [i \in AskingAt(r) |-> i + 1]
<1>1. /\ Len(q) \in Nat \ {0} /\ r \in Seq(Events) /\ Len(r) = Len(q) - 1 /\ Head(q) = q[1]
      /\ \A i \in 1..Len(r) : r[i] = q[i + 1]
  OBVIOUS
<1>2. /\ IsFiniteSet(AskingAt(q)) /\ Pending(q) \in Nat
      /\ IsFiniteSet(AskingAt(r)) /\ Pending(r) \in Nat
  BY <1>1, PendingIsNumber
<1>3. f \in Bijection(AskingAt(r), AskingAt(q) \ {1})
  <2>1. \A i \in AskingAt(r) : i + 1 \in AskingAt(q) \ {1}
    BY <1>1 DEF AskingAt
  <2>2. \A i, j \in AskingAt(r) : f[i] = f[j] => i = j
    BY <1>1 DEF AskingAt
  <2>3. \A k \in AskingAt(q) \ {1} : \E i \in AskingAt(r) : f[i] = k
    <3> TAKE k \in AskingAt(q) \ {1}
    <3>1. k \in 2..Len(q) /\ q[k] \in Asking
      BY <1>1 DEF AskingAt
    <3>2. k - 1 \in 1..Len(r) /\ r[k - 1] = q[(k - 1) + 1] /\ (k - 1) + 1 = k
      BY <1>1, <3>1
    <3>3. k - 1 \in AskingAt(r)
      BY <3>1, <3>2 DEF AskingAt
    <3>4. f[k - 1] = k
      BY <3>2, <3>3
    <3> QED
      BY <3>3, <3>4
  <2> QED
    BY <2>1, <2>2, <2>3 DEF Bijection, Injection, IsInjective, Surjection
<1>4. Cardinality(AskingAt(q) \ {1}) = Pending(r)
  BY <1>2, <1>3, FS_Bijection DEF ExistsBijection, Pending
<1>5. 1 \in AskingAt(q) <=> Head(q) \in Asking
  BY <1>1 DEF AskingAt
<1>6. Cardinality(AskingAt(q) \ {1})
      = IF 1 \in AskingAt(q) THEN Pending(q) - 1 ELSE Pending(q)
  BY <1>2, FS_RemoveElement DEF Pending
<1> QED
  BY <1>2, <1>4, <1>5, <1>6 DEF One

-----------------------------------------------------------------------------
(***************************************************************************)
(* What may still lead to a restart, besides the queue: a restart timer, a *)
(* connection that can end, the program that has still to start, and the   *)
(* connection that resume is to make.                                      *)
(***************************************************************************)
Open == One(stage # "none")
Starting == One(phase = "boot")
ToMake == One(connectOnResume)
Kept == restarts + Starting + ToMake
Balance == Kept + Open + Pending(queue) =< 1 + suspends

Balanced == Inv /\ Balance

LEMMA Numbers ==
    ASSUME TypeOK
    PROVE  /\ restarts \in Nat /\ suspends \in Nat /\ queue \in Seq(Events)
           /\ connectOnResume \in BOOLEAN
           /\ Open \in Nat /\ Starting \in Nat /\ ToMake \in Nat /\ Pending(queue) \in Nat
<1>1. /\ restarts \in Nat /\ suspends \in Nat /\ queue \in Seq(Events)
      /\ connectOnResume \in BOOLEAN
  BY ClientAssumption DEF TypeOK
<1>2. Open \in Nat /\ Starting \in Nat /\ ToMake \in Nat
  BY DEF Open, Starting, ToMake, One
<1> QED
  BY <1>1, <1>2, PendingIsNumber

\* an attempt turns into at most one connection or one event
LEMMA AttemptCosts ==
    ASSUME NEW q \in Seq(Events), Attempt(q)
    PROVE  Open' + Pending(queue') =< Open + Pending(q) + 1
<1>1. Pending(q) \in Nat
  BY PendingIsNumber
<1>2. CASE queue' = q
  BY <1>1, <1>2 DEF Attempt, connection, Open, One
<1>3. CASE queue' = Append(q, "connectionFailed") /\ UNCHANGED connection
  <2>1. Pending(queue') = Pending(q) + 1
    BY <1>3, EventsAreStrings, PendingAppended DEF One, Asking
  <2> QED
    BY <1>1, <1>3, <2>1 DEF connection, Open, One
<1> QED
  BY <1>2, <1>3 DEF Attempt

\* connect turns into at most one thing that may lead to a restart
LEMMA ConnectCosts ==
    ASSUME TypeOK, NEW q \in Seq(Events), Connect(q)
    PROVE  ToMake' + Open' + Pending(queue')
           =< ToMake + Open + Pending(q) + 1
<1>1. Pending(q) \in Nat
  BY PendingIsNumber
<1>2. CASE Attempt(q) /\ UNCHANGED connectOnResume
  <2>1. Open' + Pending(queue') =< Open + Pending(q) + 1
    BY <1>2, AttemptCosts
  <2>2. Open' \in Nat /\ Open \in Nat /\ ToMake \in Nat
        /\ ToMake' = ToMake
    BY <1>2 DEF Open, ToMake, One
  <2>3. Pending(queue') \in Nat
    <3>1. queue' = q \/ queue' = Append(q, "connectionFailed")
      BY <1>2 DEF Attempt
    <3>2. queue' \in Seq(Events)
      BY <3>1, EventsAreStrings
    <3> QED
      BY <3>2, PendingIsNumber
  <2> QED
    BY <1>1, <2>1, <2>2, <2>3
<1>3. CASE connectOnResume' = TRUE /\ queue' = q /\ UNCHANGED connection
  BY <1>1, <1>3 DEF connection, Open, ToMake, One
<1> QED
  BY <1>2, <1>3 DEF Connect

\* ending a connection gives what the event costs
LEMMA EndsCosts ==
    ASSUME Inv, NEW e \in Asking, Ends(e), stage # "none"
    PROVE  Open' + Pending(queue') = Open + Pending(queue)
<1>1. queue \in Seq(Events) /\ Pending(queue) \in Nat
  BY Numbers DEF Inv, IInv
<1>2. e \in Events
  BY DEF Asking, Events
<1>3. queue' = Append(queue, e) /\ stage' = "none"
  BY DEF Ends, CleanUp
<1>4. Pending(queue') = Pending(queue) + 1
  BY <1>1, <1>2, <1>3, PendingAppended DEF One
<1> QED
  BY <1>1, <1>3, <1>4 DEF Open, One

LEMMA InitBalance == Init => Balance
BY NothingPending DEF Init, Balance, Kept, Open, Starting, ToMake, One

LEMMA ApplicationBalance ==
    ASSUME Balanced, Application
    PROVE  Balance'
<1>1. /\ queue \in Seq(Events) /\ TypeOK
      /\ restarts \in Nat /\ suspends \in Nat
      /\ Pending(queue) \in Nat /\ Open \in Nat /\ Starting \in Nat /\ ToMake \in Nat
      /\ restarts + Starting + ToMake + Open + Pending(queue) =< 1 + suspends
  BY Numbers DEF Balanced, Balance, Kept, Inv, IInv
<1>1a. /\ restarts \in Nat /\ suspends \in Nat
      /\ Pending(queue) \in Nat /\ Open \in Nat /\ Starting \in Nat /\ ToMake \in Nat
      /\ restarts + Starting + ToMake + Open + Pending(queue) =< 1 + suspends
  BY <1>1
<1>2. Inv'
  BY ApplicationStep DEF Balanced
<1>3. /\ restarts' \in Nat /\ queue' \in Seq(Events) /\ Pending(queue') \in Nat
      /\ Open' \in Nat /\ Starting' \in Nat /\ ToMake' \in Nat
  <2>1. queue' \in Seq(Events) /\ restarts' \in Nat
    BY <1>2 DEF Inv, IInv, TypeOK
  <2> QED
    BY <2>1, PendingIsNumber DEF Open, Starting, ToMake, One
<1>3a. /\ restarts' \in Nat /\ Pending(queue') \in Nat
      /\ Open' \in Nat /\ Starting' \in Nat /\ ToMake' \in Nat
  BY <1>3
<1> SUFFICES restarts' + Starting' + ToMake' + Open' + Pending(queue')
             =< 1 + suspends'
  BY DEF Balance, Kept
<1>4. CASE Boot
  <2>1. Starting = 1 /\ Starting' = 0 /\ UNCHANGED <<restarts, suspends>>
    BY <1>4 DEF Boot, Starting, One
  <2>2. CASE Connect(queue)
    <3>1. ToMake' + Open' + Pending(queue')
          =< ToMake + Open + Pending(queue) + 1
      BY <1>1, <2>2, ConnectCosts
    <3> QED
      BY <1>1a, <1>3a, <2>1, <3>1
  <2>3. CASE UNCHANGED <<connection, connectOnResume, queue>>
    BY <1>1, <2>1, <2>3 DEF One, Open, ToMake, connection
  <2> QED
    BY <1>4, <2>2, <2>3 DEF Boot
<1>5. CASE HandleClientRestart
  <2>1. restarts' = restarts - 1 /\ UNCHANGED <<Starting, suspends>> /\ Connect(queue)
    BY <1>5 DEF HandleClientRestart, Starting
  <2>2. ToMake' + Open' + Pending(queue')
        =< ToMake + Open + Pending(queue) + 1
    BY <1>1, <2>1, ConnectCosts
  <2> QED
    BY <1>1a, <1>3a, <2>1, <2>2
<1>6. CASE HandleClientConnected
  <2>1. queue # <<>> /\ Head(queue) = "connected" /\ queue' = Tail(queue)
        /\ UNCHANGED <<phase, connection, resumption, restarts, suspends>>
    BY <1>6 DEF HandleClientConnected, Dispatch
  <2>2. Pending(queue') = Pending(queue)
    BY <1>1, <1>3, <2>1, PendingTaken DEF One, Asking
  <2> QED
    BY <1>1, <2>1, <2>2 DEF Open, Starting, ToMake, One, connection, resumption
<1>7. CASE HandleClientFailed
  <2>1. queue # <<>> /\ Head(queue) \in Asking
        /\ UNCHANGED <<phase, connection, resumption, suspends>>
    BY <1>7 DEF HandleClientFailed, Dispatch, Asking
  <2>2. /\ Tail(queue) \in Seq(Events) /\ Pending(Tail(queue)) \in Nat
        /\ Pending(queue) = Pending(Tail(queue)) + 1
    <3>1. Tail(queue) \in Seq(Events)
      BY <1>1, <2>1, TailIsQueue
    <3> QED
      BY <1>1, <2>1, <3>1, PendingTaken, PendingIsNumber DEF One
  <2>3. CASE restarts' = restarts + 1 /\ queue' = Tail(queue)
    BY <1>1, <2>1, <2>2, <2>3 DEF Open, Starting, ToMake, One, connection, resumption
  <2>4. CASE queue' = Append(Tail(queue), "kQuit") /\ UNCHANGED restarts
    <3>1. Pending(queue') = Pending(Tail(queue))
      BY <2>2, <2>4, QuitIsNotPending
    <3> QED
      BY <1>1, <2>1, <2>2, <2>4, <3>1 DEF Open, Starting, ToMake, One, connection, resumption
  <2> QED
    BY <1>7, <2>3, <2>4 DEF HandleClientFailed
<1>8. CASE HandleClientDisconnected
  <2>1. queue # <<>> /\ Head(queue) \in Asking /\ UNCHANGED <<Starting, restarts, suspends>>
    BY <1>8 DEF HandleClientDisconnected, Dispatch, Asking, Starting
  <2>2. /\ Tail(queue) \in Seq(Events) /\ Pending(Tail(queue)) \in Nat
        /\ Pending(queue) = Pending(Tail(queue)) + 1
    <3>1. Tail(queue) \in Seq(Events)
      BY <1>1, <2>1, TailIsQueue
    <3> QED
      BY <1>1, <2>1, <3>1, PendingTaken, PendingIsNumber DEF One
  <2>2a. /\ UNCHANGED <<Starting, restarts, suspends>> /\ Pending(Tail(queue)) \in Nat
        /\ Pending(queue) = Pending(Tail(queue)) + 1
    BY <2>1, <2>2
  <2>3. CASE Connect(Tail(queue))
    <3>1. ToMake' + Open' + Pending(queue')
          =< ToMake + Open + Pending(Tail(queue)) + 1
      BY <1>1, <2>2, <2>3, ConnectCosts
    <3> QED
      BY <1>1a, <1>3a, <2>2a, <3>1
  <2>4. CASE /\ queue' = Append(Tail(queue), "kQuit")
             /\ UNCHANGED <<connection, connectOnResume>>
    <3>1. Pending(queue') = Pending(Tail(queue))
      BY <2>2, <2>4, QuitIsNotPending
    <3> QED
      BY <1>1, <2>1, <2>2, <2>4, <3>1 DEF Open, ToMake, One, connection
  <2> QED
    BY <1>8, <2>3, <2>4 DEF HandleClientDisconnected
<1>9. CASE HandleScreenError
  <2>1. queue' = Append(queue, "kQuit")
        /\ UNCHANGED <<phase, connection, resumption, restarts, suspends>>
    BY <1>9 DEF HandleScreenError
  <2>2. Pending(queue') = Pending(queue)
    BY <1>1, <2>1, EventsAreStrings, PendingAppended DEF One, Asking
  <2> QED
    BY <1>1, <2>1, <2>2 DEF Open, Starting, ToMake, One, connection, resumption
<1>10. CASE StopClient
  <2>1. /\ queue # <<>> /\ Head(queue) = "kQuit" /\ queue' = Tail(queue)
        /\ phase' = "done" /\ stage' = "none" /\ UNCHANGED <<resumption, restarts, suspends>>
    BY <1>10 DEF StopClient, Dispatch, CleanUp
  <2>2. Pending(queue') = Pending(queue)
    BY <1>1, <1>3, <2>1, PendingTaken DEF One, Asking
  <2> QED
    BY <1>1, <2>1, <2>2 DEF Open, Starting, ToMake, One, resumption
<1> QED
  BY <1>4, <1>5, <1>6, <1>7, <1>8, <1>9, <1>10 DEF Application

LEMMA ConnectionBalance ==
    ASSUME Balanced, Client \/ Proxy \/ PeerVanishes
    PROVE  Balance'
<1>1. /\ queue \in Seq(Events) /\ TypeOK
      /\ restarts \in Nat /\ suspends \in Nat
      /\ Pending(queue) \in Nat /\ Open \in Nat /\ Starting \in Nat /\ ToMake \in Nat
      /\ restarts + Starting + ToMake + Open + Pending(queue) =< 1 + suspends
  BY Numbers DEF Balanced, Balance, Kept, Inv, IInv
<1>2. EveryStageIsTimed
  BY DEF Balanced, Inv, IInv
<1>3. Open' \in Nat /\ Starting' \in Nat /\ ToMake' \in Nat
  BY DEF Open, Starting, ToMake, One
<1> SUFFICES restarts' + Starting' + ToMake' + Open' + Pending(queue')
             =< 1 + suspends'
  BY DEF Balance, Kept
<1>4. ASSUME NEW e \in Asking, Ends(e), stage # "none",
             connectOnResume' = FALSE \/ UNCHANGED connectOnResume
      PROVE  Balance'
  <2>1. Open' + Pending(queue') = Open + Pending(queue)
    BY <1>4, EndsCosts DEF Balanced
  <2>2. UNCHANGED <<phase, restarts, suspends>>
    BY <1>4 DEF Ends
  <2>3. Pending(queue') \in Nat
    <3>1. queue' \in Seq(Events)
      BY <1>1, <1>4 DEF Ends, Asking, Events
    <3> QED
      BY <3>1, PendingIsNumber
  <2> QED
    BY <1>1, <1>3, <1>4, <2>1, <2>2, <2>3 DEF Balance, Kept, Starting, ToMake, One
<1>5. "connectionFailed" \in Asking /\ "disconnected" \in Asking
  BY DEF Asking
<1>6. CASE HandleConnected \/ HandleHello \/ SetOptions \/ ResetOptions \/ PeerVanishes
  <2>1. /\ UNCHANGED <<phase, resumption, restarts, queue, suspends>>
        /\ stage # "none" /\ stage' # "none"
    BY <1>6 DEF HandleConnected, HandleHello, SetOptions, ResetOptions, NewRate, HasProxy,
                PeerVanishes
  <2> QED
    BY <1>1, <2>1 DEF Open, Starting, ToMake, One, resumption
<1>7. CASE HandleConnectionFailed \/ HandleConnectTimeout \/ HandleBadHello
  <2>1. stage # "none" /\ Ends("connectionFailed") /\ UNCHANGED connectOnResume
    BY <1>2, <1>7
       DEF HandleConnectionFailed, HandleConnectTimeout, HandleBadHello, EveryStageIsTimed
  <2>2. Balance'
    BY <1>4, <1>5, <2>1
  <2> QED
    BY <2>2 DEF Balance, Kept
<1>8. CASE HandleDisconnected
  <2>1. stage # "none" /\ Ends("disconnected") /\ UNCHANGED connectOnResume
    BY <1>8 DEF HandleDisconnected
  <2>2. Balance'
    BY <1>4, <1>5, <2>1
  <2> QED
    BY <2>2 DEF Balance, Kept
<1>9. CASE HandleClose
  <2>1. stage # "none" /\ Ends("disconnected") /\ connectOnResume' = FALSE
    BY <1>9 DEF HandleClose, HasProxy, Disconnect
  <2>2. Balance'
    BY <1>4, <1>5, <2>1
  <2> QED
    BY <2>2 DEF Balance, Kept
<1>10. CASE HandleError \/ HandleKeepAliveAlarm
  <2>1. stage # "none" /\ Ends("connectionFailed") /\ connectOnResume' = FALSE
    BY <1>2, <1>10 DEF HandleError, HandleKeepAliveAlarm, HasProxy, Disconnect, EveryStageIsTimed
  <2>2. Balance'
    BY <1>4, <1>5, <2>1
  <2> QED
    BY <2>2 DEF Balance, Kept
<1>11. CASE HandshakeComplete
  <2>1. /\ stage # "none" /\ stage' # "none" /\ queue' = Append(queue, "connected")
        /\ UNCHANGED <<phase, resumption, restarts, suspends>>
    BY <1>11 DEF HandshakeComplete
  <2>2. Pending(queue') = Pending(queue)
    BY <1>1, <2>1, EventsAreStrings, PendingAppended DEF One, Asking
  <2> QED
    BY <1>1, <2>1, <2>2 DEF Open, Starting, ToMake, One, resumption
<1>12. CASE HandleSuspend
  <2>1. /\ stage' = "none" /\ queue' = Append(queue, "disconnected")
        /\ connectOnResume' = HasProxy /\ suspends' = suspends + 1
        /\ UNCHANGED <<Starting, restarts>>
    BY <1>12 DEF HandleSuspend, CleanUp, Starting
  <2>2. Pending(queue') = Pending(queue) + 1
    BY <1>1, <1>5, <2>1, EventsAreStrings, PendingAppended DEF One
  <2>3. ToMake' =< Open /\ Open' = 0 /\ ToMake' \in Nat
    <3>1. CASE HasProxy
      BY <2>1, <3>1 DEF HasProxy, Open, ToMake, One
    <3>2. CASE ~HasProxy
      <4>1. connectOnResume' = FALSE
        BY <2>1, <3>2
      <4> QED
        BY <2>1, <4>1 DEF Open, ToMake, One
    <3> QED
      BY <3>1, <3>2
  <2> QED
    BY <1>1, <2>1, <2>2, <2>3 DEF One
<1>13. CASE HandleResume
  <2>1. UNCHANGED <<Starting, restarts, suspends>>
    BY <1>13 DEF HandleResume, Starting
  <2>2. CASE connectOnResume /\ connectOnResume' = FALSE /\ Attempt(queue)
    <3>1. Open' + Pending(queue') =< Open + Pending(queue) + 1
      BY <1>1, <2>2, AttemptCosts
    <3>2. Pending(queue') \in Nat
      <4>1. queue' = queue \/ queue' = Append(queue, "connectionFailed")
        BY <2>2 DEF Attempt
      <4>2. queue' \in Seq(Events)
        BY <1>1, <4>1, EventsAreStrings
      <4> QED
        BY <4>2, PendingIsNumber
    <3> QED
      BY <1>1, <1>3, <2>1, <2>2, <3>1, <3>2 DEF ToMake, One
  <2>3. CASE UNCHANGED <<connection, connectOnResume, queue>>
    BY <1>1, <2>1, <2>3 DEF Open, ToMake, One, connection
  <2> QED
    BY <1>13, <2>2, <2>3 DEF HandleResume
<1> QED
  BY <1>6, <1>7, <1>8, <1>9, <1>10, <1>11, <1>12, <1>13 DEF Client, Proxy

LEMMA StepBalance == Balanced /\ [Next]_vars => Balanced'
<1> SUFFICES ASSUME Balanced, [Next]_vars PROVE Balanced'
  OBVIOUS
<1>1. Inv'
  BY StepInv DEF Balanced
<1>2. ASSUME UNCHANGED vars PROVE Balance'
  BY <1>2 DEF Balanced, Balance, Kept, Open, Starting, ToMake, vars, connection, resumption
<1>3. ASSUME Next PROVE Balance'
  BY <1>3, ApplicationBalance, ConnectionBalance DEF Next
<1> QED
  BY <1>1, <1>2, <1>3 DEF Balanced

\* There are never more restart timers than one and the suspends there have
\* been: only handleSuspend posts an event without giving up a connection, and
\* every other handler trades what may lead to a restart one for one.
THEOREM RestartsStayCounted == Spec => []RestartsAreCounted
<1>1. Init => Balanced
  BY InitInv, InitBalance DEF Balanced
<1>2. Balanced => RestartsAreCounted
  <2> SUFFICES ASSUME Balanced PROVE RestartsAreCounted
    OBVIOUS
  <2>1. /\ restarts \in Nat /\ suspends \in Nat /\ Open \in Nat /\ Pending(queue) \in Nat
        /\ Starting \in Nat /\ ToMake \in Nat
        /\ Kept + Open + Pending(queue) =< 1 + suspends
    BY Numbers DEF Balanced, Inv, IInv, Balance
  <2> QED
    BY <2>1 DEF RestartsAreCounted, Kept
<1> QED
  BY <1>1, <1>2, StepBalance, PTL DEF Spec

=============================================================================
