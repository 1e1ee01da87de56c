------------------------------ MODULE ClientLife ------------------------------
(***************************************************************************)
(* The client program: CClientApp, which starts the client and starts it   *)
(* again, CClient, which connects, and of CServerProxy the handshake and   *)
(* the alarm that tells that the server has gone silent.  Everything       *)
(* happens in the main thread, one event after the other.                  *)
(*                                                                         *)
(* The socket's events, the messages and the system's suspend and resume   *)
(* may be handled at any moment between two events; the queue holds what   *)
(* the client posts for its application.  A timer fires only when nothing  *)
(* is queued (EventQueue.cpp:202).  The screen's display is there from the *)
(* start or the program does not get into its loop.                        *)
(***************************************************************************)
EXTENDS Naturals, Sequences

CONSTANTS
    MaxSuspends,    \* bound: suspends
    MaxErrors       \* bound: screen errors and quits by the user

ASSUME ClientAssumption == MaxSuspends \in Nat /\ MaxErrors \in Nat

VARIABLES
    restartable,    \* --restart
    phase,          \* "boot", "loop", and how it ended: "done", "failed", "crashed"
    stage,          \* m_stream and m_server: how far the connection is
    peer,           \* whether the server at the other end still answers
    timer,          \* m_timer, CClient's limit for connecting
    heartbeat,      \* m_keepAliveAlarm > 0: the server has promised keep-alives
    alarm,          \* m_keepAliveAlarmTimer
    ready,          \* m_ready: the screen is enabled
    suspended, connectOnResume,     \* m_suspended, m_connectOnResume
    restarts,       \* restart timers of the application that are set
    queue,          \* events for the application, and kQuit
    suspends, errors    \* the counts the bounds are for

connection == <<stage, peer, timer, heartbeat, alarm, ready>>
resumption == <<suspended, connectOnResume>>
vars == <<restartable, phase, connection, resumption, restarts, queue, suspends, errors>>

Loop == phase = "loop"

Init ==
    /\ restartable \in BOOLEAN /\ phase = "boot"
    /\ stage = "none" /\ peer = "alive" /\ timer = FALSE /\ ready = FALSE
    /\ heartbeat = FALSE /\ alarm = FALSE
    /\ suspended = FALSE /\ connectOnResume = FALSE
    /\ restarts = 0 /\ queue = <<>> /\ suspends = 0 /\ errors = 0

-----------------------------------------------------------------------------
(***************************************************************************)
(* CClient::connect, with q queued; and what ends a connection: cleanup    *)
(* of the timer, the screen and the stream.                                *)
(***************************************************************************)
Attempt(q) ==
    \/ stage # "none" /\ queue' = q /\ UNCHANGED connection
    \/ /\ stage = "none" /\ stage' = "connecting" /\ timer' = TRUE /\ peer' = "alive"
       /\ queue' = q /\ UNCHANGED <<heartbeat, alarm, ready>>
    \/ stage = "none" /\ queue' = Append(q, "connectionFailed") /\ UNCHANGED connection

ConnectAnyway(q) == Attempt(q) /\ UNCHANGED connectOnResume

Connect(q) ==
    \/ ~(suspended /\ stage = "none") /\ Attempt(q) /\ UNCHANGED connectOnResume
    \/ /\ suspended /\ stage = "none"
       /\ connectOnResume' = TRUE /\ queue' = q /\ UNCHANGED connection

\* resetKeepAliveAlarm: a rate of zero or less leaves no alarm
SetKeepAliveRate(positive) == heartbeat' = positive /\ alarm' = positive

CleanUp ==
    /\ stage' = "none" /\ timer' = FALSE /\ ready' = FALSE
    /\ SetKeepAliveRate(FALSE)
    /\ UNCHANGED peer

\* cleanup in a handler that tells the application
Ends(event) ==
    /\ CleanUp /\ queue' = Append(queue, event)
    /\ UNCHANGED <<restartable, phase, suspended, restarts, suspends, errors>>

-----------------------------------------------------------------------------
(***************************************************************************)
(* The application.                                                        *)
(***************************************************************************)
\* startNode and mainLoop up to its loop: the plug-ins are given the event
\* target of the screen, whether there is a screen or not
Boot ==
    /\ phase = "boot"
    /\ \/ phase' = "loop" /\ Connect(queue)
       \/ phase' \in {"failed"} \union {p \in {"crashed"} : restartable}
          /\ UNCHANGED <<connection, connectOnResume, queue>>
    /\ UNCHANGED <<restartable, suspended, restarts, suspends, errors>>

HandleClientRestart ==
    /\ Loop /\ restarts > 0 /\ queue = <<>>
    /\ restarts' = restarts - 1
    /\ Connect(queue)
    /\ UNCHANGED <<restartable, phase, suspended, suspends, errors>>

Dispatch(event) == Loop /\ queue # <<>> /\ Head(queue) = event

HandleClientConnected ==
    /\ Dispatch("connected") /\ queue' = Tail(queue)
    /\ UNCHANGED <<restartable, phase, connection, resumption, restarts, suspends, errors>>

HandleClientFailed ==
    /\ Dispatch("connectionFailed")
    /\ IF restartable
       THEN restarts' = restarts + 1 /\ queue' = Tail(queue)
       ELSE queue' = Append(Tail(queue), "kQuit") /\ UNCHANGED restarts
    /\ UNCHANGED <<restartable, phase, connection, resumption, suspends, errors>>

DisconnectedQuietly ==
    /\ Dispatch("disconnected") /\ queue' = Tail(queue)
    /\ UNCHANGED <<restartable, phase, connection, resumption, restarts, suspends, errors>>

HandleClientDisconnected ==
    /\ Dispatch("disconnected")
    /\ \/ restartable /\ Connect(Tail(queue))
       \/ /\ ~restartable /\ queue' = Append(Tail(queue), "kQuit")
          /\ UNCHANGED <<connection, connectOnResume>>
    /\ UNCHANGED <<restartable, phase, suspended, restarts, suspends, errors>>

HandleScreenError ==    \* and the user's quit
    /\ Loop /\ errors < MaxErrors /\ errors' = errors + 1
    /\ queue' = Append(queue, "kQuit")
    /\ UNCHANGED <<restartable, phase, connection, resumption, restarts, suspends>>

\* the loop ends and stopClient deletes the client
StopClient ==
    /\ Dispatch("kQuit") /\ phase' = "done" /\ queue' = Tail(queue)
    /\ CleanUp
    /\ UNCHANGED <<restartable, resumption, restarts, suspends, errors>>

-----------------------------------------------------------------------------
(***************************************************************************)
(* The socket and the connect timer.                                       *)
(***************************************************************************)
Answers == Loop /\ peer = "alive"

HandleConnected ==
    /\ Answers /\ stage = "connecting" /\ stage' = "hello"
    /\ UNCHANGED <<restartable, phase, peer, timer, heartbeat, alarm, ready, resumption,
                   restarts, queue, suspends, errors>>

FailsWithTimer ==
    /\ Loop /\ stage = "connecting" /\ stage' = "none" /\ queue' = Append(queue, "connectionFailed")
    /\ UNCHANGED <<restartable, phase, peer, timer, heartbeat, alarm, ready, resumption,
                   restarts, suspends, errors>>

HandleConnectionFailed ==
    /\ Loop /\ stage = "connecting"
    /\ Ends("connectionFailed") /\ UNCHANGED connectOnResume

HandleConnectTimeout ==
    /\ Loop /\ timer /\ queue = <<>>
    /\ Ends("connectionFailed") /\ UNCHANGED connectOnResume

\* a hello that is understood makes the proxy, which sets the usual rate
HandleHello ==
    /\ Answers /\ stage = "hello" /\ stage' = "handshake"
    /\ timer' = FALSE /\ SetKeepAliveRate(TRUE)
    /\ UNCHANGED <<restartable, phase, peer, ready, resumption, restarts, queue, suspends, errors>>

HandleBadHello ==
    /\ Answers /\ stage = "hello"
    /\ Ends("connectionFailed") /\ UNCHANGED connectOnResume

\* disconnected, inputShutdown, outputShutdown, outputError
HandleDisconnected ==
    /\ Loop /\ stage \in {"hello", "handshake", "ready"}
    /\ Ends("disconnected") /\ UNCHANGED connectOnResume

\* the machine or the network of the server goes, and nobody is told
PeerVanishes ==
    /\ Answers /\ stage # "none" /\ peer' = "silent"
    /\ UNCHANGED <<restartable, phase, stage, timer, heartbeat, alarm, ready, resumption,
                   restarts, queue, suspends, errors>>

-----------------------------------------------------------------------------
(***************************************************************************)
(* The proxy.  A keep-alive renews the alarm, if the rate in force asks    *)
(* for one: it is set before and after or neither.  The options that end   *)
(* the handshake, and those of a server that loads another configuration,  *)
(* may set any rate, or none of theirs; a rate of 0 takes the alarm away.  *)
(***************************************************************************)
HasProxy == stage \in {"handshake", "ready"}

Disconnect(event) == Ends(event) /\ connectOnResume' = FALSE

HandshakeComplete ==
    /\ Answers /\ stage = "handshake"
    /\ stage' = "ready" /\ ready' = TRUE /\ queue' = Append(queue, "connected")
    /\ \E positive \in BOOLEAN : SetKeepAliveRate(positive)
    /\ UNCHANGED <<restartable, phase, peer, timer, resumption, restarts, suspends, errors>>

NewRate(positive) ==
    /\ SetKeepAliveRate(positive)
    /\ UNCHANGED <<restartable, phase, stage, peer, timer, ready, resumption, restarts,
                   queue, suspends, errors>>

SetOptions == Answers /\ stage = "ready" /\ \E positive \in BOOLEAN : NewRate(positive)
ResetOptions == Answers /\ HasProxy /\ NewRate(TRUE)

\* the server says goodbye, or it refuses or makes a mistake
HandleClose == Answers /\ HasProxy /\ Disconnect("disconnected")
HandleError == Answers /\ HasProxy /\ Disconnect("connectionFailed")

HandleKeepAliveAlarm ==
    /\ Loop /\ alarm /\ queue = <<>>
    /\ Disconnect("connectionFailed")

-----------------------------------------------------------------------------
(***************************************************************************)
(* Suspend and resume.                                                     *)
(***************************************************************************)

HandleSuspend ==
    /\ Loop /\ suspends < MaxSuspends /\ suspends' = suspends + 1
    /\ suspended' = TRUE /\ connectOnResume' = HasProxy
    /\ CleanUp /\ queue' = Append(queue, "disconnected")
    /\ UNCHANGED <<restartable, phase, restarts, errors>>

HandleResume ==
    /\ Loop /\ suspended' = FALSE
    /\ \/ connectOnResume /\ connectOnResume' = FALSE /\ Attempt(queue)
       \/ ~connectOnResume /\ UNCHANGED <<connection, connectOnResume, queue>>
    /\ UNCHANGED <<restartable, phase, restarts, suspends, errors>>

Application == Boot \/ HandleClientRestart \/ HandleClientConnected \/ HandleClientFailed
               \/ HandleClientDisconnected \/ HandleScreenError \/ StopClient
Client == HandleConnected \/ HandleConnectionFailed \/ HandleConnectTimeout \/ HandleHello
          \/ HandleBadHello \/ HandleDisconnected \/ HandleSuspend \/ HandleResume
Proxy == HandshakeComplete \/ SetOptions \/ ResetOptions \/ HandleClose \/ HandleError \/ HandleKeepAliveAlarm
Next == Application \/ Client \/ Proxy \/ PeerVanishes

Spec == Init /\ [][Next]_vars

Dials == (HandleClientRestart \/ HandleClientDisconnected) /\ stage' = "connecting"

\* The main thread takes the next event, and timers fire: the alarm if the
\* server is silent, for an answer renews it.  The network is one in which
\* names that are looked up again and again are found, and a server that is
\* asked again and again answers.  Nobody has to resume.
FairSpec ==
    /\ Spec
    /\ WF_vars(HandleClientRestart) /\ WF_vars(HandleClientConnected)
    /\ WF_vars(HandleClientFailed) /\ WF_vars(HandleClientDisconnected) /\ WF_vars(StopClient)
    /\ WF_vars(HandleConnectTimeout) /\ WF_vars(HandleKeepAliveAlarm /\ peer = "silent")
    /\ SF_vars(Dials) /\ SF_vars(HandleConnected)
    /\ SF_vars(HandleHello) /\ SF_vars(HandshakeComplete)

-----------------------------------------------------------------------------
Stages == {"none", "connecting", "hello", "handshake", "ready"}
Events == {"connected", "connectionFailed", "disconnected", "kQuit"}

\* The type invariant.
TypeOK ==
    /\ {restartable, timer, heartbeat, alarm, ready, suspended, connectOnResume} \subseteq BOOLEAN
    /\ phase \in {"boot", "loop", "done", "failed", "crashed"}
    /\ stage \in Stages /\ peer \in {"alive", "silent"}
    /\ restarts \in Nat /\ queue \in Seq(Events)
    /\ suspends \in 0..MaxSuspends /\ errors \in 0..MaxErrors

\* What setupTimer, setupScreen and their callers rely on: a connection has
\* the one timer that ends it when nothing comes from its first attempt to the
\* end of its handshake, and then for as long as the server has not asked for
\* no heartbeat, and none is left when there is no connection; the screen is
\* enabled only by a server that has finished its handshake.
EveryStageIsTimed ==
    /\ timer <=> stage \in {"connecting", "hello"}
    /\ alarm <=> stage = "handshake" \/ (stage = "ready" /\ heartbeat)
    /\ ready <=> stage = "ready"

\* A suspended client has no connection, whatever is queued for its
\* application and however many restart timers were set before.
SuspendedIsAlone == suspended => stage = "none"

\* A client that is to be restarted is never forgotten: when it has no
\* connection, an event or a timer is on its way to connect it, or resume is.
OnItsWay(q) == \E i \in 1..Len(q) : q[i] # "connected"
NeverForgotten ==
    Loop /\ restartable /\ stage = "none" =>
        \/ OnItsWay(queue)
        \/ restarts > 0
        \/ suspended /\ connectOnResume

\* The restart timers are kept nowhere, so that a suspend adds one to those
\* that are set and connect as often as they like; no other way does.
RestartsAreCounted == restarts =< 1 + suspends

\* A client that may restart is connected again and again, through failures,
\* silence and resumed suspends, and to a server that answers: only one that
\* asked for no heartbeat can go silent and never be missed.
ComesBack ==
    []<>(\/ stage = "ready" /\ (peer = "alive" \/ ~heartbeat)
         \/ suspended \/ ~Loop \/ ~restartable)

\* Types, timers, suspension and restarts fit the stage of the connection.
ClientFits == TypeOK /\ EveryStageIsTimed /\ SuspendedIsAlone /\ NeverForgotten
=============================================================================
