------------------------------ MODULE ServerLife ------------------------------
(***************************************************************************)
(* CServerApp: how the server program comes up, is suspended, resumed,     *)
(* reset and stopped.  Everything happens in the main thread, one event    *)
(* after the other; but to stop a server is to run the event loop again,   *)
(* inside the handler, until the clients are gone or three seconds are     *)
(* over, and every other handler may run in there.                         *)
(*                                                                         *)
(* What comes from outside (clients, the system's suspend and resume, the  *)
(* menu of the Windows server, the user's quit) may be handled at any      *)
(* moment between two events; the queue holds what the program itself      *)
(* posted: that a server has no clients, and kQuit.  The server is its     *)
(* number and its clients; Server.tla has the rest of it.                  *)
(***************************************************************************)
EXTENDS Naturals, Sequences

CONSTANTS
    MaxClients,     \* bound: connections in all
    MaxFailures,    \* bound: addresses in use, screens that fail
    MaxChanges,     \* bound: suspends, resumes and menu commands
    MaxErrors       \* bound: screen errors and quits by the user

ASSUME LifeAssumption ==
    {MaxClients, MaxFailures, MaxChanges, MaxErrors} \subseteq Nat

VARIABLES
    platform, restartable,  \* the build, and --restart
    phase,          \* "boot", "loop", and how it ended: "done", "failed", "crashed", "closed twice"
    app,            \* m_serverState, m_timer, m_server, m_listener, m_serverScreen
    suspended,      \* m_suspended
    server,         \* the last CServer: its number, its clients, the ones it is closing
    closing,        \* who called the stopServer that is in its nested loop, or "no"
    patience,       \* closeServer's timer is set
    queue,          \* events
    wasReset,       \* the server was reset since the suspend
    gaveUp,         \* the last attempt to start failed for good, and nobody was told
    arrivals, failures, changes, errors     \* the counts the bounds are for

platformVars == <<platform, restartable>>
counts == <<arrivals, failures, changes, errors>>
vars == <<platformVars, phase, app, suspended, server, closing, patience,
          queue, wasReset, gaveUp, counts>>

States == {"kUninitialized", "kInitializingToStart", "kInitialized", "kStarting", "kStarted"}
Nothing == [state |-> "kUninitialized", timer |-> FALSE, server |-> FALSE,
            listener |-> FALSE, screen |-> FALSE]
Quit == [type |-> "kQuit", of |-> 0]
NoClients(s) == [type |-> "disconnected", of |-> s.number]

Init ==
    /\ platform \in {"x11", "windows"} /\ restartable \in BOOLEAN
    /\ phase = "boot" /\ app = Nothing /\ suspended = FALSE
    /\ server = [number |-> 0, clients |-> 0, leaving |-> 0]
    /\ closing = "no" /\ patience = FALSE /\ queue = <<>>
    /\ wasReset = FALSE /\ gaveUp = FALSE
    /\ arrivals = 0 /\ failures = 0 /\ changes = 0 /\ errors = 0

Loop == phase = "loop"
Closing == closing # "no"

-----------------------------------------------------------------------------
(***************************************************************************)
(* initServer and startServer: what they may return, and with how many     *)
(* failures.  Only the X server can be unavailable for a while.            *)
(***************************************************************************)
Returned(a, ok, n) == [app |-> a, ok |-> ok, failures |-> n]

LaterWithoutTimer(a, state, when) ==
    {Returned([a EXCEPT !.state = state], TRUE, 1) : yes \in {TRUE} \cap {when /\ restartable}}

Later(a, state, when) ==    \* try again: a timer is set
    {Returned([a EXCEPT !.state = state, !.timer = TRUE], TRUE, 1) : yes \in {TRUE} \cap {when /\ restartable}}

InitServer(a) ==
    IF a.state # "kUninitialized" THEN {Returned(a, TRUE, 0)} ELSE
    {Returned([a EXCEPT !.state = "kInitialized", !.screen = TRUE], TRUE, 0), Returned(a, FALSE, 1)}
    \union Later(a, "kInitializingToStart", platform = "x11")

Listen(a) ==
    {Returned([a EXCEPT !.state = "kStarted", !.listener = TRUE, !.server = TRUE], TRUE, 0),
     Returned(a, FALSE, 1)}
    \union Later(a, "kStarting", TRUE)

StartServer(a) ==
    IF a.state \in {"kStarting", "kStarted"} THEN {Returned(a, TRUE, 0)} ELSE
    LET ready == {r \in InitServer(a) : r.app.state = "kInitialized"}
    IN  (InitServer(a) \ ready) \union UNION {Listen(r.app) : r \in ready}

\* from a, startServer comes back with r
Started(a, r) ==
    /\ failures + r.failures =< MaxFailures
    /\ failures' = failures + r.failures
    /\ app' = r.app
    /\ server' = IF r.app.server /\ ~a.server
                 THEN [number |-> server.number + 1, clients |-> 0, leaving |-> 0] ELSE server

StopRetryTimer(a) == [a EXCEPT !.timer = FALSE]

\* startNode, and what mainLoop does until it is in the loop: the plug-ins
\* are given the event target of the screen, whether there is a screen or not
Boot ==
    /\ phase = "boot"
    /\ \E r \in StartServer(app) :
        /\ Started(app, r)
        /\ phase' = IF ~r.ok THEN "failed" ELSE IF ~r.app.screen THEN "crashed" ELSE "loop"
    /\ UNCHANGED <<platformVars, suspended, closing, patience, queue, wasReset, gaveUp, arrivals, changes, errors>>

-----------------------------------------------------------------------------
(***************************************************************************)
(* stopServer.  A server that has started is closed in a nested loop, and  *)
(* its caller goes on when that has ended (Closed).  A second stopServer   *)
(* in there would delete the listener again.                               *)
(***************************************************************************)
HasStarted == app.state = "kStarted"
NotStopped(a) == a
Stopped(a) ==
    IF a.state = "kStarting" THEN [StopRetryTimer(a) EXCEPT !.state = "kInitialized"] ELSE a
CleanUp(a) == [StopRetryTimer(a) EXCEPT !.state = "kUninitialized", !.screen = FALSE]

\* CServer::disconnect; q is what is queued
Disconnect(q) ==
    /\ server' = [server EXCEPT !.leaving = @ + server.clients, !.clients = 0]
    /\ queue' = IF server.clients + server.leaving = 0 THEN Append(q, NoClients(server)) ELSE q

CloseServer(caller, q) ==
    /\ HasStarted /\ ~Closing
    /\ app' = [app EXCEPT !.listener = FALSE]
    /\ Disconnect(q) /\ closing' = caller /\ patience' = TRUE
    /\ UNCHANGED <<phase, suspended, wasReset, gaveUp, failures>>

CloseTwice ==
    /\ HasStarted /\ Closing /\ phase' = "closed twice"
    /\ UNCHANGED <<app, suspended, server, closing, patience, queue, wasReset, gaveUp, failures>>

NeverTimesOut == FALSE /\ UNCHANGED vars

\* closeServer's timer, and its handler
CloseTimeout ==
    /\ Loop /\ patience /\ queue = <<>>
    /\ patience' = FALSE /\ queue' = <<Quit>>
    /\ UNCHANGED <<platformVars, phase, app, suspended, server, closing, wasReset, gaveUp, counts>>

-----------------------------------------------------------------------------
(***************************************************************************)
(* What the callers of stopServer do: at once, or when the server is       *)
(* closed.                                                                 *)
(***************************************************************************)
Suspended(a) ==     \* handleSuspend
    /\ app' = a /\ suspended' = TRUE /\ wasReset' = FALSE
    /\ UNCHANGED <<phase, server, gaveUp, failures>>

Restarted(a) ==     \* resetServer
    /\ \E r \in StartServer(CleanUp(a)) : Started(CleanUp(a), r) /\ gaveUp' = ~r.ok
    /\ wasReset' = TRUE /\ UNCHANGED <<phase, suspended>>

Ended(a) ==         \* mainLoop
    /\ app' = CleanUp(a) /\ phase' = "done"
    /\ UNCHANGED <<suspended, server, wasReset, gaveUp, failures>>

GoesOn(caller, a) ==
    \/ caller = "suspend" /\ Suspended(a)
    \/ caller = "reset" /\ Restarted(a)
    \/ caller = "end" /\ Ended(a)

Stop(caller, q) ==
    \/ CloseServer(caller, q)
    \/ CloseTwice
    \/ /\ ~HasStarted /\ GoesOn(caller, Stopped(app))
       /\ queue' = q /\ UNCHANGED <<closing, patience>>

HandleSuspend ==
    /\ Loop /\ ~suspended /\ platform = "windows" /\ app.screen
    /\ changes < MaxChanges /\ changes' = changes + 1
    /\ Stop("suspend", queue)
    /\ UNCHANGED <<platformVars, arrivals, errors>>

HandleResume ==
    /\ Loop /\ suspended /\ platform = "windows" /\ app.screen
    /\ \E r \in StartServer(app) : Started(app, r) /\ gaveUp' = ~r.ok
    /\ suspended' = FALSE
    /\ UNCHANGED <<platformVars, phase, closing, patience, queue, wasReset, arrivals, changes, errors>>

ResetServer ==
    /\ Loop /\ platform = "windows"
    /\ changes < MaxChanges /\ changes' = changes + 1
    /\ Stop("reset", queue)
    /\ UNCHANGED <<platformVars, arrivals, errors>>

-----------------------------------------------------------------------------
(***************************************************************************)
(* The loop.                                                               *)
(***************************************************************************)
\* the server has no clients: that is what the nested loop waits for
HandleDisconnected ==
    /\ Loop /\ queue # <<>> /\ Head(queue).type = "disconnected"
    /\ queue' = IF Closing /\ Head(queue).of = server.number
                THEN Append(Tail(queue), Quit) ELSE Tail(queue)
    /\ UNCHANGED <<platformVars, phase, app, suspended, server, closing, patience, wasReset, gaveUp, counts>>

\* kQuit ends the loop that reads it.  The nested one: stopServer and its
\* caller go on.  The outer one: the program stops its server
NestedLoopEnds ==
    /\ Loop /\ Closing /\ queue # <<>> /\ Head(queue) = Quit /\ queue' = Tail(queue)
    /\ GoesOn(closing, [app EXCEPT !.server = FALSE, !.state = "kInitialized"])
    /\ closing' = "no" /\ patience' = FALSE
    /\ UNCHANGED <<platformVars, arrivals, changes, errors>>

LoopEnds ==
    /\ Loop /\ ~Closing /\ queue # <<>> /\ Head(queue) = Quit
    /\ Stop("end", Tail(queue))
    /\ UNCHANGED <<platformVars, arrivals, changes, errors>>

RetryHandler ==
    /\ Loop /\ app.timer /\ queue = <<>>
    /\ LET again == [StopRetryTimer(app) EXCEPT !.state = "kInitialized"] IN
       \E r \in StartServer(again) :
          /\ Started(again, r)
          /\ queue' = IF r.ok THEN queue ELSE Append(queue, Quit)
    /\ UNCHANGED <<platformVars, phase, suspended, closing, patience, wasReset, gaveUp, arrivals, changes, errors>>

\* forceReconnect
ForceReconnect ==
    /\ Loop /\ platform = "windows" /\ app.server
    /\ changes < MaxChanges /\ changes' = changes + 1
    /\ Disconnect(queue)
    /\ UNCHANGED <<platformVars, phase, app, suspended, closing, patience, wasReset, gaveUp,
                   arrivals, failures, errors>>

\* a screen error posts kQuit; so does whoever wants the program to end
HandleScreenError ==
    /\ Loop /\ errors < MaxErrors /\ errors' = errors + 1
    /\ queue' = Append(queue, Quit)
    /\ UNCHANGED <<platformVars, phase, app, suspended, server, closing, patience, wasReset, gaveUp,
                   arrivals, failures, changes>>

HandleClientConnected ==
    /\ Loop /\ app.listener
    /\ arrivals < MaxClients /\ arrivals' = arrivals + 1
    /\ server' = [server EXCEPT !.clients = @ + 1]
    /\ UNCHANGED <<platformVars, phase, app, suspended, closing, patience, queue, wasReset, gaveUp,
                   failures, changes, errors>>

\* a client hangs up; one that was told to does, or its time is over
ClientGoes ==
    /\ Loop /\ app.server
    /\ \E kind \in {"clients", "leaving"} :
          server[kind] > 0 /\ server' = [server EXCEPT ![kind] = @ - 1]
    /\ queue' = IF server.clients + server.leaving = 1
                THEN Append(queue, NoClients(server)) ELSE queue
    /\ UNCHANGED <<platformVars, phase, app, suspended, closing, patience, wasReset, gaveUp, counts>>

Environment == HandleSuspend \/ HandleResume \/ ResetServer \/ ForceReconnect
               \/ HandleScreenError \/ HandleClientConnected \/ ClientGoes
Next == Boot \/ RetryHandler \/ CloseTimeout \/ HandleDisconnected
        \/ NestedLoopEnds \/ LoopEnds \/ Environment

Spec == Init /\ [][Next]_vars

\* The main thread takes the next event and timers fire; nothing says that a
\* client ever goes or that anybody resumes.
FairSpec ==
    /\ Spec /\ WF_vars(RetryHandler) /\ WF_vars(CloseTimeout)
    /\ WF_vars(HandleDisconnected) /\ WF_vars(NestedLoopEnds) /\ WF_vars(LoopEnds)

-----------------------------------------------------------------------------
\* The type invariant.
TypeOK ==
    /\ platform \in {"x11", "windows"}
    /\ {restartable, suspended, patience, wasReset, gaveUp} \subseteq BOOLEAN
    /\ phase \in {"boot", "loop", "done", "failed", "crashed", "closed twice"}
    /\ app \in [state : States, timer : BOOLEAN, server : BOOLEAN, listener : BOOLEAN, screen : BOOLEAN]
    /\ server \in [number : Nat, clients : Nat, leaving : Nat]
    /\ closing \in {"no", "suspend", "reset", "end"}
    /\ queue \in Seq([type : {"kQuit", "disconnected"}, of : Nat])
    /\ arrivals \in 0..MaxClients /\ failures \in 0..MaxFailures
    /\ changes \in 0..MaxChanges /\ errors \in 0..MaxErrors

\* What retryHandler, initServer, startServer, stopServer and cleanupServer
\* assert: the retry timer runs exactly in the states that wait for it, and
\* server, listener and screen exist exactly in the states that have them,
\* whatever is suspended, reset or failing, in the nested loop too.
AssertionsHold ==
    /\ app.timer <=> app.state \in {"kInitializingToStart", "kStarting"}
    /\ app.server <=> HasStarted
    /\ app.listener <=> HasStarted /\ ~Closing
    /\ app.screen <=> app.state \in {"kInitialized", "kStarting", "kStarted"}
    /\ Closing => HasStarted

\* A suspended server has no listener and does not try to get one: neither a
\* server that was there, nor a retry that was due, comes back before resume
\* or reset.
SuspendedDoesNotServe ==
    suspended /\ ~wasReset => ~HasStarted /\ ~app.timer

\* The nested loop of closeServer ends, though the clients may never go and
\* the event that says so may belong to an earlier time.
ClosingEnds == Closing ~> ~Closing \/ phase # "loop"

\* A server that runs serves again and again: an address in use is tried
\* again, a reset and a resume start it, unless they fail for good (gaveUp).
ServesAgain == []<>(HasStarted \/ suspended \/ gaveUp \/ phase # "loop")

\* mainLoop's comment on resetServer (ServerApp.cpp:783-784): users are given
\* the option to reset the state of the server; that does not end it.
ResetKeepsRunning == wasReset /\ phase = "done" /\ failures = 0 => errors > 0

\* Types, the assertions of CServerApp, and that a suspended server stays away.
PartsFit == TypeOK /\ AssertionsHold /\ SuspendedDoesNotServe
=============================================================================
