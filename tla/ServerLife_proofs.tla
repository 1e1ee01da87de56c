--------------------------- MODULE ServerLife_proofs ---------------------------
(***************************************************************************)
(* Proofs about the life of the server program: its parts exist exactly in *)
(* the states that have them, and a suspended server stays away, for any   *)
(* number of clients, failures, suspends and errors.                       *)
(*                                                                         *)
(* The invariant adds to the three parts of PartsFit what they rest on:    *)
(* nothing exists before the program has started.                          *)
(***************************************************************************)
EXTENDS ServerLife, TLAPS

NothingYet == phase = "boot" => app = Nothing /\ ~Closing /\ ~suspended

\* Only the X server is awaited (kInitializingToStart), and only before the
\* loop: a program that waits for it does not come to its loop, see Boot.
Up(a) == a.state # "kInitializingToStart" /\ (platform = "x11" => a.screen)
LoopIsUp ==
    Loop => /\ Up(app)
            /\ platform = "x11" => closing \in {"no", "end"}

Inv == PartsFit /\ NothingYet /\ LoopIsUp

\* What TypeOK and AssertionsHold say of the parts, for any value of them.
Parts == [state : States, timer : BOOLEAN, server : BOOLEAN, listener : BOOLEAN, screen : BOOLEAN]
Fits(a) ==
    /\ a \in Parts
    /\ a.timer <=> a.state \in {"kInitializingToStart", "kStarting"}
    /\ a.server <=> a.state = "kStarted"
    /\ a.listener <=> a.state = "kStarted"
    /\ a.screen <=> a.state \in {"kInitialized", "kStarting", "kStarted"}

-----------------------------------------------------------------------------
LEMMA ReturnedParts ==
    ASSUME NEW a, Fits(a), NEW r,
           r \in {Returned(a, TRUE, 0), Returned(a, FALSE, 1), Returned(a, TRUE, 1)}
    PROVE  Fits(r.app) /\ r.ok \in BOOLEAN /\ r.failures \in Nat
<1>1. r.app = a /\ r.failures \in Nat
  BY DEF Returned
<1>2. r.ok = TRUE \/ r.ok = FALSE
  BY DEF Returned
<1>3. r.ok \in BOOLEAN
  BY <1>2, Zenon
<1> QED
  BY <1>1, <1>3, Zenon

\* initServer leaves parts that fit, or finds the server initialized.
LEMMA InitServerFits ==
    ASSUME NEW a, Fits(a), NEW r \in InitServer(a)
    PROVE  Fits(r.app) /\ r.ok \in BOOLEAN /\ r.failures \in Nat
<1> DEFINE up == [a EXCEPT !.state = "kInitialized", !.screen = TRUE]
           later == [a EXCEPT !.state = "kInitializingToStart", !.timer = TRUE]
<1>1. \/ r \in {Returned(a, TRUE, 0), Returned(a, FALSE, 1)}
      \/ a.state = "kUninitialized" /\ r \in {Returned(up, TRUE, 0), Returned(later, TRUE, 1)}
  BY DEF InitServer, Later
<1>2. ASSUME a.state = "kUninitialized" PROVE Fits(up) /\ Fits(later)
  <2>1. a \in Parts
    BY DEF Fits
  <2>2. /\ up \in Parts /\ up.state = "kInitialized" /\ up.screen = TRUE
        /\ up.timer = a.timer /\ up.server = a.server /\ up.listener = a.listener
    BY <2>1 DEF Parts, States
  <2>3. /\ later \in Parts /\ later.state = "kInitializingToStart" /\ later.timer = TRUE
        /\ later.screen = a.screen /\ later.server = a.server /\ later.listener = a.listener
    BY <2>1 DEF Parts, States
  <2> HIDE DEF up, later
  <2>4. Fits(up)
    BY <1>2, <2>1, <2>2 DEF Fits
  <2>5. Fits(later)
    BY <1>2, <2>1, <2>3 DEF Fits
  <2> QED
    BY <2>4, <2>5
<1> HIDE DEF up, later
<1> QED
  BY <1>1, <1>2, ReturnedParts

\* What listening comes to, from an initialized server.
LEMMA ListenFits ==
    ASSUME NEW a, Fits(a), a.state = "kInitialized", NEW r \in Listen(a)
    PROVE  Fits(r.app) /\ r.ok \in BOOLEAN /\ r.failures \in Nat
<1> DEFINE up == [a EXCEPT !.state = "kStarted", !.listener = TRUE, !.server = TRUE]
           later == [a EXCEPT !.state = "kStarting", !.timer = TRUE]
<1>1. r \in {Returned(up, TRUE, 0), Returned(a, FALSE, 1), Returned(later, TRUE, 1)}
  BY DEF Listen, Later
<1>2. a \in Parts
  BY DEF Fits
<1>3. /\ up \in Parts /\ up.state = "kStarted" /\ up.listener = TRUE /\ up.server = TRUE
      /\ up.timer = a.timer /\ up.screen = a.screen
  BY <1>2 DEF Parts, States
<1>4. /\ later \in Parts /\ later.state = "kStarting" /\ later.timer = TRUE
      /\ later.screen = a.screen /\ later.server = a.server /\ later.listener = a.listener
  BY <1>2 DEF Parts, States
<1> HIDE DEF up, later
<1>5. Fits(up)
  BY <1>2, <1>3 DEF Fits
<1>6. Fits(later)
  BY <1>2, <1>4 DEF Fits
<1> QED
  BY <1>1, <1>5, <1>6, ReturnedParts

LEMMA StartServerFits ==
    ASSUME NEW a, Fits(a), NEW r \in StartServer(a)
    PROVE  Fits(r.app) /\ r.ok \in BOOLEAN /\ r.failures \in Nat
<1>1. CASE r = Returned(a, TRUE, 0)
  BY <1>1, ReturnedParts
<1>2. CASE r \in InitServer(a)
  BY <1>2, InitServerFits
<1>3. CASE \E i \in InitServer(a) : i.app.state = "kInitialized" /\ r \in Listen(i.app)
  BY <1>3, InitServerFits, ListenFits
<1> QED
  BY <1>1, <1>2, <1>3 DEF StartServer

\* startServer keeps the screen up.
LEMMA StartServerUp ==
    ASSUME platform \in {"x11", "windows"}, NEW a, Fits(a), Up(a), NEW r \in StartServer(a)
    PROVE  Up(r.app)
<1>1. a \in Parts
  BY DEF Fits
<1>2. ASSUME NEW i \in InitServer(a) PROVE Up(i.app)
  <2> DEFINE up == [a EXCEPT !.state = "kInitialized", !.screen = TRUE]
  <2>1. up.state = "kInitialized" /\ up.screen = TRUE
    BY <1>1 DEF Parts, States
  <2> HIDE DEF up
  <2>2. platform = "x11" => a.state # "kUninitialized"
    BY DEF Up, Fits
  <2>3. i \in {Returned(a, TRUE, 0), Returned(a, FALSE, 1), Returned(up, TRUE, 0)}
    BY <1>2, <2>2 DEF InitServer, Later, up
  <2>4. i.app = a \/ i.app = up
    BY <2>3 DEF Returned
  <2> QED
    BY <2>1, <2>4 DEF Up
<1>3. ASSUME NEW b, Fits(b), Up(b), b.state = "kInitialized", r \in Listen(b) PROVE Up(r.app)
  <2> DEFINE up == [b EXCEPT !.state = "kStarted", !.listener = TRUE, !.server = TRUE]
             later == [b EXCEPT !.state = "kStarting", !.timer = TRUE]
  <2>1. /\ up.state = "kStarted" /\ up.screen = b.screen
        /\ later.state = "kStarting" /\ later.screen = b.screen
    BY <1>3 DEF Fits, Parts, States
  <2> HIDE DEF up, later
  <2>2. r \in {Returned(up, TRUE, 0), Returned(b, FALSE, 1), Returned(later, TRUE, 1)}
    BY <1>3 DEF Listen, Later, up, later
  <2>3. r.app \in {up, b, later}
    BY <2>2 DEF Returned
  <2> QED
    BY <1>3, <2>1, <2>3 DEF Up
<1>4. CASE r = Returned(a, TRUE, 0)
  BY <1>4 DEF Returned
<1>5. CASE r \in InitServer(a)
  BY <1>2, <1>5
<1>6. CASE \E i \in InitServer(a) : i.app.state = "kInitialized" /\ r \in Listen(i.app)
  BY <1>2, <1>3, <1>6, InitServerFits
<1> QED
  BY <1>4, <1>5, <1>6 DEF StartServer

-----------------------------------------------------------------------------
\* The invariant in parts: the parts of the program, and the rest.
Posted == [type : {"kQuit", "disconnected"}, of : Nat]
Servers == [number : Nat, clients : Nat, leaving : Nat]
AppOK == app \in Parts /\ AssertionsHold
RestOK ==
    /\ platform \in {"x11", "windows"}
    /\ {restartable, suspended, patience, wasReset, gaveUp} \subseteq BOOLEAN
    /\ phase \in {"boot", "loop", "done", "failed", "crashed", "closed twice"}
    /\ server \in Servers /\ closing \in {"no", "suspend", "reset", "end"}
    /\ queue \in Seq(Posted)
    /\ arrivals \in 0..MaxClients /\ failures \in 0..MaxFailures
    /\ changes \in 0..MaxChanges /\ errors \in 0..MaxErrors

LEMMA InvInParts ==
    Inv <=> AppOK /\ RestOK /\ SuspendedDoesNotServe /\ NothingYet /\ LoopIsUp
BY DEF Inv, PartsFit, TypeOK, AppOK, RestOK, Parts, Servers, Posted

\* What AssertionsHold says outside the nested loop, and in it.
ClosingParts ==
    /\ app \in Parts /\ app.state = "kStarted"
    /\ ~app.timer /\ app.server /\ ~app.listener /\ app.screen

LEMMA AppFits == AppOK <=> (~Closing /\ Fits(app)) \/ (Closing /\ ClosingParts)
<1>1. CASE Closing
  BY <1>1 DEF AppOK, AssertionsHold, HasStarted, ClosingParts
<1>2. CASE ~Closing
  BY <1>2 DEF AppOK, AssertionsHold, HasStarted, Fits
<1> QED
  BY <1>1, <1>2

\* The same for the next state, where nothing is being closed.
LEMMA AppFitsNext == ~Closing' /\ Fits(app') => AppOK'
BY DEF AppOK, AssertionsHold, HasStarted, Fits, Closing

LEMMA ClosingFitsNext == Closing' /\ ClosingParts' => AppOK'
BY AppFits, PTL

LEMMA InvNext ==
    AppOK' /\ RestOK' /\ SuspendedDoesNotServe' /\ NothingYet' /\ LoopIsUp' => Inv'
BY InvInParts, PTL

\* The bounds are numbers.
LEMMA Bounds == {MaxClients, MaxFailures, MaxChanges, MaxErrors} \subseteq Nat
BY LifeAssumption

\* startServer's result becomes the program's.
LEMMA StartedFits ==
    ASSUME RestOK, NEW a, Fits(a), NEW r \in StartServer(a), Started(a, r)
    PROVE  Fits(app') /\ failures' \in 0..MaxFailures /\ server' \in Servers
           /\ (~r.ok) \in BOOLEAN /\ (Up(a) => Up(app'))
<1>0. Up(a) => Up(app')
  <2>1. platform \in {"x11", "windows"} /\ app' = r.app
    BY DEF RestOK, Started
  <2> QED
    BY <2>1, StartServerUp
<1>1. Fits(r.app) /\ r.ok \in BOOLEAN /\ r.failures \in Nat
  BY StartServerFits
<1>2. failures' \in 0..MaxFailures
  <2>1. MaxFailures \in Nat /\ failures \in 0..MaxFailures
    BY LifeAssumption DEF RestOK
  <2>2. failures + r.failures =< MaxFailures /\ failures' = failures + r.failures
    BY DEF Started
  <2> QED
    BY <1>1, <2>1, <2>2
<1>3. server' \in Servers
  <2>0. server \in Servers
    BY Zenon DEF RestOK
  <2>1. server.number + 1 \in Nat
    BY <2>0 DEF Servers
  <2>2. \/ server' = server
        \/ server' = [number |-> server.number + 1, clients |-> 0, leaving |-> 0]
    BY DEF Started
  <2> QED
    BY <2>0, <2>1, <2>2 DEF Servers
<1> QED
  BY <1>0, <1>1, <1>2, <1>3 DEF Started

\* What is left of the parts when the server was stopped or cleaned up.
LEMMA StoppedFits ==
    ASSUME Fits(app), ~HasStarted
    PROVE  /\ Fits(Stopped(app)) /\ Stopped(app).state # "kStarted"
           /\ app.screen => ~Stopped(app).timer
           /\ Up(app) => Up(Stopped(app))
<1>1. app \in Parts /\ app.state # "kStarted"
  BY DEF Fits, HasStarted
<1>2. CASE app.state = "kStarting"
  <2> DEFINE b == [[app EXCEPT !.timer = FALSE] EXCEPT !.state = "kInitialized"]
  <2>1. Stopped(app) = b
    BY <1>2 DEF Stopped, StopRetryTimer
  <2>2. /\ b \in Parts /\ b.state = "kInitialized" /\ b.timer = FALSE
        /\ b.screen = app.screen /\ b.server = app.server /\ b.listener = app.listener
    BY <1>1 DEF Parts, States
  <2> HIDE DEF b
  <2>3. Fits(b)
    BY <1>2, <2>2 DEF Fits
  <2> QED
    BY <2>1, <2>2, <2>3 DEF Up
<1>3. CASE app.state # "kStarting"
  BY <1>1, <1>3 DEF Stopped, Fits
<1> QED
  BY <1>2, <1>3

LEMMA CleanUpFits ==
    ASSUME NEW a \in Parts, ~a.server, ~a.listener
    PROVE  Fits(CleanUp(a))
<1> DEFINE b == CleanUp(a)
<1>1. /\ b \in Parts /\ b.state = "kUninitialized" /\ b.timer = FALSE /\ b.screen = FALSE
      /\ b.server = a.server /\ b.listener = a.listener
  BY DEF CleanUp, StopRetryTimer, Parts, States
<1> HIDE DEF b
<1>2. Fits(b)
  BY <1>1 DEF Fits
<1> QED
  BY <1>2 DEF b

-----------------------------------------------------------------------------
\* What the queue becomes keeps its type.
LEMMA Queues ==
    ASSUME NEW q \in Seq(Posted), server \in Servers
    PROVE  /\ Append(q, NoClients(server)) \in Seq(Posted)
           /\ Append(q, Quit) \in Seq(Posted) /\ <<Quit>> \in Seq(Posted)
           /\ q # <<>> => Tail(q) \in Seq(Posted)
<1>1. NoClients(server) \in Posted /\ Quit \in Posted
  BY DEF NoClients, Quit, Posted, Servers
<1> QED
  BY <1>1

LEMMA Disconnects ==
    ASSUME RestOK, NEW q \in Seq(Posted), Disconnect(q)
    PROVE  server' \in Servers /\ queue' \in Seq(Posted)
<1>1. server \in Servers
  BY Zenon DEF RestOK
<1>2. server' \in Servers
  <2>1. server' = [server EXCEPT !.leaving = @ + server.clients, !.clients = 0]
    BY Zenon DEF Disconnect
  <2>2. server.leaving + server.clients \in Nat
    BY <1>1 DEF Servers
  <2> QED
    BY <1>1, <2>1, <2>2 DEF Servers
<1>3. queue' = q \/ queue' = Append(q, NoClients(server))
  BY Zenon DEF Disconnect
<1> QED
  BY <1>1, <1>2, <1>3, Queues

\* Frame: what the callers of stopServer leave alone, but for the changes.
CallerFrame == UNCHANGED <<platformVars, arrivals, errors>> /\ changes' \in 0..MaxChanges

\* stopServer that starts to close the server, or deletes the listener again.
LEMMA StopCloses ==
    ASSUME Inv, Loop, NEW caller \in {"suspend", "reset", "end"}, NEW q \in Seq(Posted),
           CloseServer(caller, q) \/ CloseTwice, CallerFrame, platform = "x11" => caller = "end"
    PROVE  Inv'
<1>1. AppOK /\ RestOK /\ SuspendedDoesNotServe /\ HasStarted /\ LoopIsUp
  BY InvInParts DEF CloseServer, CloseTwice
<1>2. CASE CloseServer(caller, q)
  <2>1. server' \in Servers /\ queue' \in Seq(Posted)
    BY <1>1, <1>2, Disconnects DEF CloseServer
  <2>2. RestOK'
    BY <1>1, <1>2, <2>1 DEF RestOK, CloseServer, CallerFrame, platformVars
  <2>3. ClosingParts' /\ Closing'
    <3>1. Fits(app) /\ app \in Parts /\ app.state = "kStarted"
      BY <1>1, <1>2, AppFits DEF CloseServer, Fits, HasStarted
    <3>2. app' = [app EXCEPT !.listener = FALSE]
      BY <1>2 DEF CloseServer
    <3>3. /\ app' \in Parts /\ app'.state = app.state /\ app'.listener = FALSE
          /\ app'.timer = app.timer /\ app'.server = app.server /\ app'.screen = app.screen
      BY <3>1, <3>2 DEF Parts, States
    <3>4. ClosingParts'
      BY <3>1, <3>3 DEF ClosingParts, Fits
    <3>5. Closing'
      BY <1>2 DEF CloseServer, Closing
    <3> QED
      BY <3>4, <3>5
  <2>4. SuspendedDoesNotServe' /\ NothingYet'
    BY <1>1, <1>2 DEF CloseServer, SuspendedDoesNotServe, NothingYet, Loop
  <2>5. LoopIsUp'
    <3>1. Up(app')
      BY <2>3 DEF ClosingParts, Up
    <3> QED
      BY <1>2, <3>1 DEF LoopIsUp, Up, CloseServer, CallerFrame, platformVars
  <2> QED
    BY <2>2, <2>3, <2>4, <2>5, ClosingFitsNext, InvNext
<1>3. CASE CloseTwice
  <2>1. RestOK'
    BY <1>1, <1>3 DEF RestOK, CloseTwice, CallerFrame, platformVars
  <2>2. AppOK'
    BY <1>1, <1>3 DEF AppOK, AssertionsHold, HasStarted, Closing, CloseTwice
  <2>3. SuspendedDoesNotServe' /\ NothingYet' /\ LoopIsUp'
    BY <1>1, <1>3 DEF CloseTwice, SuspendedDoesNotServe, HasStarted, NothingYet, LoopIsUp, Loop
  <2> QED
    BY <2>1, <2>2, <2>3, InvNext
<1> QED
  BY <1>2, <1>3

\* handleSuspend goes on: the server is stopped, and no timer runs.
LEMMA Suspends ==
    ASSUME RestOK, Loop, NEW a, Fits(a), Up(a), a.state # "kStarted", ~a.timer,
           Suspended(a), ~Closing', closing' \in {"no", "suspend", "reset", "end"},
           patience' \in BOOLEAN, queue' \in Seq(Posted), CallerFrame
    PROVE  Inv'
<1>1. RestOK'
  BY DEF RestOK, Suspended, CallerFrame, platformVars
<1>2. Fits(app') /\ app' = a
  BY DEF Suspended
<1>3. SuspendedDoesNotServe' /\ NothingYet'
  BY <1>2 DEF SuspendedDoesNotServe, HasStarted, NothingYet, Loop, Suspended
<1>4. LoopIsUp'
  BY <1>2 DEF LoopIsUp, Up, Closing, CallerFrame, platformVars
<1> QED
  BY <1>1, <1>2, <1>3, <1>4, AppFitsNext, InvNext

\* resetServer goes on: it cleans up and starts again.
LEMMA Restarts ==
    ASSUME RestOK, Loop, platform = "windows", NEW a \in Parts, ~a.server, ~a.listener,
           Restarted(a), ~Closing', closing' \in {"no", "suspend", "reset", "end"},
           patience' \in BOOLEAN, queue' \in Seq(Posted), CallerFrame
    PROVE  Inv'
<1>1. PICK r \in StartServer(CleanUp(a)) : Started(CleanUp(a), r) /\ gaveUp' = ~r.ok
  BY DEF Restarted
<1>2. /\ Fits(app') /\ failures' \in 0..MaxFailures /\ server' \in Servers
      /\ gaveUp' \in BOOLEAN /\ Up(app')
  <2>1. Up(CleanUp(a))
    BY DEF Up, CleanUp, StopRetryTimer, Parts
  <2> QED
    BY <1>1, <2>1, CleanUpFits, StartedFits
<1>3. RestOK'
  BY <1>2 DEF RestOK, Restarted, CallerFrame, platformVars
<1>4. SuspendedDoesNotServe' /\ NothingYet'
  BY DEF SuspendedDoesNotServe, NothingYet, Loop, Restarted
<1>5. LoopIsUp'
  BY <1>2 DEF LoopIsUp, Up, Closing, CallerFrame, platformVars
<1> QED
  BY <1>2, <1>3, <1>4, <1>5, AppFitsNext, InvNext

\* mainLoop goes on: it cleans up, and the program ends.
LEMMA Ends ==
    ASSUME RestOK, SuspendedDoesNotServe, Loop, NEW a \in Parts, ~a.server, ~a.listener,
           Ended(a), ~Closing', closing' \in {"no", "suspend", "reset", "end"},
           patience' \in BOOLEAN, queue' \in Seq(Posted), CallerFrame
    PROVE  Inv'
<1>1. RestOK'
  BY DEF RestOK, Ended, CallerFrame, platformVars
<1>2. Fits(app') /\ app' = CleanUp(a)
  BY CleanUpFits DEF Ended
<1>3. ~app'.timer /\ app'.state = "kUninitialized"
  BY <1>2 DEF CleanUp, StopRetryTimer, Parts
<1>4. SuspendedDoesNotServe' /\ NothingYet' /\ LoopIsUp'
  BY <1>3 DEF SuspendedDoesNotServe, HasStarted, NothingYet, LoopIsUp, Loop, Ended
<1> QED
  BY <1>1, <1>2, <1>4, AppFitsNext, InvNext

-----------------------------------------------------------------------------
\* The steps.
LEMMA InitInv == Init => Inv
<1> SUFFICES ASSUME Init PROVE Inv
  OBVIOUS
<1>1. Fits(app) /\ ~Closing
  BY DEF Init, Nothing, Fits, Parts, States, Closing
<1>2. RestOK
  <2>1. MaxClients \in Nat /\ MaxFailures \in Nat /\ MaxChanges \in Nat /\ MaxErrors \in Nat
    BY Bounds
  <2>2. server \in Servers /\ queue \in Seq(Posted)
    BY DEF Init, Servers
  <2>3. {restartable, suspended, patience, wasReset, gaveUp} \subseteq BOOLEAN
    BY DEF Init
  <2>4. /\ arrivals \in 0..MaxClients /\ failures \in 0..MaxFailures
        /\ changes \in 0..MaxChanges /\ errors \in 0..MaxErrors
    BY <2>1 DEF Init
  <2> QED
    BY <2>2, <2>3, <2>4 DEF Init, RestOK
<1>3. SuspendedDoesNotServe /\ NothingYet /\ LoopIsUp
  BY <1>1 DEF Init, SuspendedDoesNotServe, NothingYet, LoopIsUp, Loop
<1> QED
  BY <1>1, <1>2, <1>3, AppFits, InvInParts

LEMMA BootStep == Inv /\ Boot => Inv'
<1> SUFFICES ASSUME Inv, Boot PROVE Inv'
  OBVIOUS
<1>1. RestOK /\ AppOK /\ ~Closing /\ ~suspended
  BY InvInParts DEF NothingYet, Boot
<1>2. PICK r \in StartServer(app) :
          /\ Started(app, r)
          /\ phase' = IF ~r.ok THEN "failed" ELSE IF ~r.app.screen THEN "crashed" ELSE "loop"
  BY DEF Boot
<1>3. Fits(app') /\ failures' \in 0..MaxFailures /\ server' \in Servers
  BY <1>1, <1>2, AppFits, StartedFits
<1>4. phase' \in {"failed", "crashed", "loop"}
  BY <1>2
<1>5. RestOK' /\ ~Closing' /\ SuspendedDoesNotServe' /\ NothingYet'
  BY <1>1, <1>3, <1>4 DEF RestOK, Boot, platformVars, Closing, SuspendedDoesNotServe, NothingYet
<1>6. LoopIsUp'
  <2>1. Loop' => app'.screen
    BY <1>2 DEF Started, Loop
  <2>2. app'.screen => app'.state # "kInitializingToStart"
    BY <1>3 DEF Fits
  <2> QED
    BY <1>5, <2>1, <2>2 DEF LoopIsUp, Up, Closing
<1> QED
  BY <1>3, <1>5, <1>6, AppFitsNext, InvNext

LEMMA HandleSuspendStep == Inv /\ HandleSuspend => Inv'
<1> SUFFICES ASSUME Inv, HandleSuspend PROVE Inv'
  OBVIOUS
<1>1. RestOK /\ AppOK /\ Loop /\ app.screen /\ platform = "windows" /\ Up(app)
  BY InvInParts DEF HandleSuspend, LoopIsUp
<1>2. CallerFrame /\ queue \in Seq(Posted)
  <2>1. changes \in 0..MaxChanges /\ MaxChanges \in Nat /\ queue \in Seq(Posted)
    BY <1>1, Bounds DEF RestOK
  <2>2. changes' \in 0..MaxChanges
    BY <2>1 DEF HandleSuspend
  <2> QED
    BY <2>1, <2>2 DEF HandleSuspend, CallerFrame
<1>3. CASE CloseServer("suspend", queue) \/ CloseTwice
  BY <1>1, <1>2, <1>3, StopCloses
<1>4. CASE ~HasStarted /\ Suspended(Stopped(app)) /\ queue' = queue /\ UNCHANGED <<closing, patience>>
  <2>1. ~Closing /\ Fits(app)
    BY <1>1, <1>4, AppFits DEF ClosingParts, HasStarted
  <2>2. /\ ~Closing' /\ closing' \in {"no", "suspend", "reset", "end"}
        /\ patience' \in BOOLEAN /\ queue' \in Seq(Posted)
    BY <1>1, <1>2, <1>4, <2>1 DEF RestOK, Closing
  <2> QED
    BY <1>1, <1>2, <1>4, <2>1, <2>2, StoppedFits, Suspends
<1> QED
  BY <1>3, <1>4 DEF HandleSuspend, Stop, GoesOn

LEMMA HandleResumeStep == Inv /\ HandleResume => Inv'
<1> SUFFICES ASSUME Inv, HandleResume PROVE Inv'
  OBVIOUS
<1>1. RestOK /\ AppOK /\ Loop /\ Up(app) /\ platform = "windows"
  BY InvInParts DEF HandleResume, LoopIsUp
<1>2. PICK r \in StartServer(app) : Started(app, r) /\ gaveUp' = ~r.ok
  BY DEF HandleResume
<1>3. /\ failures' \in 0..MaxFailures /\ server' \in Servers /\ gaveUp' \in BOOLEAN
      /\ ~Closing => Fits(app') /\ Up(app')
      /\ Closing => app' = app
  <2>1. CASE Closing
    <3>1. app.state = "kStarted" /\ app.server
      BY <1>1, <2>1, AppFits DEF ClosingParts
    <3>2. r = Returned(app, TRUE, 0)
      BY <1>2, <3>1 DEF StartServer
    <3>3. r.app = app /\ r.failures = 0 /\ r.ok = TRUE
      BY <3>2 DEF Returned
    <3>4. app' = app /\ server' = server /\ failures' = failures + 0 /\ gaveUp' = FALSE
      BY <1>2, <3>1, <3>3 DEF Started
    <3> QED
      <4>1. server \in Servers /\ failures \in 0..MaxFailures
        BY <1>1, Zenon DEF RestOK
      <4>2. failures + 0 = failures
        BY <4>1
      <4> QED
        BY <2>1, <3>4, <4>1, <4>2
  <2>2. CASE ~Closing
    BY <1>1, <1>2, <2>2, AppFits, StartedFits
  <2> QED
    BY <2>1, <2>2
<1>4. RestOK' /\ closing' = closing
  BY <1>1, <1>3 DEF RestOK, HandleResume, platformVars
<1>5. AppOK'
  <2>1. CASE Closing
    BY <1>1, <1>3, <1>4, <2>1 DEF AppOK, AssertionsHold, HasStarted, Closing
  <2>2. CASE ~Closing
    <3>1. Fits(app') /\ ~Closing'
      BY <1>3, <1>4, <2>2 DEF Closing
    <3> QED
      BY <3>1, AppFitsNext
  <2> QED
    BY <2>1, <2>2
<1>6. SuspendedDoesNotServe' /\ NothingYet'
  BY <1>1 DEF SuspendedDoesNotServe, NothingYet, HandleResume, Loop
<1>7. LoopIsUp'
  BY <1>1, <1>3 DEF LoopIsUp, Up, HandleResume, platformVars
<1> QED
  BY <1>4, <1>5, <1>6, <1>7, InvNext

LEMMA ResetServerStep == Inv /\ ResetServer => Inv'
<1> SUFFICES ASSUME Inv, ResetServer PROVE Inv'
  OBVIOUS
<1>1. RestOK /\ AppOK /\ Loop /\ platform = "windows"
  BY InvInParts DEF ResetServer
<1>2. CallerFrame /\ queue \in Seq(Posted)
  <2>1. changes \in 0..MaxChanges /\ MaxChanges \in Nat /\ queue \in Seq(Posted)
    BY <1>1, Bounds DEF RestOK
  <2>2. changes' \in 0..MaxChanges
    BY <2>1 DEF ResetServer
  <2> QED
    BY <2>1, <2>2 DEF ResetServer, CallerFrame
<1>3. CASE CloseServer("reset", queue) \/ CloseTwice
  BY <1>1, <1>2, <1>3, StopCloses
<1>4. CASE ~HasStarted /\ Restarted(Stopped(app)) /\ queue' = queue /\ UNCHANGED <<closing, patience>>
  <2>1. ~Closing /\ Fits(app)
    BY <1>1, <1>4, AppFits DEF ClosingParts, HasStarted
  <2>2. /\ ~Closing' /\ closing' \in {"no", "suspend", "reset", "end"}
        /\ patience' \in BOOLEAN /\ queue' \in Seq(Posted)
    BY <1>1, <1>2, <1>4, <2>1 DEF RestOK, Closing
  <2>3. Stopped(app) \in Parts /\ ~Stopped(app).server /\ ~Stopped(app).listener
    BY <1>4, <2>1, StoppedFits DEF Fits
  <2> QED
    BY <1>1, <1>2, <1>4, <2>2, <2>3, Restarts
<1> QED
  BY <1>3, <1>4 DEF ResetServer, Stop, GoesOn

LEMMA LoopEndsStep == Inv /\ LoopEnds => Inv'
<1> SUFFICES ASSUME Inv, LoopEnds PROVE Inv'
  OBVIOUS
<1>1. RestOK /\ AppOK /\ SuspendedDoesNotServe /\ Loop /\ ~Closing
  BY InvInParts DEF LoopEnds
<1>2. CallerFrame /\ Tail(queue) \in Seq(Posted)
  <2>1. changes \in 0..MaxChanges /\ queue \in Seq(Posted) /\ server \in Servers
    BY <1>1 DEF RestOK
  <2> QED
    BY <2>1, Queues DEF LoopEnds, CallerFrame
<1>3. CASE CloseServer("end", Tail(queue)) \/ CloseTwice
  BY <1>1, <1>2, <1>3, StopCloses
<1>4. CASE /\ ~HasStarted /\ Ended(Stopped(app)) /\ queue' = Tail(queue)
           /\ UNCHANGED <<closing, patience>>
  <2>1. Fits(app)
    BY <1>1, AppFits
  <2>2. /\ ~Closing' /\ closing' \in {"no", "suspend", "reset", "end"}
        /\ patience' \in BOOLEAN /\ queue' \in Seq(Posted)
    BY <1>1, <1>2, <1>4 DEF RestOK, Closing
  <2>3. Stopped(app) \in Parts /\ ~Stopped(app).server /\ ~Stopped(app).listener
    BY <1>4, <2>1, StoppedFits DEF Fits
  <2> QED
    BY <1>1, <1>2, <1>4, <2>2, <2>3, Ends
<1> QED
  BY <1>3, <1>4 DEF LoopEnds, Stop, GoesOn

\* The nested loop ends: the server is there no more, and its caller goes on.
LEMMA NestedLoopEndsStep == Inv /\ NestedLoopEnds => Inv'
<1> SUFFICES ASSUME Inv, NestedLoopEnds PROVE Inv'
  OBVIOUS
<1> DEFINE closed == [app EXCEPT !.server = FALSE, !.state = "kInitialized"]
<1>1. RestOK /\ AppOK /\ SuspendedDoesNotServe /\ Loop /\ Closing
  BY InvInParts DEF NestedLoopEnds, Closing
<1>2. CallerFrame /\ queue' \in Seq(Posted)
  <2>1. changes \in 0..MaxChanges /\ queue \in Seq(Posted) /\ server \in Servers
    BY <1>1 DEF RestOK
  <2> QED
    BY <2>1, Queues DEF NestedLoopEnds, GoesOn, CallerFrame, Suspended, Restarted, Ended
<1>3. ~Closing' /\ closing' \in {"no", "suspend", "reset", "end"} /\ patience' \in BOOLEAN
  BY DEF NestedLoopEnds, Closing
<1>4. /\ closed \in Parts /\ closed.state = "kInitialized" /\ closed.server = FALSE
      /\ closed.timer = app.timer /\ closed.listener = app.listener /\ closed.screen = app.screen
  BY <1>1, AppFits DEF ClosingParts, Parts, States
<1>5. \/ Suspended(closed)
      \/ platform = "windows" /\ Restarted(closed)
      \/ Ended(closed)
  <2>1. platform = "x11" => closing # "reset"
    BY <1>1, InvInParts DEF LoopIsUp
  <2>2. platform \in {"x11", "windows"}
    BY <1>1 DEF RestOK
  <2> QED
    BY <2>1, <2>2 DEF NestedLoopEnds, GoesOn
<1> HIDE DEF closed
<1>6. Fits(closed) /\ ~closed.timer /\ Up(closed)
  BY <1>1, <1>4, AppFits DEF ClosingParts, Fits, Up
<1>7. CASE Suspended(closed)
  BY <1>1, <1>2, <1>3, <1>4, <1>6, <1>7, Suspends
<1>8. CASE platform = "windows" /\ Restarted(closed)
  BY <1>1, <1>2, <1>3, <1>4, <1>6, <1>8, Restarts DEF Fits
<1>9. CASE Ended(closed)
  BY <1>1, <1>2, <1>3, <1>4, <1>6, <1>9, Ends DEF Fits
<1> QED
  BY <1>5, <1>7, <1>8, <1>9

\* The retry timer runs only in the states that wait for it, so that no server
\* is being closed, and none is suspended.
LEMMA RetryHandlerStep == Inv /\ RetryHandler => Inv'
<1> SUFFICES ASSUME Inv, RetryHandler PROVE Inv'
  OBVIOUS
<1> DEFINE again == [StopRetryTimer(app) EXCEPT !.state = "kInitialized"]
<1>1. RestOK /\ AppOK /\ SuspendedDoesNotServe /\ LoopIsUp /\ Loop /\ app.timer
  BY InvInParts DEF RetryHandler
<1>2. ~Closing /\ Fits(app)
  BY <1>1, AppFits DEF ClosingParts
<1>3. PICK r \in StartServer(again) :
          Started(again, r) /\ queue' = IF r.ok THEN queue ELSE Append(queue, Quit)
  BY DEF RetryHandler
<1>4. app \in Parts /\ app.state = "kStarting"
  BY <1>1, <1>2 DEF Fits, LoopIsUp, Up
<1>5. /\ again \in Parts /\ again.state = "kInitialized" /\ again.timer = FALSE
      /\ again.screen = app.screen /\ again.server = app.server /\ again.listener = app.listener
  BY <1>4 DEF StopRetryTimer, Parts, States
<1> HIDE DEF again
<1>6. Fits(again)
  BY <1>2, <1>4, <1>5 DEF Fits
<1>7. Fits(app') /\ failures' \in 0..MaxFailures /\ server' \in Servers
  BY <1>1, <1>3, <1>6, StartedFits
<1>8. queue' \in Seq(Posted)
  <2>1. queue \in Seq(Posted) /\ server \in Servers
    BY <1>1 DEF RestOK
  <2>2. queue' = queue \/ queue' = Append(queue, Quit)
    BY <1>3
  <2> QED
    BY <2>1, <2>2, Queues
<1>9. RestOK' /\ ~Closing'
  BY <1>1, <1>2, <1>7, <1>8 DEF RestOK, RetryHandler, platformVars, Closing
<1>10. SuspendedDoesNotServe' /\ NothingYet'
  BY <1>1 DEF RetryHandler, SuspendedDoesNotServe, NothingYet, Loop
<1>11. LoopIsUp'
  <2>1. Up(again)
    BY <1>2, <1>4, <1>5 DEF Up, Fits
  <2>2. Up(app')
    BY <1>1, <1>3, <1>6, <2>1, StartedFits
  <2> QED
    BY <1>1, <1>2, <2>2 DEF LoopIsUp, Up, RetryHandler, platformVars, Closing
<1> QED
  BY <1>7, <1>9, <1>10, <1>11, AppFitsNext, InvNext

\* What changes neither the parts nor the nested loop keeps the invariant.
LEMMA PartsStay ==
    ASSUME Inv, RestOK', UNCHANGED <<platformVars, phase, app, suspended, closing, wasReset>>
    PROVE  Inv'
<1>1. AppOK /\ SuspendedDoesNotServe /\ NothingYet /\ LoopIsUp
  BY InvInParts
<1>2. AppOK' /\ SuspendedDoesNotServe' /\ NothingYet' /\ LoopIsUp'
  BY <1>1 DEF AppOK, AssertionsHold, SuspendedDoesNotServe, NothingYet, LoopIsUp, Loop, Up,
              HasStarted, Closing, platformVars
<1> QED
  BY <1>2, InvNext

LEMMA QuietSteps ==
    ASSUME Inv, \/ CloseTimeout \/ HandleDisconnected \/ ForceReconnect \/ HandleScreenError
                \/ HandleClientConnected \/ ClientGoes
    PROVE  Inv'
<1>1. RestOK
  BY InvInParts
<1>2. server \in Servers /\ queue \in Seq(Posted)
  BY <1>1, Zenon DEF RestOK
<1>3. CASE CloseTimeout
  <2>1. RestOK'
    BY <1>1, <1>2, <1>3, Queues DEF RestOK, CloseTimeout, platformVars, counts
  <2> QED
    BY <1>3, <2>1, PartsStay DEF CloseTimeout
<1>4. CASE HandleDisconnected
  <2>1. Tail(queue) \in Seq(Posted)
    BY <1>2, <1>4, Queues DEF HandleDisconnected
  <2>2. queue' \in {Tail(queue), Append(Tail(queue), Quit)}
    BY <1>4 DEF HandleDisconnected
  <2>3. queue' \in Seq(Posted)
    BY <1>2, <2>1, <2>2, Queues
  <2>4. RestOK'
    BY <1>1, <1>4, <2>3 DEF RestOK, HandleDisconnected, platformVars, counts
  <2> QED
    BY <1>4, <2>4, PartsStay DEF HandleDisconnected
<1>5. CASE ForceReconnect
  <2>1. server' \in Servers /\ queue' \in Seq(Posted)
    BY <1>1, <1>2, <1>5, Disconnects DEF ForceReconnect
  <2>2. changes' \in 0..MaxChanges
    <3>1. changes \in 0..MaxChanges /\ MaxChanges \in Nat
      BY <1>1, Bounds DEF RestOK
    <3> QED
      BY <1>5, <3>1 DEF ForceReconnect
  <2>3. RestOK'
    BY <1>1, <1>5, <2>1, <2>2 DEF RestOK, ForceReconnect, platformVars
  <2> QED
    BY <1>5, <2>3, PartsStay DEF ForceReconnect
<1>6. CASE HandleScreenError
  <2>1. queue' \in Seq(Posted)
    BY <1>2, <1>6, Queues DEF HandleScreenError
  <2>2. errors' \in 0..MaxErrors
    <3>1. errors \in 0..MaxErrors /\ MaxErrors \in Nat
      BY <1>1, Bounds DEF RestOK
    <3> QED
      BY <1>6, <3>1 DEF HandleScreenError
  <2>3. RestOK'
    BY <1>1, <1>6, <2>1, <2>2 DEF RestOK, HandleScreenError, platformVars
  <2> QED
    BY <1>6, <2>3, PartsStay DEF HandleScreenError
<1>7. CASE HandleClientConnected
  <2>1. server' \in Servers
    BY <1>2, <1>7 DEF HandleClientConnected, Servers
  <2>2. arrivals' \in 0..MaxClients
    <3>1. arrivals \in 0..MaxClients /\ MaxClients \in Nat
      BY <1>1, Bounds DEF RestOK
    <3> QED
      BY <1>7, <3>1 DEF HandleClientConnected
  <2>3. RestOK'
    BY <1>1, <1>7, <2>1, <2>2 DEF RestOK, HandleClientConnected, platformVars
  <2> QED
    BY <1>7, <2>3, PartsStay DEF HandleClientConnected
<1>8. CASE ClientGoes
  <2>1. server' \in Servers
    BY <1>2, <1>8 DEF ClientGoes, Servers
  <2>2. queue' \in {queue, Append(queue, NoClients(server))}
    BY <1>8 DEF ClientGoes
  <2>3. queue' \in Seq(Posted)
    BY <1>2, <2>2, Queues
  <2>4. RestOK'
    BY <1>1, <1>8, <2>1, <2>3 DEF RestOK, ClientGoes, platformVars, counts
  <2> QED
    BY <1>8, <2>4, PartsStay DEF ClientGoes
<1> QED
  BY <1>3, <1>4, <1>5, <1>6, <1>7, <1>8

LEMMA StepInv == Inv /\ [Next]_vars => Inv'
<1> SUFFICES ASSUME Inv, [Next]_vars PROVE Inv'
  OBVIOUS
<1>1. CASE UNCHANGED vars
  <2>1. RestOK'
    BY <1>1, InvInParts DEF RestOK, vars, platformVars, counts
  <2> QED
    BY <1>1, <2>1, PartsStay DEF vars
<1> QED
  BY <1>1, QuietSteps, BootStep, RetryHandlerStep, NestedLoopEndsStep, LoopEndsStep,
     HandleSuspendStep, HandleResumeStep, ResetServerStep DEF Next, Environment

-----------------------------------------------------------------------------
\* The server program's parts fit its state whatever is suspended, resumed,
\* reset or stopped in whatever order, also in the nested loop that closes a
\* server: no assert of CServerApp fails, and a suspended server neither
\* listens nor tries to.
THEOREM PartsAlwaysFit == Spec => []PartsFit
<1>1. Inv => PartsFit
  BY DEF Inv
<1> QED
  BY InitInv, StepInv, <1>1, PTL DEF Spec

=============================================================================
