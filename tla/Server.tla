------------------------------- MODULE Server -------------------------------
(***************************************************************************)
(* CServer: which screens are connected, which one has the cursor, and how *)
(* the cursor moves among them.  One action per event handler; the event   *)
(* loop runs one handler at a time, and the events themselves (pointer     *)
(* motion, hotkeys, the screen saver, clients coming and going, timers,    *)
(* reloads) come in any order.                                             *)
(*                                                                         *)
(* Pixel positions are left out: motion either keeps the cursor on the     *)
(* active screen or pushes it over an edge.  Dereferencing a client proxy  *)
(* that has been deleted, failing an assert and a search that never        *)
(* returns set "fault", after which nothing is said about the program.     *)
(* Drag and drop is off (m_enableDragDrop is FALSE).                       *)
(***************************************************************************)
EXTENDS ScreenLayout

CONSTANTS
    Proxy,           \* client proxies, one per connection that is adopted
    Primary,         \* the primary client (the server's own screen)
    NoScreen,        \* the NULL pointer
    RawNameOf,       \* the name each client announced
    PrimaryName,
    Configurations,  \* the configuration files a reload may find
    Feature,         \* what the environment does in a run
    SaverExclusive,  \* no input arrives while the screen saver runs
    MaxSeq           \* bound on m_seqNum

Screen == Proxy \cup {Primary}

ASSUME ServerAssumption ==
    /\ Primary \notin Proxy
    /\ NoScreen \notin Screen
    /\ RawNameOf \in [Proxy -> RawName]
    /\ PrimaryName \in Name
    /\ Configurations \subseteq Configuration
    /\ \A c \in Configurations : c.canon[PrimaryName] \in {PrimaryName, NoName}
    /\ Feature \subseteq {"hotkey", "saver", "lock", "reload", "reconnect",
                          "stop", "drag", "leavefails", "corner", "overshoot"}
    /\ SaverExclusive \in BOOLEAN
    /\ MaxSeq \in Nat

VARIABLES
    proxy,       \* what has become of each proxy object
    clients,     \* m_clients: canonical name to client
    clientSet,   \* m_clientSet
    oldClients,  \* the keys of m_oldClients; each has its 5 s timer running
    active,      \* m_active
    activeSaver, \* m_activeSaver
    gate,        \* m_switchScreen and the fields that go with it
    seqNum,      \* m_seqNum
    entered,     \* CScreen::m_entered; for a client, what it was told last
    locked,      \* m_lockedToScreen
    config,      \* m_config
    options,     \* the options processOptions remembered
    saverOn,     \* the primary's screen saver runs
    phase,       \* ServerApp: running, closing (nested loop), deleted
    noClients,   \* forCServer().disconnected() is queued for closeServer
    fault

G == INSTANCE SwitchGate WITH Edges <- Direction

objects == <<proxy, clients, clientSet, oldClients>>
cursor  == <<active, gate, seqNum, entered>>
setup   == <<locked, config, options>>
server  == <<phase, noClients>>
vars    == <<objects, cursor, setup, server, activeSaver, saverOn, fault>>

-----------------------------------------------------------------------------
Exists(s) == s = Primary \/ (s \in Proxy /\ proxy[s] = "open")

ConnectedNames == {n \in Name : clients[n] # NoScreen}

\* CServer::getName
NameOf(s) == IF s = Primary THEN PrimaryName ELSE NameNow(config, RawNameOf[s])

IsLockedToScreen(dragging) == locked \/ dragging

InputAllowed == phase # "deleted" /\ (SaverExclusive => ~saverOn)

NoFault == fault = "none"

\* The program does something undefined, or stops: no more is known of it.
Fail(why) ==
    /\ fault' = why
    /\ UNCHANGED <<objects, cursor, setup, server, activeSaver, saverOn>>

Optional(feature) == IF feature \in Feature THEN BOOLEAN ELSE {FALSE}

\* processOptions: an option that the file does not mention stays as it was.
Setting(presence, old) == IF presence = "absent" THEN old ELSE presence = "on"

ProcessOptions(c, old) ==
    [wait     |-> Setting(c.delay, old.wait),
     tap      |-> Setting(c.doubleTap, old.tap),
     relative |-> Setting(c.relative, old.relative),
     modifier |-> c.modifier]

NoOptions == [wait |-> FALSE, tap |-> FALSE, relative |-> FALSE,
              modifier |-> FALSE]

Init ==
    /\ proxy = [p \in Proxy |-> "fresh"]
    /\ clients = [n \in Name |-> IF n = PrimaryName THEN Primary ELSE NoScreen]
    /\ clientSet = {Primary}
    /\ oldClients = {}
    /\ active = Primary
    /\ activeSaver = NoScreen
    /\ gate = G!Idle
    /\ seqNum = 0
    /\ entered = [s \in Screen |-> s = Primary]
    /\ locked \in BOOLEAN       \* scroll lock may be on
    /\ config \in {c \in Configurations : IsScreen(c, PrimaryName)}
    /\ options = ProcessOptions(config, NoOptions)
    /\ saverOn = FALSE
    /\ phase = "running"
    /\ noClients = FALSE
    /\ fault = "none"

-----------------------------------------------------------------------------
(***************************************************************************)
(* switchScreen: leave the active screen, enter dst.  g is the gate at the *)
(* call, refusesToLeave what CScreen::leave answers on the primary.        *)
(***************************************************************************)
EntersAndLeaves(dst) ==
    /\ active = Primary => entered[Primary]
    /\ dst = Primary => ~entered[Primary]

SwitchScreen(dst, g, refusesToLeave) ==
    \/ /\ Exists(dst) /\ Exists(active)
       /\ gate' = G!StopSwitch(g)
       /\ UNCHANGED fault
       /\ \/ /\ \/ dst = active
                \/ active = Primary /\ entered[Primary] /\ refusesToLeave
             /\ UNCHANGED <<active, seqNum, entered>>
          \/ /\ dst # active
             /\ ~(active = Primary /\ refusesToLeave)
             /\ EntersAndLeaves(dst)
             /\ seqNum < MaxSeq
             /\ active' = dst
             /\ seqNum' = seqNum + 1
             /\ entered' = [entered EXCEPT ![active] = FALSE, ![dst] = TRUE]
    \/ /\ Exists(dst) /\ Exists(active) /\ dst # active
       /\ ~EntersAndLeaves(dst)
       /\ fault' = "assert" /\ UNCHANGED cursor
    \/ /\ ~(Exists(dst) /\ Exists(active))
       /\ fault' = "deleted" /\ UNCHANGED cursor

(***************************************************************************)
(* Pointer motion.  Motion that keeps the cursor on the active screen is   *)
(* told apart by the edge it ends at and by whether it may arm a double    *)
(* tap; motion across an edge by the edge, the lane and how far it goes.   *)
(***************************************************************************)
\* onMouseMovePrimary without leaving the screen: "still on local screen".
MoveOnPrimary(inner) ==
    /\ InputAllowed /\ active = Primary
    /\ gate' = G!NoSwitch(gate, inner)
    /\ UNCHANGED <<objects, active, seqNum, entered, setup, server,
                   activeSaver, saverOn, fault>>

\* A relative move, which says nothing about where the cursor is.
IgnoresMotion == active # Primary /\ options.relative /\ locked

\* onMouseMoveSecondary, the cursor still on the screen, at the border e or
\* none.  For the bottom the test that it left the border is always true.
ClearsWait(e) ==
    /\ gate.screen # NoScreen
    /\ gate.dir = "kBottom" \/ e # gate.dir

MoveOnSecondary(e, inner) ==
    /\ InputAllowed /\ active # Primary /\ ~IgnoresMotion
    /\ \/ /\ Exists(active)
          /\ gate' = IF ClearsWait(e) THEN G!NoSwitch(gate, inner) ELSE gate
          /\ UNCHANGED <<objects, active, seqNum, entered, setup, server,
                         activeSaver, saverOn, fault>>
       \/ ~Exists(active) /\ Fail("deleted")

\* getNeighbor and mapToNeighbor from the active screen.
SearchFails(dir, lane) ==
    SearchHangs(config, <<NameOf(active), lane>>, dir, ConnectedNames)

LandingFails(dir, lane, overshoots) ==
    LandingHangs(config, <<NameOf(active), lane>>, dir, ConnectedNames,
                 overshoots)

MapToNeighbor(dir, lane, overshoots) ==
    LET cell == LandingCell(config, <<NameOf(active), lane>>, dir,
                            ConnectedNames, overshoots)
    IN  IF cell = NoCell THEN NoScreen ELSE clients[cell[1]]

\* onMouseMovePrimary and onMouseMoveSecondary over an edge of the screen.
CrossEdge(dir, lane, overshoots, push, refusesToLeave) ==
    LET dst == MapToNeighbor(dir, lane, overshoots)
        try == G!IsSwitchOkay(gate, dir, dst, options, push)
    IN  \/ ~Exists(active) /\ Fail("deleted")
        \/ /\ Exists(active) /\ NameOf(active) \notin Name
           /\ gate' = G!StopSwitch(gate)
           /\ UNCHANGED <<objects, active, seqNum, entered, setup, server,
                          activeSaver, saverOn, fault>>
        \/ /\ Exists(active) /\ NameOf(active) \in Name
           /\ \/ LandingFails(dir, lane, overshoots) /\ Fail("hang")
              \/ /\ ~LandingFails(dir, lane, overshoots) /\ try.ok
                 /\ SwitchScreen(dst, try.gate, refusesToLeave)
                 /\ UNCHANGED <<objects, setup, server, activeSaver, saverOn>>
              \/ /\ ~LandingFails(dir, lane, overshoots) /\ ~try.ok
                 /\ gate' = try.gate
                 /\ UNCHANGED <<objects, active, seqNum, entered, setup,
                                server, activeSaver, saverOn, fault>>

Motion ==
    \/ \E inner \in BOOLEAN : MoveOnPrimary(inner)
    \/ \E e \in Direction \cup {"none"}, inner \in BOOLEAN :
           MoveOnSecondary(e, inner)
    \/ /\ InputAllowed /\ ~IgnoresMotion
       /\ \E dir \in Direction, lane \in Lane,
             far \in Optional("overshoot"), fails \in Optional("leavefails"),
             corner \in Optional("corner"), drag \in Optional("drag"),
             modifier \in BOOLEAN :
             CrossEdge(dir, lane, far,
                       [corner |-> corner, locked |-> IsLockedToScreen(drag),
                        modifier |-> modifier], fails)

\* Mutant: the timeout does not look at the lock again.
TimeoutIgnoresLock(dragging, refusesToLeave) ==
    /\ phase # "deleted"
    /\ gate.wait
    /\ SwitchScreen(gate.screen, gate, refusesToLeave)
    /\ UNCHANGED <<objects, setup, server, activeSaver, saverOn>>

\* handleSwitchWaitTimeout: the one-shot timer of startSwitchWait fires.
SwitchWaitTimeout(dragging, refusesToLeave) ==
    /\ phase # "deleted"
    /\ gate.wait
    /\ IF IsLockedToScreen(dragging)
       THEN /\ gate' = G!StopSwitch(gate)
            /\ UNCHANGED <<active, seqNum, entered, fault>>
       ELSE SwitchScreen(gate.screen, gate, refusesToLeave)
    /\ UNCHANGED <<objects, setup, server, activeSaver, saverOn>>

\* The stopwatch of the double tap passes its limit.
DoubleTapExpires ==
    /\ gate.tap # "off" /\ ~gate.late
    /\ gate' = [gate EXCEPT !.late = TRUE]
    /\ UNCHANGED <<objects, active, seqNum, entered, setup, server,
                   activeSaver, saverOn, fault>>

-----------------------------------------------------------------------------
(***************************************************************************)
(* Hotkeys, the lock and the screen saver.                                 *)
(***************************************************************************)
\* handleSwitchToScreenEvent
SwitchToScreen(n, refusesToLeave) ==
    /\ "hotkey" \in Feature /\ InputAllowed
    /\ clients[n] # NoScreen
    /\ SwitchScreen(clients[n], gate, refusesToLeave)
    /\ UNCHANGED <<objects, setup, server, activeSaver, saverOn>>

\* handleSwitchInDirectionEvent
SwitchInDirection(dir, lane, refusesToLeave) ==
    LET cell == NeighborCell(config, <<NameOf(active), lane>>, dir,
                             ConnectedNames)
    IN  /\ "hotkey" \in Feature /\ InputAllowed
        /\ \/ ~Exists(active) /\ Fail("deleted")
           \/ /\ Exists(active) /\ NameOf(active) \in Name
              /\ \/ SearchFails(dir, lane) /\ Fail("hang")
                 \/ /\ ~SearchFails(dir, lane) /\ cell # NoCell
                    /\ SwitchScreen(clients[cell[1]], gate, refusesToLeave)
                    /\ UNCHANGED <<objects, setup, server, activeSaver,
                                   saverOn>>

\* handleLockCursorToScreenEvent, toggling; on and off are the same step.
LockCursorToScreen ==
    /\ "lock" \in Feature /\ InputAllowed
    /\ locked' = ~locked
    /\ UNCHANGED <<objects, cursor, config, options, server,
                   activeSaver, saverOn, fault>>

\* screensaver(activated) to every client: each of them must still exist.
RelayToAll == \A n \in ConnectedNames : Exists(clients[n])

\* Mutant: the screen saver leaves the cursor where it is.
NoJumpForSaver == UNCHANGED <<cursor, fault>>

\* "jump to primary screen"
JumpForSaver ==
    IF active = Primary THEN UNCHANGED <<cursor, fault>>
    ELSE SwitchScreen(Primary, gate, FALSE)

\* onScreensaver(true)
ScreensaverActivated ==
    /\ "saver" \in Feature /\ phase # "deleted" /\ ~saverOn
    /\ saverOn' = TRUE
    /\ activeSaver' = active
    /\ \/ RelayToAll /\ JumpForSaver
       \/ ~RelayToAll /\ fault' = "deleted" /\ UNCHANGED cursor
    /\ UNCHANGED <<objects, setup, server>>

\* onScreensaver(false)
ScreensaverDeactivated(refusesToLeave) ==
    /\ "saver" \in Feature /\ phase # "deleted" /\ saverOn
    /\ saverOn' = FALSE
    /\ activeSaver' = NoScreen
    /\ \/ /\ RelayToAll
          /\ IF activeSaver \in {NoScreen, Primary} THEN UNCHANGED <<cursor, fault>>
             ELSE SwitchScreen(activeSaver, gate, refusesToLeave)
       \/ ~RelayToAll /\ fault' = "deleted" /\ UNCHANGED cursor
    /\ UNCHANGED <<objects, setup, server>>

-----------------------------------------------------------------------------
(***************************************************************************)
(* Clients coming and going.                                               *)
(***************************************************************************)
\* Mutant: m_clients keeps the name.
StillListed(names) == clients

\* removeClient, for the clients in gone: the name is looked up in the
\* configuration there is now.
Unlisted(names) ==
    [n \in Name |-> IF n \in names THEN NoScreen ELSE clients[n]]

RemoveClients(gone, c) ==
    /\ clientSet' = clientSet \ gone
    /\ clients' = Unlisted({NameNow(c, RawNameOf[p]) : p \in gone \cap clientSet})

\* forceLeaveClient, for the clients in gone: whoever had the cursor (before
\* the screen saver, if that runs) loses it to the primary screen.
Holder == IF activeSaver # NoScreen THEN activeSaver ELSE active

GateAfterLeave(gone) ==
    IF Holder \in gone /\ gate.screen = Holder THEN G!StopSwitch(gate) ELSE gate

\* Mutant: the primary is not entered when a client goes.
NeverEntersPrimary(gone) == FALSE

\* The primary is entered, unless it already was for the screen saver.
EntersPrimary(gone) == Holder \in gone /\ activeSaver = NoScreen

\* Mutant: no cut over to the primary.
ActiveStays(gone) == active

\* Mutant: any client that goes brings the cursor home.
AnyoneBringsHome(gone) == IF gone # {} THEN Primary ELSE active

ActiveAfterLeave(gone) == IF Holder \in gone THEN Primary ELSE active

ForceLeave(gone) ==
    /\ activeSaver' = IF activeSaver \in gone THEN NoScreen ELSE activeSaver
    /\ active' = ActiveAfterLeave(gone)
    /\ entered' = IF EntersPrimary(gone)
                  THEN [entered EXCEPT ![Primary] = TRUE] ELSE entered
    /\ fault' = IF EntersPrimary(gone) /\ entered[Primary] THEN "assert" ELSE fault
    /\ UNCHANGED seqNum

\* closeClient: tell the client to go and give it five seconds.
CloseClients(gone, c) ==
    /\ RemoveClients(gone, c)
    /\ oldClients' = oldClients \cup gone
    /\ ForceLeave(gone)

\* adoptClient
AdoptClient(p) ==
    LET name == config.canon[RawNameOf[p]]
    IN  /\ phase = "running" /\ proxy[p] = "fresh"
        /\ proxy' = [proxy EXCEPT ![p] = "open"]
        /\ IF name = NoName \/ clients[name] # NoScreen
           THEN CloseClients({p}, config)     \* kMsgEUnknown, kMsgEBusy
           ELSE /\ clients' = [clients EXCEPT ![name] = p]
                /\ clientSet' = clientSet \cup {p}
                /\ UNCHANGED <<oldClients, active, seqNum, entered,
                               activeSaver, fault>>
        /\ UNCHANGED <<gate, setup, server, saverOn>>

\* Mutant: m_oldClients is looked at before the client is taken out of it.
AllGoneBefore ==
    /\ Cardinality({n \in Name : clients'[n] # NoScreen}) = 1
    /\ oldClients = {}

\* m_clients.size() == 1 && m_oldClients.empty(), once this step is done.
AllGone ==
    /\ Cardinality({n \in Name : clients'[n] # NoScreen}) = 1
    /\ oldClients' = {}

\* Only closeServer listens for the event.
Announce == noClients' = (noClients \/ (phase = "closing" /\ AllGone))

\* handleClientDisconnected: of an active or of an old client.
ClientDisconnected(p) ==
    /\ proxy[p] = "open"
    /\ IF phase = "deleted" THEN Fail("deleted")
       ELSE /\ proxy' = [proxy EXCEPT ![p] = "deleted"]
            /\ oldClients' = oldClients \ {p}
            /\ RemoveClients({p}, config)
            /\ IF p \in clientSet
               THEN ForceLeave({p}) /\ gate' = GateAfterLeave({p})
               ELSE UNCHANGED <<cursor, activeSaver, fault>>
            /\ Announce
            /\ UNCHANGED <<setup, phase, saverOn>>

\* Mutant: no timer for a client that never made it into m_clients.
TimeoutOfListed(p) ==
    /\ p \in oldClients /\ clients[NameOf(p)] = NoScreen
    /\ IF phase = "deleted" THEN Fail("deleted")
       ELSE /\ proxy' = [proxy EXCEPT ![p] = "deleted"]
            /\ oldClients' = oldClients \ {p}
            /\ UNCHANGED <<clients, clientSet, cursor, setup, phase,
                           activeSaver, saverOn, fault>>
            /\ Announce

\* handleClientCloseTimeout: the client took too long to disconnect.
ClientCloseTimeout(p) ==
    /\ p \in oldClients
    /\ IF phase = "deleted" THEN Fail("deleted")
       ELSE /\ proxy' = [proxy EXCEPT ![p] = "deleted"]
            /\ oldClients' = oldClients \ {p}
            /\ UNCHANGED <<clients, clientSet, cursor, setup, phase,
                           activeSaver, saverOn, fault>>
            /\ Announce

-----------------------------------------------------------------------------
(***************************************************************************)
(* Reloading the configuration, dropping all clients, closing the server.  *)
(***************************************************************************)
\* closeClients(c): the listed clients whose canonical name c does not have.
Dropped(c) ==
    {clients[n] : n \in {m \in ConnectedNames : ~IsCanonicalName(c, m)}}
        \ {Primary}

\* Mutant: a reload does not cancel what is pending.
GateSurvivesOptions(c, g) == g

GateAfterOptions(c, g) ==
    LET g1 == IF c.delay = "absent" THEN g ELSE G!StopSwitchWait(g)
    IN  IF c.doubleTap = "absent" THEN g1 ELSE G!StopSwitchTwoTap(g1)

\* A configuration without the primary screen is refused, but what was read
\* has already replaced the configuration object.
RefuseConfig(c) ==
    /\ ~IsScreen(c, PrimaryName)
    /\ config' = c
    /\ UNCHANGED <<objects, cursor, locked, options, server,
                   activeSaver, saverOn, fault>>

\* setConfig.  The configuration object has already been replaced when the
\* clients are closed.
SetConfig(c) ==
    /\ "reload" \in Feature /\ phase # "deleted"
    /\ c # config
    /\ \/ RefuseConfig(c)
       \/ /\ IsScreen(c, PrimaryName) /\ RelayToAll
          /\ CloseClients(Dropped(c), c)
          /\ gate' = GateAfterOptions(c, GateAfterLeave(Dropped(c)))
          /\ config' = c
          /\ options' = ProcessOptions(c, options)
          /\ UNCHANGED <<proxy, locked, server, saverOn>>
       \/ IsScreen(c, PrimaryName) /\ ~RelayToAll /\ Fail("deleted")

\* disconnect: close every secondary client, or say there is none.
Secondaries == {clients[n] : n \in ConnectedNames} \ {Primary}

Disconnect(next) ==
    /\ phase' = next
    /\ noClients' = \/ noClients
                    \/ next = "closing" /\ Secondaries = {} /\ oldClients = {}
    /\ CloseClients(Secondaries, config)
    /\ gate' = GateAfterLeave(Secondaries)
    /\ UNCHANGED <<proxy, setup, saverOn>>

\* ServerApp::forceReconnect
ForceReconnect ==
    /\ "reconnect" \in Feature /\ phase # "deleted"
    /\ IF RelayToAll THEN Disconnect(phase) ELSE Fail("deleted")

\* ServerApp::stopServer up to closeServer's own event loop; the listener is
\* gone by then, so no client is adopted any more.
StopServer ==
    /\ "stop" \in Feature /\ phase = "running"
    /\ IF RelayToAll THEN Disconnect("closing") ELSE Fail("deleted")

\* The nested loop ends, on the event or after three seconds, and ~CServer
\* runs.  Its loop over m_oldClients has no iterations.
DeleteServer ==
    /\ phase = "closing"
    /\ phase' = "deleted"
    /\ noClients' = FALSE
    /\ gate' = G!StopSwitch(gate)
    /\ entered' = [entered EXCEPT ![Primary] = TRUE]
    /\ clientSet' = clientSet \ {Primary}
    /\ clients' = Unlisted({PrimaryName})
    /\ UNCHANGED <<proxy, oldClients, active, seqNum, setup,
                   activeSaver, saverOn, fault>>

-----------------------------------------------------------------------------
HotKey ==
    \E fails \in Optional("leavefails") :
        \/ \E n \in Name : SwitchToScreen(n, fails)
        \/ \E dir \in Direction, lane \in Lane :
               SwitchInDirection(dir, lane, fails)

Timer ==
    \/ \E fails \in Optional("leavefails"), drag \in Optional("drag") :
           SwitchWaitTimeout(drag, fails)
    \/ DoubleTapExpires
    \/ \E p \in Proxy : ClientCloseTimeout(p)

Saver ==
    \/ ScreensaverActivated
    \/ \E fails \in Optional("leavefails") : ScreensaverDeactivated(fails)

Connection == \E p \in Proxy : AdoptClient(p) \/ ClientDisconnected(p)

Control ==
    \/ LockCursorToScreen
    \/ \E c \in Configurations : SetConfig(c)
    \/ ForceReconnect \/ StopServer \/ DeleteServer

Next == NoFault /\ (Motion \/ HotKey \/ Timer \/ Saver \/ Connection \/ Control)

Spec == Init /\ [][Next]_vars

\* The event loop goes on delivering timers.
FairSpec ==
    /\ Spec
    /\ \A p \in Proxy : WF_vars(NoFault /\ ClientCloseTimeout(p))
    /\ WF_vars(NoFault /\ DeleteServer)
-----------------------------------------------------------------------------
TypeOK ==
    /\ proxy \in [Proxy -> {"fresh", "open", "deleted"}]
    /\ clients \in [Name -> Screen \cup {NoScreen}]
    /\ clientSet \in SUBSET Screen
    /\ oldClients \in SUBSET Proxy
    /\ active \in Screen
    /\ activeSaver \in Screen \cup {NoScreen}
    /\ gate \in G!Gate
    /\ seqNum \in 0 .. MaxSeq
    /\ entered \in [Screen -> BOOLEAN]
    /\ locked \in BOOLEAN
    /\ config \in Configurations
    /\ options \in G!GateOptions
    /\ saverOn \in BOOLEAN
    /\ phase \in {"running", "closing", "deleted"}
    /\ noClients \in BOOLEAN
    /\ fault \in {"none", "deleted", "assert", "hang"}

\* While there is a server, the screen with the cursor is one of the connected
\* ones: a client that disconnects, is replaced, dropped from the
\* configuration or closed never stays m_active.
ActiveIsConnected == phase # "deleted" => active \in clientSet

\* Exactly the active screen is entered: the primary grabs the input iff a
\* client has the cursor, and no two connected clients were told to enter
\* without one of them having been told to leave.
OneScreenEntered ==
    phase # "deleted" => \A s \in clientSet : entered[s] <=> s = active

\* m_clients and m_clientSet list the same clients, so that a name never
\* leads to a client that is closing or deleted.
IndexesAgree ==
    phase # "deleted" => {clients[n] : n \in ConnectedNames} = clientSet

\* A switch that waits for the delay or for a second tap has a target, and
\* the option that makes it wait is still on: a reload that turns it off
\* forgets what was pending.
GateFollowsOptions ==
    /\ gate.wait => gate.screen # NoScreen /\ options.wait
    /\ gate.tap # "off" => gate.screen # NoScreen /\ options.tap

\* While there is a server no handler touches a client proxy that was deleted.
NoUseAfterDelete == phase # "deleted" => fault # "deleted"

\* Server.cpp:606-609: "if the destination is the source then we can make no
\* more progress in this direction.  since we haven't found a connected
\* neighbor we return NULL."  Only the end of the links makes it return.
SearchEnds == fault # "hang"

\* CScreen is never entered twice in a row, or left when it was not entered.
AssertionsHold == fault # "assert"

\* While the screen saver runs the cursor is on the primary screen, whatever
\* clients come and go, so that the saver is seen and the input ends it.
SaverHasPrimary == saverOn => active = Primary

\* Besides the types: no handler fails an assert of CScreen, and the screen
\* saver has the cursor at home, whatever happens to the screens it left.
StateFits == TypeOK /\ AssertionsHold /\ SaverHasPrimary

\* closeServer is told when there is nothing left to wait for, however the
\* last client went.
CloseIsAnnounced ==
    phase = "closing" /\ Secondaries = {} /\ oldClients = {} => noClients

\* A locked cursor stays where it is, also when the switch was already
\* pending when the lock came: only the loss of the screen and the screen
\* saver move it (and hotkeys, which are outside the lock).
LockHolds ==
    [][locked /\ active' # active
           => active \notin clientSet' \/ saverOn' # saverOn]_vars

\* What the cursor properties rest on, as an inductive invariant: the two
\* indexes mirror each other, what they list exists, and only a screen that
\* is listed is active or saved for after the screen saver.
ListedExist ==
    /\ Primary \in clientSet
    /\ \A s \in clientSet \ {Primary} : proxy[s] = "open"
    /\ \A p \in oldClients : proxy[p] = "open" /\ p \notin clientSet

IndexesMirror ==
    /\ clients[PrimaryName] = Primary
    /\ \A n \in Name :
           clients[n] \notin {NoScreen, Primary}
               => clients[n] \in clientSet /\ RawNameOf[clients[n]] = n
    /\ \A s \in clientSet \ {Primary} :
           RawNameOf[s] \in Name /\ clients[RawNameOf[s]] = s

EnteredFollowsActive ==
    /\ active \in clientSet
    /\ \A s \in clientSet : entered[s] <=> s = active
    /\ \A p \in Proxy : proxy[p] = "fresh" => ~entered[p]

SaverAtHome ==
    /\ activeSaver \in clientSet \cup {NoScreen}
    /\ activeSaver # NoScreen => saverOn
    /\ saverOn => active = Primary

CursorParts ==
    /\ ListedExist /\ IndexesMirror
    /\ EnteredFollowsActive /\ SaverAtHome
    /\ ~gate.wait /\ ~options.wait
    /\ fault \notin {"deleted", "assert"}

CursorInv == phase # "deleted" => CursorParts

\* Every client that was told to go is deleted in the end, whether it
\* answers or not, as long as the server runs.
ClosedClientsGo ==
    \A p \in Proxy :
        p \in oldClients
            ~> p \notin oldClients \/ phase = "deleted" \/ fault # "none"

\* What the rest says about the cursor, abstractly: see CursorOwner.
Cursor == INSTANCE CursorOwner WITH
              screens <- clientSet \cup {Primary}, owner <- active
CursorSpec == Cursor!Spec
=============================================================================
