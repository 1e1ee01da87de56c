------------------------------ MODULE Admission ------------------------------
(***************************************************************************)
(* How a connection becomes a client: CClientListener accepts it, a        *)
(* CClientProxyUnknown shakes hands under a time limit and makes the       *)
(* CClientProxy, the listener queues the proxy until CServerApp takes it   *)
(* and CServer adopts it.  Everything happens in handlers of one event     *)
(* queue; an event reaches whoever has a handler for it when it is         *)
(* dispatched, not when it was posted.                                     *)
(*                                                                         *)
(* A connection is used once, and names the stream, the CClientProxyUnknown *)
(* and the CClientProxy made for it.                                       *)
(***************************************************************************)
EXTENDS Naturals, Sequences, FiniteSets

CONSTANTS
    Conn,          \* the connections
    MaxRestarts    \* bound on how often the server is started again

ASSUME AdmissionAssumption == IsFiniteSet(Conn) /\ MaxRestarts \in Nat

VARIABLES
    queue,       \* CEventQueue: the events posted, <<type, connection>>
    job,         \* who handles the events of a connection, by type
    timer,       \* the connections whose handshake has a time limit
    unknown,     \* CClientProxyUnknown: m_proxy # NULL, m_ready
    proxy,       \* the life of the CClientProxy
    newClients,  \* m_newClients
    waiting,     \* m_waitingClients
    adopted,     \* the proxies that belong to CServer
    closing,     \* m_oldClients: those of them that were told to go, with a time limit
    abandoned,   \* the proxies that a server had when it was deleted
    client,      \* the other end of the connection
    app,         \* CServerApp: serving, closing the server, stopped
    restarts,
    fault        \* an assert failed, or a deleted server was used

objects == <<job, timer, unknown, proxy>>
served  == <<adopted, closing, abandoned>>
owners  == <<newClients, waiting, served>>
process == <<app, restarts, fault>>
vars    == <<queue, objects, owners, client, process>>

\* "stream" is inputReady, inputShutdown, outputError and outputShutdown,
\* whose handlers come and go together.
Handled == {"stream", "ready", "disconnected", "success", "failure"}
Handler == {"none", "unknown", "proxy", "listener", "server"}
NoJobs == [type \in Handled |-> "none"]

\* A stream delivers the reply to hello, the reply to the query for the
\* screen's shape, or what ends it: a hang-up, a failed write, a message the
\* reader does not accept.
StreamEvent == {"hello", "info", "broken"}
EventType == StreamEvent \cup {"connecting", "ready", "disconnected",
                               "success", "failure", "connected"}
Event(type, c) == <<type, c>>
Pending(type, c) == \E i \in DOMAIN queue : queue[i] = Event(type, c)
Announcements == {i \in DOMAIN queue : queue[i][1] = "connected"}

Live(c) == proxy[c] \in {"handshake", "talking"}
Fault == {"none", "unlisted", "server deleted"}
Running == fault = "none"
Waiting == {waiting[i] : i \in DOMAIN waiting}
NoUnknown == [proxy |-> FALSE, ready |-> FALSE]

Init ==
    /\ queue = <<>>
    /\ job = [c \in Conn |-> NoJobs]
    /\ timer = {}
    /\ unknown = [c \in Conn |-> NoUnknown]
    /\ proxy = [c \in Conn |-> "none"]
    /\ newClients = {} /\ waiting = <<>>
    /\ adopted = {} /\ closing = {} /\ abandoned = {}
    /\ client = [c \in Conn |-> "away"]
    /\ app = "serving"
    /\ restarts = 0
    /\ fault = "none"

-----------------------------------------------------------------------------
(***************************************************************************)
(* The other end.  It answers what it was asked, and may go at any time.   *)
(***************************************************************************)
Sends(c, type, next) ==
    /\ Running
    /\ queue' = Append(queue, Event(type, c))
    /\ client' = [client EXCEPT ![c] = next]
    /\ UNCHANGED <<objects, owners, process>>

Connects(c) == client[c] = "away" /\ app = "serving" /\ Sends(c, "connecting", "connecting")
RepliesToHello(c) == client[c] = "greeted" /\ Sends(c, "hello", "replied")
SendsInfo(c) == client[c] = "queried" /\ Sends(c, "info", "informed")
Breaks(c) ==
    /\ client[c] \in {"greeted", "replied", "queried", "informed"}
    /\ Sends(c, "broken", "gone")

-----------------------------------------------------------------------------
(***************************************************************************)
(* The event queue.  An event without a handler is dropped.  Timers are    *)
(* looked at only while no event waits.  After a fault nothing is known.    *)
(***************************************************************************)
Dispatch(type, c) == Running /\ queue # <<>> /\ Head(queue) = Event(type, c)
Done == queue' = Tail(queue)
DoneAndPost(type, c) == queue' = Append(Tail(queue), Event(type, c))
Idle == Running /\ queue = <<>>
Post(type, c) == IF queue = <<>> THEN queue' = <<Event(type, c)>> ELSE DoneAndPost(type, c)

HandlerOf(type, c) == job[c][IF type \in StreamEvent THEN "stream" ELSE type]
Handles(who, type, c) == Dispatch(type, c) /\ HandlerOf(type, c) = who

Dropped(type, c) ==
    /\ type \in StreamEvent \cup Handled
    /\ Handles("none", type, c)
    /\ Done
    /\ UNCHANGED <<objects, owners, client, process>>

-----------------------------------------------------------------------------
(***************************************************************************)
(* CClientProxyUnknown.  sendFailure deletes the proxy and forgets it      *)
(* before it removes the handlers, so those on the proxy's events stay.    *)
(***************************************************************************)
ProxyDeleted(c) == IF unknown[c].proxy THEN [proxy EXCEPT ![c] = "deleted"] ELSE proxy

TellsOfHelloOnly(c) ==
    IF unknown[c].proxy THEN queue' = (IF queue = <<>> THEN queue ELSE Tail(queue))
    ELSE Post("failure", c)
TellsOfFailure(c) == Post("failure", c)

sendFailure(c) ==
    /\ proxy' = ProxyDeleted(c)
    /\ unknown' = [unknown EXCEPT ![c] = NoUnknown]
    /\ job' = [job EXCEPT ![c].stream = "none"]
    /\ timer' = timer \ {c}
    /\ client' = [client EXCEPT ![c] = "gone"]
    /\ TellsOfFailure(c)
    /\ UNCHANGED <<owners, process>>

\* CClientProxy1_0: the end of a proxy's connection is an event of its own.
disconnect(c) ==
    /\ job' = [job EXCEPT ![c].stream = "none"]
    /\ client' = [client EXCEPT ![c] = "gone"]
    /\ Post("disconnected", c)
    /\ UNCHANGED <<timer, unknown, proxy, owners, process>>

\* The time limit is for the whole handshake.
TimerAfterReply(c) == timer

\* The reply to hello: the proxy is made, takes over the stream and queries
\* the client.
HandleReply(c) ==
    /\ Handles("unknown", "hello", c)
    /\ Done
    /\ unknown' = [unknown EXCEPT ![c].proxy = TRUE]
    /\ proxy' = [proxy EXCEPT ![c] = "handshake"]
    /\ job' = [job EXCEPT ![c].stream = "proxy", ![c].ready = "unknown",
                          ![c].disconnected = "unknown"]
    /\ client' = [client EXCEPT ![c] = IF @ = "gone" THEN @ ELSE "queried"]
    /\ timer' = TimerAfterReply(c)
    /\ UNCHANGED <<owners, process>>

\* The client's first message to its proxy.
HandleInfo(c) ==
    /\ Handles("proxy", "info", c)
    /\ DoneAndPost("ready", c)
    /\ proxy' = [proxy EXCEPT ![c] = "talking"]
    /\ UNCHANGED <<job, timer, unknown, owners, client, process>>

StreamFails(c) == Handles("unknown", "broken", c) /\ sendFailure(c)
ProxyFails(c) == Handles("proxy", "broken", c) /\ disconnect(c)

HandleReady(c) ==
    /\ Handles("unknown", "ready", c)
    /\ unknown' = [unknown EXCEPT ![c].ready = TRUE]
    /\ timer' = timer \ {c}
    /\ DoneAndPost("success", c)
    /\ UNCHANGED <<job, proxy, owners, client, process>>

DisconnectedWhileNew(c) == Handles("unknown", "disconnected", c) /\ sendFailure(c)

\* The 30 seconds of the handshake, and the alarm of the heartbeat.
HandleTimeout(c) == Idle /\ c \in timer /\ sendFailure(c)
HandleFlatline(c) ==
    Idle /\ proxy[c] = "talking" /\ job[c].stream = "proxy" /\ disconnect(c)

-----------------------------------------------------------------------------
(***************************************************************************)
(* CClientListener.                                                        *)
(***************************************************************************)
HandleConnecting(c) ==
    /\ Dispatch("connecting", c)
    /\ Done
    /\ IF app = "serving"
       THEN /\ newClients' = newClients \cup {c}
            /\ timer' = timer \cup {c}
            /\ job' = [job EXCEPT ![c] = [@ EXCEPT !.stream = "unknown",
                                          !.success = "listener", !.failure = "listener"]]
            /\ client' = [client EXCEPT ![c] = "greeted"]
       ELSE /\ client' = [client EXCEPT ![c] = "gone"]
            /\ UNCHANGED <<newClients, timer, job>>
    /\ UNCHANGED <<unknown, proxy, waiting, served, process>>

\* What orphanClientProxy returns, and what is left of it in m_proxy.
TakenProxy(c) == c
StillOwned(c) == ProxyDeleted(c)
NoLongerOwned(c) == proxy

\* removeHandlers is for the handlers of the CClientProxyUnknown.
WatchedByListener(c) == [job EXCEPT ![c].ready = "none", ![c].disconnected = "listener"]

Announce(c) == DoneAndPost("connected", c)

\* The handshake ended well: the proxy waits for the server, and the listener
\* watches it.
OrphanProxy(c) ==
    /\ waiting' = Append(waiting, TakenProxy(c))
    /\ unknown' = [unknown EXCEPT ![c] = NoUnknown]
    /\ proxy' = NoLongerOwned(c)
    /\ job' = WatchedByListener(c)
    /\ Announce(c)
    /\ UNCHANGED timer

\* The CClientProxyUnknown is deleted, with all it still has.
DeleteUnknown(c) ==
    /\ Done
    /\ proxy' = ProxyDeleted(c)
    /\ unknown' = [unknown EXCEPT ![c] = NoUnknown]
    /\ timer' = timer \ {c}
    /\ UNCHANGED <<waiting, job>>

\* Both ends of a handshake come here.  The handlers of success and failure
\* stay: they are removed for the proxy, which has none.
HandleUnknownClient(c) ==
    /\ Handles("listener", "success", c) \/ Handles("listener", "failure", c)
    /\ c \in newClients
    /\ newClients' = newClients \ {c}
    /\ IF unknown[c].ready THEN OrphanProxy(c) ELSE DeleteUnknown(c)
    /\ UNCHANGED <<served, client, process>>

HandleUnlistedClient(c) ==
    /\ Handles("listener", "success", c) \/ Handles("listener", "failure", c)
    /\ c \notin newClients
    /\ fault' = "unlisted"
    /\ Done
    /\ UNCHANGED <<objects, owners, client, app, restarts>>

\* The first place at which c waits is erased.
Erase(c) ==
    \E i \in DOMAIN waiting :
        /\ waiting[i] = c /\ \A k \in 1..i - 1 : waiting[k] # c
        /\ waiting' = SubSeq(waiting, 1, i - 1) \o SubSeq(waiting, i + 1, Len(waiting))

DisconnectedWhileWaiting(c) ==
    /\ Handles("listener", "disconnected", c)
    /\ Done
    /\ IF c \in Waiting
       THEN /\ Erase(c)
            /\ job' = [job EXCEPT ![c].disconnected = "none"]
            /\ proxy' = [proxy EXCEPT ![c] = "deleted"]
       ELSE UNCHANGED <<waiting, job, proxy>>
    /\ UNCHANGED <<timer, unknown, newClients, served, client, process>>

-----------------------------------------------------------------------------
(***************************************************************************)
(* CServerApp and CServer.  An announcement is not of one client: the one  *)
(* that waits longest is adopted, if any still waits.                      *)
(***************************************************************************)
\* closeClient: a client the server has no screen for, or whose name is taken,
\* is adopted to be told to go.
HandleClientConnected(c) ==
    /\ Dispatch("connected", c)
    /\ Done
    /\ IF app = "serving" /\ waiting # <<>>
       THEN /\ waiting' = Tail(waiting)
            /\ adopted' = adopted \cup {Head(waiting)}
            /\ \E refused \in SUBSET {Head(waiting)} : closing' = closing \cup refused
            /\ job' = [job EXCEPT ![Head(waiting)].disconnected = "server"]
       ELSE UNCHANGED <<waiting, adopted, closing, job>>
    /\ UNCHANGED <<timer, unknown, proxy, newClients, abandoned, client, process>>

\* closeClients: those that a new configuration has no screen for are told to go.
SetConfig ==
    /\ Running /\ app = "serving"
    /\ \E dropped \in SUBSET adopted : closing' = closing \cup dropped
    /\ UNCHANGED <<queue, objects, newClients, waiting, adopted, abandoned, client, process>>

\* A client that is no longer the server's, for either reason, is deleted with its
\* handlers.
RemoveClient(c) ==
    /\ adopted' = adopted \ {c} /\ closing' = closing \ {c}
    /\ job' = [job EXCEPT ![c].stream = "none", ![c].disconnected = "none"]
    /\ proxy' = [proxy EXCEPT ![c] = "deleted"]
    /\ client' = [client EXCEPT ![c] = "gone"]
    /\ UNCHANGED <<timer, unknown, newClients, waiting, abandoned, process>>

DisconnectedFromServer(c) ==
    Handles("server", "disconnected", c) /\ c \notin abandoned /\ Done /\ RemoveClient(c)

\* A client that was told to go has five seconds.
HandleClientCloseTimeout(c) ==
    Idle /\ c \in closing /\ UNCHANGED queue /\ RemoveClient(c)

\* What is left of the jobs of a new client when it is deleted: sendFailure
\* may have forgotten the proxy before.
JobsAfterClose(c) ==
    IF c \in newClients
    THEN IF unknown[c].proxy THEN NoJobs
         ELSE [job[c] EXCEPT !.stream = "none", !.success = "none", !.failure = "none"]
    ELSE IF c \in Waiting THEN [job[c] EXCEPT !.stream = "none", !.disconnected = "none"]
    ELSE job[c]

\* The listener is deleted; then closeServer tells all clients to go.
CloseClientListener ==
    /\ Running /\ app = "serving" /\ app' = "closing"
    /\ job' = [c \in Conn |-> JobsAfterClose(c)]
    /\ proxy' = [c \in Conn |-> IF c \in Waiting \/ (c \in newClients /\ unknown[c].proxy)
                                THEN "deleted" ELSE proxy[c]]
    /\ unknown' = [c \in Conn |-> IF c \in newClients THEN NoUnknown ELSE unknown[c]]
    /\ client' = [c \in Conn |-> IF c \in Waiting \cup newClients THEN "gone" ELSE client[c]]
    /\ timer' = timer \ newClients
    /\ newClients' = {} /\ waiting' = <<>>
    /\ closing' = adopted
    /\ UNCHANGED <<queue, adopted, abandoned, restarts, fault>>

\* The nested loop of closeServer ended and the server is deleted.  Its loop over
\* m_oldClients goes from begin() to begin(): who is still there is left with
\* the proxy, the handlers and the timer of a server that is no more.
CloseServer ==
    /\ Running /\ app = "closing" /\ app' = "stopped"
    /\ abandoned' = abandoned \cup adopted
    /\ adopted' = {} /\ closing' = {}
    /\ UNCHANGED <<queue, objects, newClients, waiting, client, restarts, fault>>

\* What is left of an abandoned client calls the deleted server: the timer of its
\* closing, or the end of its connection.
UsesDeletedServer(c) ==
    /\ c \in abandoned
    /\ fault' = "server deleted"
    /\ UNCHANGED <<objects, owners, client, app, restarts>>

LateCloseTimeout(c) == Idle /\ UNCHANGED queue /\ UsesDeletedServer(c)
LateDisconnected(c) == Handles("server", "disconnected", c) /\ Done /\ UsesDeletedServer(c)

\* A new listener.  The events of the old one went in the nested loop.
StartServer ==
    /\ Running /\ app = "stopped" /\ app' = "serving"
    /\ restarts < MaxRestarts /\ restarts' = restarts + 1
    /\ \A i \in DOMAIN queue : queue[i][1] \notin {"connecting", "connected"}
    /\ UNCHANGED <<queue, objects, owners, client, fault>>

-----------------------------------------------------------------------------
Environment(c) == Connects(c) \/ RepliesToHello(c) \/ SendsInfo(c) \/ Breaks(c)

Handle(c) ==
    \/ \E type \in EventType : Dropped(type, c)
    \/ HandleReply(c) \/ HandleInfo(c) \/ StreamFails(c) \/ ProxyFails(c)
    \/ HandleReady(c) \/ DisconnectedWhileNew(c)
    \/ HandleConnecting(c) \/ HandleUnknownClient(c) \/ HandleUnlistedClient(c)
    \/ DisconnectedWhileWaiting(c)
    \/ HandleClientConnected(c) \/ DisconnectedFromServer(c) \/ LateDisconnected(c)

Expire(c) ==
    \/ HandleTimeout(c) \/ HandleFlatline(c) \/ HandleClientCloseTimeout(c)
    \/ LateCloseTimeout(c)

App == SetConfig \/ CloseClientListener \/ CloseServer \/ StartServer

Next == App \/ \E c \in Conn : Environment(c) \/ Handle(c) \/ Expire(c)

Spec == Init /\ [][Next]_vars

\* The loop dispatches what is posted, and a timer runs out.
HandleNext == \E c \in Conn : Handle(c)
FairSpec == Spec /\ WF_vars(HandleNext) /\ \A c \in Conn : WF_vars(HandleTimeout(c))

-----------------------------------------------------------------------------
TypeOK ==
    /\ queue \in Seq(EventType \X Conn)
    /\ job \in [Conn -> [Handled -> Handler]]
    /\ timer \subseteq Conn
    /\ unknown \in [Conn -> [proxy : BOOLEAN, ready : BOOLEAN]]
    /\ proxy \in [Conn -> {"none", "handshake", "talking", "deleted"}]
    /\ newClients \subseteq Conn
    /\ waiting \in Seq(Conn)
    /\ adopted \subseteq Conn /\ closing \subseteq Conn /\ abandoned \subseteq Conn
    /\ client \in [Conn -> {"away", "connecting", "greeted", "replied", "queried",
                            "informed", "gone"}]
    /\ app \in {"serving", "closing", "stopped"}
    /\ restarts \in 0..MaxRestarts
    /\ fault \in Fault

\* A proxy that lives belongs to one of the handshake, the listener and the
\* server, until a server is deleted that still had it; and nobody has one that
\* was deleted.  So none is deleted twice, whenever the client goes and the
\* server stops, and none but those is leaked.
OneOwner ==
    /\ newClients \cap Waiting = {} /\ newClients \cap adopted = {}
    /\ Waiting \cap adopted = {} /\ (newClients \cup Waiting \cup adopted) \cap abandoned = {}
    /\ Cardinality(Waiting) = Len(waiting)
    /\ \A c \in Conn :
          Live(c) <=> \/ c \in newClients /\ unknown[c].proxy
                     \/ c \in Waiting \cup adopted \cup abandoned

\* Whoever has a proxy is told when its connection ends: the handler of
\* disconnected is the owner's, also for an event posted before the proxy
\* changed hands.  For what a deleted server left behind it is still that server's.
OwnerWatches ==
    \A c \in Conn :
        /\ c \in newClients /\ unknown[c].proxy => job[c].disconnected = "unknown"
        /\ c \in Waiting => job[c].disconnected = "listener"
        /\ c \in adopted \cup abandoned => job[c].disconnected = "server"

\* closeServer waits for no client that it did not tell to go: when it begins to
\* wait all are, and none is adopted or comes back after that.
WaitsForToldOnly ==
    /\ closing \subseteq adopted
    /\ app = "closing" => adopted = closing
    /\ app = "stopped" => adopted = {}

\* There is an announcement for every client that waits, though clients may go
\* before theirs is handled: no client is left in m_waitingClients.
WaitingAreAnnounced == Len(waiting) <= Cardinality(Announcements)

\* A new client that has neither its time limit nor an event on the way would
\* stay in m_newClients for ever.
HandshakeEnds ==
    \A c \in newClients :
        \/ c \in timer
        \/ Pending("success", c) \/ Pending("failure", c)

\* Every connection that is accepted is adopted or dropped (or there was a
\* fault).
EveryConnectionSettles ==
    \A c \in Conn : c \in newClients \cup Waiting ~> c \notin newClients \cup Waiting \/ ~Running

\* ClientListener.cpp:172: "we should have the client in our new client list".
\* It is not when the connection ends between the client's first message and
\* the handling of success: success and failure are both posted, and the first
\* deletes the CClientProxyUnknown the second is about.
NewClientIsListed == fault # "unlisted"

\* Server.cpp:244: "force immediate disconnection of secondary clients".  It is
\* forced on none: those that have not gone by themselves within the three
\* seconds of closeServer are still connected when the server is no more.
NoClientIsLeft == app = "stopped" => abandoned = {}

\* Each connection has one owner, as long as there is a server, who hears of its
\* end, and something that is still to come moves it on: its time limit, a posted
\* result or an announcement.
ConnectionsAreOwned ==
    /\ TypeOK /\ OneOwner /\ OwnerWatches /\ WaitsForToldOnly
    /\ HandshakeEnds /\ WaitingAreAnnounced
=============================================================================
