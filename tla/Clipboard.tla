------------------------------ MODULE Clipboard ------------------------------
(***************************************************************************)
(* One clipboard shared by the primary screen and the clients: CServer's   *)
(* record of who owns it, the client proxies and their dirty flags, the    *)
(* clients with their ServerProxy, and the messages between them.  The     *)
(* clipboards of a screen do not affect each other, so one is enough.      *)
(*                                                                         *)
(* A client's connection is a pair of reliable FIFO channels.  The server  *)
(* parses a message in one step and handles the event it posts in a later  *)
(* one, when another message may have been parsed.  Connecting and         *)
(* disconnecting are one step for both sides.                              *)
(***************************************************************************)
EXTENDS Naturals, Sequences, Functions

CONSTANTS
    Client,
    Primary,
    Value,           \* what a user may copy
    Nothing,         \* the contents of an emptied clipboard
    MaxSeq,          \* bound on m_seqNum
    MaxCopies,       \* bound on what the users copy
    MaxAway,         \* bound on what programs copy away from the cursor
    MaxConnections,  \* bound on the connections of each client
    Background       \* screens where programs copy while the cursor is away

Screen == Client \cup {Primary}
Content == Value \cup {Nothing}

ASSUME ClipboardAssumption ==
    /\ Primary \notin Client
    /\ Nothing \notin Value
    /\ MaxSeq \in Nat /\ MaxCopies \in Nat
    /\ MaxAway \in Nat /\ MaxConnections \in Nat
    /\ Background \subseteq Screen

VARIABLES
    clipboard,   \* CServer::CClipboardInfo: owner, seq, data
    active,      \* m_active
    seqNum,      \* m_seqNum
    linked,      \* the clients in m_clients
    dirty,       \* the dirty flag of each proxy and of the primary client
    held,        \* CClientProxy1_0::m_clipboard: what the client sent or was
                 \* sent last
    events,      \* the server's event queue, as far as clipboards go
    toClient, toServer,
    client,      \* CClient: active, own, sent, last, seq, grabbed, and
                 \* CScreen::m_entered of its screen
    local,       \* what is on each screen's own clipboard
    ours,        \* that clipboard is owned by synergy, not by a program
    primarySeq,  \* m_sequenceNumber of the primary's platform screen
    copies,      \* how often the user of each screen has copied
    away,        \* how often was copied without the cursor
    connections,
    fault        \* the assert in onClipboardChanged failed

shared  == <<clipboard, active, seqNum, linked>>
proxies == <<dirty, held>>
wires   == <<events, toClient, toServer>>
screens == <<local, ours, primarySeq>>
bounds  == <<copies, away, connections>>
vars    == <<shared, proxies, wires, client, screens, bounds, fault>>

Listed == linked \cup {Primary}

\* Messages and events: enter, leave, grab (CCLP), data (DCLP).
Enter(seq) == [type |-> "enter", seq |-> seq]
Leave == [type |-> "leave"]
Grab(seq) == [type |-> "grab", seq |-> seq]
Data(seq, data) == [type |-> "data", seq |-> seq, data |-> data]
Event(type, from, seq) == [type |-> type, from |-> from, seq |-> seq]
Orphan == Event("orphan", Primary, 0)

\* A client before its first connection and after it lost one.
NewClient == [active |-> FALSE, entered |-> FALSE, own |-> FALSE, sent |-> FALSE,
              last |-> Nothing, seq |-> 0, grabbed |-> FALSE]

Init ==
    /\ clipboard = [owner |-> Primary, seq |-> 0, data |-> Nothing]
    /\ active = Primary
    /\ seqNum = 0
    /\ linked = {}
    /\ dirty = [s \in Screen |-> FALSE]
    /\ held = [c \in Client |-> Nothing]
    /\ events = <<>>
    /\ toClient = [c \in Client |-> <<>>]
    /\ toServer = [c \in Client |-> <<>>]
    /\ client = [c \in Client |-> NewClient]
    /\ local = [s \in Screen |-> Nothing]
    /\ ours = [s \in Screen |-> FALSE]
    /\ primarySeq = 0
    /\ copies = [s \in Screen |-> 0] /\ away = 0
    /\ connections = [c \in Client |-> 0]
    /\ fault = FALSE

-----------------------------------------------------------------------------
(***************************************************************************)
(* The screens.  A program that takes the clipboard from synergy is seen,  *)
(* one that takes it from another program is not.                          *)
(***************************************************************************)
HasCursor(s) == IF s = Primary THEN active = Primary ELSE client[s].entered

Copy(s, v) ==
    /\ local' = [local EXCEPT ![s] = v]
    /\ ours' = [ours EXCEPT ![s] = FALSE]
    /\ events' = IF s = Primary /\ ours[s]
                 THEN Append(events, Event("grabbed", s, primarySeq)) ELSE events
    /\ client' = IF s \in linked /\ ours[s]
                 THEN [client EXCEPT ![s].grabbed = TRUE] ELSE client
    /\ UNCHANGED <<shared, proxies, toClient, toServer, primarySeq,
                   connections, fault>>

Copies == SumFunction(copies)

UserCopies(s, v) ==
    /\ HasCursor(s)
    /\ Copies < MaxCopies /\ copies' = [copies EXCEPT ![s] = @ + 1]
    /\ Copy(s, v)
    /\ UNCHANGED away

ProgramCopies(s, v) ==
    /\ s \in Background /\ ~HasCursor(s)
    /\ away < MaxAway /\ away' = away + 1
    /\ Copy(s, v)
    /\ UNCHANGED copies

-----------------------------------------------------------------------------
(***************************************************************************)
(* The client.                                                             *)
(***************************************************************************)
\* CClient::sendClipboard: is there anything to send?  (An unchanged time of
\* the clipboard implies unchanged data that have been sent.)
MustSend(c) == ~client[c].sent \/ local[c] # client[c].last

\* CClient::handleClipboardGrabbed, run when its event is dispatched.
ClientGrabbed(c) ==
    /\ client[c].grabbed
    /\ LET grab == Grab(client[c].seq)
       IN  IF client[c].active
           THEN /\ toServer' = [toServer EXCEPT ![c] = Append(@, grab)]
                /\ client' = [client EXCEPT ![c].grabbed = FALSE,
                                  ![c].own = TRUE, ![c].sent = FALSE]
           ELSE /\ toServer' = [toServer EXCEPT ![c] =
                                  @ \o <<grab, Data(client[c].seq, local[c])>>]
                /\ client' = [client EXCEPT ![c].grabbed = FALSE,
                                  ![c].own = TRUE, ![c].sent = TRUE,
                                  ![c].last = local[c]]
    /\ UNCHANGED <<shared, proxies, events, toClient, screens, bounds, fault>>

\* The first message of a kind from the server is taken off its channel.
Takes(c, type) ==
    /\ toClient[c] # <<>> /\ Head(toClient[c]).type = type
    /\ toClient' = [toClient EXCEPT ![c] = Tail(@)]
    /\ UNCHANGED <<shared, proxies, events, primarySeq, bounds, fault>>

\* ServerProxy::enter and CClient::enter
ClientEnters(c) ==
    /\ Takes(c, "enter")
    /\ client' = [client EXCEPT ![c].active = TRUE, ![c].entered = TRUE,
                                ![c].seq = Head(toClient[c]).seq]
    /\ UNCHANGED <<toServer, local, ours>>

\* CClient::leave sends the clipboard if the client owns it and it changed.
ClientLeaves(c) ==
    /\ Takes(c, "leave")
    /\ IF client[c].own /\ MustSend(c)
       THEN /\ toServer' = [toServer EXCEPT ![c] =
                                Append(@, Data(client[c].seq, local[c]))]
            /\ client' = [client EXCEPT ![c].active = FALSE, ![c].entered = FALSE,
                              ![c].sent = TRUE, ![c].last = local[c]]
       ELSE /\ client' = [client EXCEPT ![c].active = FALSE,
                                        ![c].entered = FALSE]
            /\ UNCHANGED toServer
    /\ UNCHANGED <<local, ours>>

\* CClient::grabClipboard and setClipboard
ClientLosesClipboard(c) ==
    /\ \/ Takes(c, "grab") /\ local' = [local EXCEPT ![c] = Nothing]
       \/ /\ Takes(c, "data")
          /\ local' = [local EXCEPT ![c] = Head(toClient[c]).data]
    /\ ours' = [ours EXCEPT ![c] = TRUE]
    /\ client' = [client EXCEPT ![c].own = FALSE, ![c].sent = FALSE]
    /\ UNCHANGED toServer

-----------------------------------------------------------------------------
(***************************************************************************)
(* The server.                                                             *)
(***************************************************************************)
\* setClipboard of dst if d says it is dirty: a client's proxy sends the data
\* after what is in the channel and holds them, the primary client stores them.
Send(d, channel, dst, data) ==
    IF d[dst] /\ dst \in Client
    THEN [channel EXCEPT ![dst] = Append(@, Data(0, data))] ELSE channel

Hold(d, dst, data) ==
    IF d[dst] /\ dst \in Client THEN [held EXCEPT ![dst] = data] ELSE held

Store(d, dst, data) ==
    IF d[dst] /\ dst = Primary THEN [local EXCEPT ![dst] = data] ELSE local

Own(d, dst) == IF d[dst] /\ dst = Primary THEN [ours EXCEPT ![dst] = TRUE] ELSE ours

\* CClientProxy1_0::recvGrabClipboard and recvClipboard
ServerReceives(c) ==
    /\ toServer[c] # <<>>
    /\ LET m == Head(toServer[c])
       IN  IF m.type = "grab"
           THEN /\ events' = Append(events, Event("grabbed", c, m.seq))
                /\ UNCHANGED held
           ELSE /\ events' = Append(events, Event("changed", c, m.seq))
                /\ held' = [held EXCEPT ![c] = m.data]
    /\ toServer' = [toServer EXCEPT ![c] = Tail(@)]
    /\ UNCHANGED <<shared, dirty, toClient, client, screens, bounds, fault>>

\* Mutant: a late grab of a client counts.
AcceptsLateGrab(e) == TRUE

AcceptsGrab(e) == e.from = Primary \/ e.seq >= clipboard.seq

\* Mutant: the others are not marked dirty.
DirtyStays(sender) == dirty

DirtyExcept(sender) ==
    [s \in Screen |-> IF s \in Listed THEN s # sender ELSE dirty[s]]

\* handleClipboardGrabbed
ClipboardGrabbed ==
    /\ events # <<>> /\ Head(events).type = "grabbed"
    /\ events' = Tail(events)
    /\ LET e == Head(events)
       IN  IF AcceptsGrab(e)
           THEN /\ clipboard' = [owner |-> e.from, seq |-> e.seq,
                                 data |-> Nothing]
                /\ dirty' = DirtyExcept(e.from)
                /\ toClient' = [c \in Client |->
                       IF c \in linked \ {e.from}
                       THEN Append(toClient[c], Grab(0)) ELSE toClient[c]]
                /\ IF e.from = Primary THEN UNCHANGED <<local, ours>>
                   ELSE /\ local' = [local EXCEPT ![Primary] = Nothing]
                        /\ ours' = [ours EXCEPT ![Primary] = TRUE]
           ELSE UNCHANGED <<clipboard, dirty, toClient, local, ours>>
    /\ UNCHANGED <<active, seqNum, linked, held, toServer, client, primarySeq,
                   bounds, fault>>

\* Mutant: the active screen is not given the new data.
KeepsToItself(d) == FALSE

GivesToActive(d) == d[active]

\* onClipboardChanged for a client; switchScreen does it for the primary.
ClipboardChanged ==
    /\ events # <<>> /\ Head(events).type = "changed"
    /\ events' = Tail(events)
    /\ LET e == Head(events)
           d == DirtyExcept(e.from)
           new == held[e.from]
       IN  \/ /\ e.seq >= clipboard.seq /\ clipboard.owner # e.from
              /\ fault' = TRUE
              /\ UNCHANGED <<clipboard, proxies, toClient, local, ours>>
           \/ /\ e.seq < clipboard.seq \/ new = clipboard.data
              /\ e.seq >= clipboard.seq => clipboard.owner = e.from
              /\ UNCHANGED <<clipboard, proxies, toClient, local, ours, fault>>
           \/ /\ e.seq >= clipboard.seq /\ clipboard.owner = e.from
              /\ new # clipboard.data
              /\ clipboard' = [clipboard EXCEPT !.data = new]
              /\ IF GivesToActive(d)
                 THEN /\ dirty' = [d EXCEPT ![active] = FALSE]
                      /\ toClient' = Send(d, toClient, active, new)
                      /\ held' = Hold(d, active, new)
                      /\ local' = Store(d, active, new)
                      /\ ours' = Own(d, active)
                 ELSE dirty' = d /\ UNCHANGED <<toClient, held, local, ours>>
              /\ UNCHANGED fault
    /\ UNCHANGED <<active, seqNum, linked, toServer, client, primarySeq, bounds>>

\* An event without a handler is dropped.
Dropped ==
    /\ events # <<>> /\ Head(events).type = "orphan"
    /\ events' = Tail(events)
    /\ UNCHANGED <<shared, proxies, toClient, toServer, client, screens, bounds, fault>>

\* The clipboard is the primary's and has changed since it was looked at.
PrimaryUpdates ==
    /\ active = Primary /\ clipboard.owner = Primary
    /\ local[Primary] # clipboard.data

\* switchScreen, as far as clipboards go.
SwitchScreen(dst) ==
    /\ dst \in Listed \ {active}
    /\ seqNum < MaxSeq
    /\ LET new == IF PrimaryUpdates THEN local[Primary] ELSE clipboard.data
           d   == IF PrimaryUpdates THEN DirtyExcept(Primary) ELSE dirty
           left == IF active \in Client
                   THEN [toClient EXCEPT ![active] = Append(@, Leave)]
                   ELSE toClient
           entered == IF dst \in Client
                      THEN [left EXCEPT ![dst] = Append(@, Enter(seqNum + 1))]
                      ELSE left
       IN  /\ clipboard' = [clipboard EXCEPT !.data = new]
           /\ dirty' = [d EXCEPT ![dst] = FALSE]
           /\ toClient' = Send(d, entered, dst, new)
           /\ held' = Hold(d, dst, new)
           /\ local' = Store(d, dst, new)
           /\ ours' = Own(d, dst)
    /\ active' = dst
    /\ seqNum' = seqNum + 1
    /\ primarySeq' = IF dst = Primary THEN seqNum + 1 ELSE primarySeq
    /\ UNCHANGED <<linked, events, toServer, client, bounds, fault>>

-----------------------------------------------------------------------------
(***************************************************************************)
(* Connections.                                                            *)
(***************************************************************************)
\* CClient::handleConnected, setupScreen and handshakeComplete; addClient.
\* Everything but CClient::m_active starts anew.
Connect(c) ==
    /\ c \notin linked
    /\ connections[c] < MaxConnections
    /\ connections' = [connections EXCEPT ![c] = @ + 1]
    /\ linked' = linked \cup {c}
    /\ dirty' = [dirty EXCEPT ![c] = TRUE]
    /\ held' = [held EXCEPT ![c] = Nothing]
    /\ client' = [client EXCEPT ![c] =
                      [NewClient EXCEPT !.active = client[c].active,
                                        !.last = client[c].last]]
    /\ local' = [local EXCEPT ![c] = Nothing]
    /\ ours' = [ours EXCEPT ![c] = TRUE]
    /\ UNCHANGED <<clipboard, active, seqNum, wires, primarySeq, copies, away,
                   fault>>

\* Events of a proxy that is gone stay in the queue and have no handler any more.
EventsWithout(c) ==
    [i \in DOMAIN events |-> IF events[i].from = c THEN Orphan ELSE events[i]]

\* forceLeaveClient enters the primary without a new sequence number.
ForcedSeq == seqNum

\* removeClient and forceLeaveClient; on the client, cleanupScreen.
Disconnect(c) ==
    /\ c \in linked
    /\ linked' = linked \ {c}
    /\ toClient' = [toClient EXCEPT ![c] = <<>>]
    /\ toServer' = [toServer EXCEPT ![c] = <<>>]
    /\ events' = EventsWithout(c)
    /\ client' = [client EXCEPT ![c].grabbed = FALSE, ![c].entered = FALSE]
    /\ IF active = c
       THEN active' = Primary /\ primarySeq' = ForcedSeq
       ELSE UNCHANGED <<active, primarySeq>>
    /\ UNCHANGED <<clipboard, seqNum, proxies, local, ours, bounds, fault>>

-----------------------------------------------------------------------------
Next ==
    /\ ~fault
    /\ \/ \E s \in Screen, v \in Value : UserCopies(s, v) \/ ProgramCopies(s, v)
       \/ \E c \in Client :
              \/ ClientGrabbed(c) \/ ClientEnters(c) \/ ClientLeaves(c)
              \/ ClientLosesClipboard(c) \/ ServerReceives(c)
              \/ Connect(c) \/ Disconnect(c)
       \/ ClipboardGrabbed \/ ClipboardChanged \/ Dropped
       \/ \E dst \in Screen : SwitchScreen(dst)

Spec == Init /\ [][Next]_vars
-----------------------------------------------------------------------------
Seqs == 0 .. seqNum

ToClient ==
    [type : {"enter", "grab"}, seq : Seqs] \cup [type : {"leave"}]
        \cup [type : {"data"}, seq : Seqs, data : Content]
ToServer == [type : {"grab"}, seq : Seqs] \cup [type : {"data"}, seq : Seqs, data : Content]

TypeOK ==
    /\ clipboard \in [owner : Screen, seq : Seqs, data : Content]
    /\ active \in Screen
    /\ seqNum \in 0 .. MaxSeq
    /\ linked \in SUBSET Client
    /\ dirty \in [Screen -> BOOLEAN]
    /\ held \in [Client -> Content]
    /\ events \in Seq([type : {"grabbed", "changed", "orphan"}, from : Screen, seq : Seqs])
    /\ toClient \in [Client -> Seq(ToClient)] /\ toServer \in [Client -> Seq(ToServer)]
    /\ client \in [Client -> [active : BOOLEAN, entered : BOOLEAN, own : BOOLEAN, sent : BOOLEAN,
                              last : Content, seq : Seqs, grabbed : BOOLEAN]]
    /\ local \in [Screen -> Content]
    /\ ours \in [Screen -> BOOLEAN]
    /\ primarySeq \in Seqs
    /\ copies \in [Screen -> Nat] /\ away \in Nat /\ connections \in [Client -> Nat]
    /\ fault \in BOOLEAN

\* The messages of a channel that change a clipboard, and what one makes of it.
Contents(channel) == {i \in DOMAIN channel : channel[i].type \in {"grab", "data"}}
ContentOf(m) == IF m.type = "grab" THEN Nothing ELSE m.data

\* A clipboard with the contents "now" will have v when the channel is read,
\* unless a program takes it.
Brings(channel, now, v) ==
    IF Contents(channel) = {} THEN now = v
    ELSE \A i \in Contents(channel) :
             (\A j \in Contents(channel) : j =< i) => ContentOf(channel[i]) = v

OnTheWay(s) == IF s = Primary THEN <<>> ELSE toClient[s]

UntouchedBySomeone(s) == ours[s] \/ Contents(OnTheWay(s)) # {}

Quiet ==
    /\ events = <<>>
    /\ \A c \in linked :
           toClient[c] = <<>> /\ toServer[c] = <<>> /\ ~client[c].grabbed

\* A screen that is not dirty has, or has been sent, what the server has: a
\* clean flag never keeps new contents from a screen that is entered.
CleanScreensAgree ==
    \A s \in Listed \ {clipboard.owner} :
        ~dirty[s] /\ UntouchedBySomeone(s)
            => Brings(OnTheWay(s), local[s], clipboard.data)

\* When everything has arrived, pasting on the active screen gives what the
\* client that owns the clipboard sent last.  Only the primary, when it was
\* entered because the active client went away, may have to wait.  A client that
\* has connected again counts with sequence number 0 until it is entered, and what
\* it sends till then is refused (Server.cpp:1219).
PasteGetsLatest ==
    LET o == clipboard.owner
    IN  /\ Quiet /\ ~fault
        /\ o \in linked \ {active} /\ client[o].own /\ client[o].sent
        /\ client[o].seq >= clipboard.seq
        /\ ours[active]
        /\ active = Primary => ~dirty[Primary]
        => local[active] = client[o].last

\* onClipboardChanged: "should be the expected client".
SenderOwnsClipboard == ~fault

\* The same, as long as nothing is copied but by the user with the cursor, and on
\* no client twice: of those that copy one after the other the earlier ones are
\* refused, however their messages are delayed.  A client that copies again does
\* not know yet that another has copied in between, and need not tell that it
\* has: its data come without a grab.
LaterCopyWins == away = 0 /\ (\A c \in Client : copies[c] =< 1) => ~fault

InactiveOwner(c) == Quiet /\ c \in linked /\ active # c /\ client[c].own

\* "if we're not the active screen then send the clipboard now, otherwise
\* we'll wait until we leave": a client without the cursor has sent what it
\* owns.
InactiveOwnerHasSent == \A c \in Client : InactiveOwner(c) => client[c].sent

\* The same, for clients that have never been disconnected.
FirstConnectionHasSent ==
    \A c \in Client :
        InactiveOwner(c) /\ connections[c] = 1 => client[c].sent

\* What any screen was told of the clipboard is consistent: types, clean flags
\* that withhold nothing, and owners without the cursor that have sent their data.
ScreensAgree == TypeOK /\ CleanScreensAgree /\ FirstConnectionHasSent
=============================================================================
