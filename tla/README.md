# A verification project for Synergy 1.4.18

Synergy lets one mouse and keyboard drive several computers. The computer that
has them runs the *server*; each of the others runs a *client* that connects to
it. This directory holds TLA+ models of the program's core (`src/synergy-1.4.18-Source/src/lib`),
the TLC configurations that check them, and proofs about them that TLAPS checks.
Paths below are relative to that `lib` directory.

    tlc -workers 2 -config server_clients.cfg MCServer     # one run
    tlapm Server_proofs.tla                                # the proofs of one part

## 1. The system

### Parts, and how they interact

| part | source | state | operations |
|---|---|---|---|
| Server core | `server/Server.cpp`, `server/Config.cpp` | which clients are connected (`m_clients` by name, `m_clientSet`, `m_oldClients` that were told to go), which screen has the cursor (`m_active`), a switch that waits (`m_switch*`), the lock, saved screen of the screen saver, clipboards | one handler per event: motion, hotkeys, screen saver, clipboard, clients coming and going, timers, reload |
| Admission | `server/ClientListener.cpp`, `server/ClientProxyUnknown.cpp`, `synergy/ServerApp.cpp` | new clients in their handshake, proxies that wait for the server, timers | accept, hello, query and answer, success, failure, timeout, hand-over |
| Client proxies | `server/ClientProxy1_*.cpp`, `server/PrimaryClient.cpp` | parser state, heartbeat timers, clipboard copies and dirty flags | messages to and from one client |
| Client | `client/Client.cpp`, `client/ServerProxy.cpp` | connection, `m_active`, owned and sent clipboards, sequence number, keep-alive alarm | connect, handshake, enter and leave, clipboard, time out |
| Applications | `synergy/ServerApp.cpp`, `synergy/ClientApp.cpp` | state machine of start, retry, suspend | start, stop, reload, retry |
| Sockets | `net/TCPSocket.cpp`, `net/TCPListenSocket.cpp` | connected, readable, writable, buffers | connect, accept, read, write, close; one job for the multiplexer |
| Multiplexer | `net/SocketMultiplexer.cpp`, `arch/unix/ArchNetworkBSD.cpp` | list of jobs, a lock on the list and a lock on that lock | add, remove; the service thread polls and runs jobs |
| Streams | `synergy/PacketStreamFilter.cpp`, `io/*` | length of the next packet, buffer, shutdown flag | framing, encryption |
| Event queue | `base/EventQueue.cpp` | events, handlers, timers | post, dispatch, timers |
| Screens and keys | `synergy/Screen.cpp`, `synergy/KeyState.cpp`, `synergy/KeyMap.cpp` | entered, keys down | enter, leave, fake input |
| Hotkeys | `server/InputFilter.cpp` | rules | match and act |
| Drag and files | `synergy/FileChunker.cpp`, `synergy/DropHelper.cpp` | worker threads | send, receive |
| Service | `ipc/*`, `synergy/DaemonApp.cpp` | clients, log buffer and its thread | forward logs, commands |
| Micro client | `micro/uSynergy.c` | receive buffer, connection flags | receive, parse, reply |

One thread runs the *event queue*: all of the server core, admission, proxies,
client and applications are handlers that run one at a time and never
preempt each other; `closeServer` alone runs a nested loop. The *service thread*
of the multiplexer polls the sockets and posts events. Drag and drop, the log
outputter and the platform layers have further threads. A client and the server
share nothing but a TCP stream.

    keyboard, mouse -> PrimaryClient --events--> Server --calls--> ClientProxy --packets--> network
    network -> multiplexer thread --events--> ClientProxy / ClientProxyUnknown --events--> Server / ClientListener
    ClientListener --"connected" event--> ServerApp --adoptClient--> Server

### What is hard

- *Order of events.* Every handler is atomic but handlers come in any order: a
  client may vanish while the cursor is on it, while a switch to it is pending,
  while it waits to be adopted, between two messages of its handshake, or while
  the screen saver has put the cursor away.
- *Queued events.* An event is posted now and handled later, by whoever has a
  handler then. What it is about may be gone or in other hands.
- *Several indexes for one thing.* `m_clients`, `m_clientSet`, `m_oldClients`,
  `m_active`, `m_activeSaver`, `m_switchScreen` point at the same objects.
- *Clipboards* travel as grabs, data and dirty flags with sequence numbers that
  are compared at the server only.
- *Threads*: the two-level lock of the multiplexer and its wake-ups.
- *Time*: delays, double taps, the limits on handshakes, closing and heartbeats.

What makes each part correct: the cursor is always on exactly one connected screen (server
core); every proxy has one owner as long as there is a server, is deleted once and not used
after that, and every connection is decided (admission); what is pasted is what was copied
last (clipboard); what poll finds goes to the right socket and no caller waits for ever
(multiplexer); every byte is in a packet once and the end of a stream is reported (streams);
every posted event is dispatched once (event queue); a key that went down comes up (keys);
stopping and suspending cancel all retries (applications).

## 2. Modules

| module | models | runs |
|---|---|---|
| `ScreenLayout` | the parts of `CConfig` the cursor depends on; `getNeighbor`, `mapToNeighbor` | through `Server` |
| `SwitchGate` | `isSwitchOkay`, `noSwitch`, the delay and the double tap, as operators on one record | through `Server` |
| `Server` | `CServer`, with the part of `CServerApp` that closes it | `MCServer` |
| `CursorOwner` | abstract: who has the cursor; `Server` implements it | `CursorSpec` |
| `Clipboard` | one clipboard across `CServer`, the proxies, `CClient`, `CServerProxy` and the platform screens | `MCClipboard` |
| `Admission` | `CClientListener`, `CClientProxyUnknown`, the hand-over to `CServerApp` and `CServer` | `MCAdmission` |
| `SocketMultiplexer` | `CSocketMultiplexer`, the pipe that wakes its thread, its destructor | `MCSocketMultiplexer` |
| `JobTable` | abstract: a table of jobs that is nobody else's during a round; `SocketMultiplexer` implements it | `TableSpec` |
| `PolledSockets` | the names of sockets that the multiplexer and the sockets have in common | through both |
| `SocketJobs`, `DataSocket`, `ListenSocket` | what sockets share; `CTCPSocket`; `CTCPListenSocket` | through `Sockets` |
| `Sockets` | both sockets over one `JobTable` and one main thread | `MCSockets` |
| `PacketFilter` | `CPacketStreamFilter` between a socket's buffer and two readers that follow each other | `MCPacketFilter` |
| `PacketStream` | abstract: packets whole and in order, then the end; `PacketFilter` implements it | `StreamSpec` |
| `EventQueue` | `CEventQueue`, `CSimpleEventQueueBuffer`, timers | `MCEventQueue` |
| `EventOrder` | abstract: the events of each thread once and in order; `EventQueue` implements it | `OrderSpec` |
| `ServerLife` | `CServerApp`: start, retry, suspend, resume, reset, stop, the nested loop | `MCServerLife` |
| `ClientLife` | `CClientApp`, `CClient`, the handshake of `CServerProxy` | `MCClientLife` |
| `KeepAlive` | `CClientProxy1_3` with `CClientProxy1_0` against `CServerProxy`: keep-alives and alarms in time | `MCKeepAlive` |
| `Server_proofs`, `Clipboard_proofs`, `Admission_proofs`, `EventQueue_proofs`, `ServerLife_proofs`, `ClientLife_proofs` | theorems about the modules they are named after | TLAPS |
| `Sockets_proofs` | theorems about `SocketMultiplexer` and about `Sockets` | TLAPS |
| `Connection_proofs` | theorems about `KeepAlive` and about `PacketFilter` | TLAPS |

How they stand on each other: `Sockets` uses `JobTable` as its multiplexer, which
`SocketMultiplexer` is shown to implement. (Two components whose theorems share a
module have names of their own for what each module has: `MuxInit`, `MuxSpec`,
`PacketInit`, `PacketSpec` and so on.) `PacketFilter` reads a socket as
`Sockets` shows it to be: bytes in order, an event when the buffer was empty, the
end after the bytes. `Server`, `Admission`, `Clipboard`, the two life cycles and
`KeepAlive` take an event queue that handles the main thread's events in order and
looks at timers when it is empty, which is what `EventQueue` shows; and whole
messages in order, which is what `PacketFilter` shows.

`PROJECT.json` maps each definition to the lines it stands for. Some notes on
how a model's state corresponds to the code's:

**Server.** A proxy is `fresh` (not adopted yet), `open` or `deleted`. A screen is a proxy
or `Primary`. The scroll lock may have the cursor locked from the start. A configuration
that a reload reads is in force even if the server refuses it for not having the primary
(`RefuseConfig`: what is read replaces the object that the server has a reference to). Pixel
positions are left out: a motion either stays on the active screen or pushes against an
edge, at a *lane* of it that stands for an interval of the edge; a motion may overshoot the
screen it comes to, and the search that goes on from there may, like the first, not end
(`LandingHangs`). `gate` is the record of `SwitchGate`. `entered` is `CScreen::m_entered`,
for a client what it was told last. `phase` follows `CServerApp::closeServer`: running, in
the nested loop, deleted. A step that uses a deleted proxy, fails an assert or does not
return sets `fault`, after which the model says nothing more. Drag and drop is off, except
that a drag in progress holds the cursor. The environment's moves are in `Feature`, so that
a run can leave some out, and `SaverExclusive` says that no input arrives while the screen
saver runs, which is what a platform does that ends the saver at the first input.

**Clipboard.** A connection is a pair of FIFO channels. The server parses a message in one
step (`ServerReceives`) and handles the event it posts in another (`ClipboardGrabbed`,
`ClipboardChanged`), as in the code. A connection breaks for both sides in one step. The
data of a clipboard is a model value; marshalling is left out. What a proxy sends it also
keeps (`Hold`), as what its screen has. The user copies where the cursor is, programs may
take the clipboard of any screen. The events of a client that is removed lose their
handlers: they stay in the queue as orphans until `Dropped` dispatches them, with no effect.

**Admission.** A connection names its stream, its `CClientProxyUnknown` and its proxy. `job`
says who handles which event of a connection, `queue` holds events in order; `Dropped` takes
events without a handler. What the client sends is abstracted to an answer that is accepted
or one that breaks the stream. `closing` is the `m_oldClients` that `closeServer` waits for;
those that are still there when it has waited long enough outlive the server with their
timers and handlers (`abandoned`), because the loop of `~CServer` that should drop them runs
from `begin()` to `begin()`. Which client an announcement is for is not recorded by the
code; the model keeps the connection that caused it only to tell two announcements apart.

**SocketMultiplexer.** A step is what happens under the mutex or between two
uses of it. The list of jobs keeps the code's order and the nodes that were
removed. A sleeper is in the set of the condition variable it waits on; a wait may
time out at any moment (`Wakes`), as each does after a tenth of a second. The pipe
of the service thread exists from its first poll on. `destructor` follows
`~CSocketMultiplexer`, which runs when nobody calls any more: the service thread
ends between two rounds, in a wait, or in a poll that the cancellation's signal
breaks off, and in the last case it dies with the list.

**Sockets.** `main` is where the main thread is; it is the user of all sockets and
can be at one thing only. What is done under a socket's `m_mutex` is one step; a
new job is made *without* it, by two looks at the fields (`LookForJob`,
`MakeJob`), and set when the multiplexer is not in a round. `sock` is the fields
of `CTCPSocket`, with buffers as counts of bytes and the posted events in order;
`arrived` and `backlog` are what the kernel holds. `deaf` is set by an accept
that fails, `stuck` by an error on the listening socket, and `main` is `aborted` when accept
finds no connection and asserts: all three are defects of the code, see section 3. A connect that
throws leaves a socket that `CClient::connect` deletes at once.

**PacketFilter.** A byte is a number and a header is a packet's length in base `Base`,
written digit by digit from what is left when lower digits are shifted out (`Shifted`) and
read from the highest digit on; that it is four bytes in base 256 plays no part, but that a
length fits does (`SizeFits`, which a `UInt32` and four bytes give). `wire`, `tcp` and
`filter.buffer` are the bytes on their way, in the socket and in the filter; bytes move from
one to the next in pieces of any length. The reader `hello` is `CClientProxyUnknown` or
`CClient`, which reads one message and then gives way to the proxy, which reads all there
are. The peer writes whenever it likes, so that a packet may follow the hello in the same
piece; `stalled` says that a server's reader took over with such a packet in the filter, of
which nobody told it.

**EventQueue.** `buffer` holds the numbers of the queued events and `events` what
they stand for, as in the code, because the two are changed under different
locks. `adding` is another thread between the look at `m_readyCondVar` and the
adding. A timer has the time it is `due` besides the code's countdown (`left`), only
to state that it does not fire early.

**ServerLife.** `app` is `m_serverState` with what is there of timer, server,
listener and screen. What comes from outside may be handled between any two
events; `queue` has only what the program itself posts. `closing` says whose
`stopServer` is in the nested loop of `closeServer`; every handler may run in
there. `gaveUp` is an attempt to start that failed for good without anybody being
told, as `handleResume` and `resetServer` do not look at the result.

**ClientLife.** `stage` is how far the connection is: `m_stream`, `m_server` and
the handshake. `restarts` counts the application's restart timers, which the code
keeps nowhere. `heartbeat` is whether the server wants keep-alives: options and their reset may
turn it off and on at any time from the handshake on, and without it a connection that is
ready has no alarm. `peer` is whether the server still answers.

**KeepAlive.** `server` and `client` are the two proxies: the state of the parser,
the rate, the timers as seconds left. Messages carry their age and arrive within
`MaxDelay`. Time goes on when no handler and no timer is due. `gone` is what
vanished without a word; `Disconnect` is a client that says so.

## 3. Runs

| run | bounds | states | question |
|---|---|---|---|
| `server_clients` | 3 connections, two under one name, two screens in a row, reloads that drop one or lack the primary, forced reconnects, stop | 27,964 | does the cursor stay on one connected screen, whatever comes and goes; do the indexes agree, do closed clients go, is closing announced? |
| `server_gate` | 2 connections, 7 configurations of delay, double tap, modifiers, a circle | 25,845 | is nothing pending that the options do not ask for, and does the lock hold? |
| `pending_target` | 3 connections, the delay | violation | a pending switch outlives its target |
| `clipboard` | 2 clients that connect twice, 1 value, 3 switches, 2 copies, 1 program's copy on the primary | 2,590,049 (with symmetry) | does a paste give what was copied last? |
| `admission` | 2 connections, 1 restart of the server | 26,119 | does every connection end with one owner or gone? |
| `multiplexer` | 2 callers, 2 sockets, 2 jobs, 3 calls, the destructor | 366,784 | right job, no lost wake-up, nobody waits for ever; is it a table of jobs? |
| `sockets` | a listener and a data socket, 2 bytes each way, 2 connections | 261,033 | is nothing forgotten by the jobs; does flush return, is the peer heard? |
| `packets` | headers of 2 digits in base 2, 3 packets of up to 2 bytes | 191,468 | are packets whole, in order and read; is the end told? |
| `events` | a second thread, a one-shot and a recurring timer of 1 or 2, 3 events a thread, time up to 2 | 300,293 | each event once and in order; is no timer early, does nothing wait for ever? |
| `server_life` | 2 clients, 2 failures, 4 changes, 1 error or quit | 216,272 | do the parts fit the state; does closing end, does the server serve again? |
| `client_life` | 3 suspends, 1 error or quit | 27,464 | has each stage its timer, is the client never forgotten, does it come back? |
| `keep_alive` | rate 3, options 0 and 2, death after 3, delay 1, 1 reload, 1 change of shape | 195,488 | is nobody alive taken for dead, and whoever is gone noticed? |

### What the properties say

A module has one invariant that fits its parts together, made of named parts
which a reader will want to look at one by one; the runs check the bundle.

| bundle | parts | what it takes to break it |
|---|---|---|
| `StateFits` (`Server`) | `TypeOK`, `AssertionsHold`, `SaverHasPrimary` | a forced move or a saver at the wrong moment |
| `ScreensAgree` (`Clipboard`) | `TypeOK`, `CleanScreensAgree`, `FirstConnectionHasSent` | a dirty flag that withholds new data |
| `ConnectionsAreOwned` (`Admission`) | `TypeOK`, `OneOwner`, `OwnerWatches`, `WaitsForToldOnly`, `HandshakeEnds`, `WaitingAreAnnounced` | two ends of one handshake, a client that goes while it waits, a server that is deleted with clients |
| `ListFits` (`SocketMultiplexer`) | `MuxTypeOK`, `PollMatchesJobs`, `OneJobPerSocket`, `AsleepWithoutSockets` | an edit between a poll and a run, a socket removed and added again |
| `SocketsArePolled` (`Sockets`) | `TypeOK`, `OutputIsPolled`, `InputIsPolled`, `ListenerIsPolled`, `ClosedIsNotPolled` | a job from an old state that replaces a newer one |
| `NothingIsLost`, `PeersAreHeard` (`Sockets`) | `InputIsAnnounced`, `NothingLeftBehind`, `FlushedMeansSent`; `TheEndIsTold`, `ConnectionsAreAnnounced` | input that comes while the buffer is being read, an end that overtakes it |
| `PacketsAreWhole`, `EverythingIsTold` (`PacketFilter`) | `PacketTypeOK`, `NothingIsMisread`, `PacketsAreAnnounced`, `OnlyBehindHello`; `PacketsAreRead`, `EndIsTold` | a change of readers with packets in the buffer, an end that was kept back |
| `NumbersFit`, `NothingWaitsForEver` (`EventQueue`) | `TypeOK`, `NumbersAreInUseOnce`; `EventsAreHandled`, `TimersExpire` | a number given back between two locks |
| `PartsFit` (`ServerLife`) | `TypeOK`, `AssertionsHold`, `SuspendedDoesNotServe` | a handler inside the nested loop, a retry after a suspend |
| `ClientFits` (`ClientLife`) | `TypeOK`, `EveryStageIsTimed`, `SuspendedIsAlone`, `NeverForgotten` | a suspend with events queued and restart timers set |
| `EndsAgree` (`KeepAlive`) | `TypeOK`, `RatesAgree`, `AlarmsFollowRate`, `MouseIsAcknowledged` | a reload whose messages are on their way |
| `ServiceYields` (`SocketMultiplexer`) | `LockerGetsTheList`, `DestructorReturns` | a wake-up written before the poll it is for |

*Why the bounds are enough.* Two clients under one name and a third give each
pair of relations (same name, neighbour, not neighbour); a name, once lost,
can be taken again only by another connection, so three connections reach a
replaced client that comes back. `MaxSeq` bounds the number of switches; four
let the cursor go out, on, be forced back and go out again. In `clipboard` two copies and one
background copy with three switches contain each order of two grabs and one
leave, and a second connection has a client that owned the clipboard before. A grab
empties the clipboard in between, so that one value tells old contents from new; what
several values, more copies and the programs of clients do is covered by the proofs
of `ScreensAgree` and `PasteGetsLatest`. In `multiplexer` three calls by two threads contain an edit
while another caller waits and a removal before the service thread has purged, and
the destructor may come after any of them. In `sockets` two bytes are one that
comes into an empty buffer and one that finds it full, and two connections are one
that comes while another is being accepted; a socket that was closed may be
accepted again. In `packets` a packet of two bytes behind a header of two digits can be cut
in the header, behind it and in the payload, and of three packets one is the hello,
one finds the reader changed and one comes with another in the same piece. In `events`
two durations give timers that expire together, in order and against the order in
which they were made; three events a thread reuse the numbers of the first. In
`server_life` four changes are a suspend, a resume, a reset in between and one more
inside the nested loop. In `client_life` a third suspend comes with two restart timers set. In
`keep_alive` the option is set at adoption and once more, so that the rate goes from
each value to each other while messages of the old one are on their way. The rates must
leave time for a round trip and the default rate for the four messages of the handshake
(`KeepAliveAssumption`; the second was found by the proof). The code's default of three seconds and
three missed keep-alives does if a message takes less than two and a quarter seconds.

*Deadlock* is not checked, because every system here may stop: a
server that was closed, a queue that is empty and clients that are gone, calls used up,
copies used up. That something waits for ever is stated as a liveness property instead.

*Mutants.* Every property of a passing run has a mutant, a plausible slip in a
definition that stands for code, which violates it under the run's own
configuration.

### Fairness

- `Server!FairSpec`: timers expire, because `EventQueue::getEvent` hands out an
  expired timer whenever the buffer is empty, and the nested loop of
  `closeServer` has a timer of its own. No fairness on what users or clients do.
- `Admission!FairSpec`: the loop dispatches queued events, and the timer of a
  handshake expires.
- `SocketMultiplexer!MuxFairSpec`: threads that can run do; a destructor that was
  begun goes on. Nothing is assumed about sockets having data, about the signal of a
  cancellation coming in time or about waits timing out.
- `Sockets!FairSpec`: threads go on and rounds end; a thread that waits for the table
  gets it (strong fairness, which is what `LockerGetsTheList` shows of the
  multiplexer); a socket that is polled again and again with something to do is served.
- `PacketFilter!PacketFairSpec`: the service thread reads what arrived, the main thread goes
  on, and a reader that was never told of a packet is ended by the timer of the handshake
  (`ClientProxyUnknown.cpp:272`), which only the client's information stops. Nothing is
  assumed about what the peer does.
- `EventQueue!FairSpec`: the loop goes on, time goes on, a thread that is adding an
  event adds it.
- `ServerLife!FairSpec`: the next event is handled and timers fire. Nobody has to
  resume, no client has to go.
- `ClientLife!FairSpec`: the same; and an attempt made again and again succeeds
  in the end (strong fairness on the dialling, on the connection and on the
  handshake), which is a statement about the network that `ComesBack` cannot do without. A
  connection that is ready counts as having come back if the server answers, or if it was the
  server's wish to have no heartbeat, when nothing tells the client that the server is gone.
- `KeepAlive!FairSpec`: events are handled, timers fire and time goes on.

### The violation

`pending_target` shows a use of a deleted object: `forceLeaveClient` forgets a
pending switch only if the client that goes is the active one (`Server.cpp:2207`).
A client that is only the *target* leaves `m_switchScreen` behind, and the timer
enters the deleted proxy.

### Other statements the code does not keep

Each of these is a formula of a module, or a condition that a property carries,
which TLC refutes without it. They are in no run; the passing runs state what does hold.

| formula or condition | code | what happens |
|---|---|---|
| `IndexesAgree` with aliases | `Server.cpp:2103` | `removeClient` erases by the name the new configuration gives; a client under an alias that was dropped stays in `m_clients` |
| `SearchEnds` | `Server.cpp:604` | `getNeighbor` goes past absent screens until a link is missing; on a circle of absent screens it goes round for ever |
| `SenderOwnsClipboard` | `Server.cpp:1509` | the data of the previous owner may be parsed after the grab of the new one, and the assert fails |
| `LaterCopyWins` for a client that copies twice | `Server.cpp:1509` | a client that still owns the clipboard copies again and sends data without a grab; if another has copied in between and the client has not heard of it, the assert fails |
| `PasteGetsLatest` without `client[o].seq >= clipboard.seq` | `Server.cpp:1219` | a client that connects again has sequence number 0 until the cursor enters it; what a program copies there before is refused, and the client goes on believing it owns the clipboard |
| `InactiveOwnerHasSent` | `Client.cpp:652` | `m_active` survives a lost connection, so the client waits for a leave that will not come |
| `NewClientIsListed` | `ClientListener.cpp:173` | ready and the end of the connection may both be queued, and the end of the handshake is handled twice |
| `NoClientIsLeft` (`Admission`) | `Server.cpp:246` | `~CServer` means to "force immediate disconnection of secondary clients" (line 244), but its loop goes from `begin()` to `begin()`: a client that has not gone after the three seconds of `closeServer` stays connected, with a timer and handlers whose server is deleted |
| `PendingIsAnnounced` (`PacketFilter`) | `ClientProxyUnknown.cpp:243` | the proxy takes the stream over and is not told of packets in the filter; a client that writes behind its hello, as it does when its clipboard is grabbed or its shape changes, stalls, since `readMore` tells only of a filter that becomes ready, until the timer of the handshake drops it. `CClient` guards against the same on its side (`Client.cpp:688`) |
| `AcceptMayFindNothing` (`Sockets`) | `TCPListenSocket.cpp:113` | accept "returns NULL if no socket is waiting to be accepted" (`IListenSocket.h:39`); but if the connection that poll reported is gone, `acceptSocket` returns NULL and accept makes a `CTCPSocket` of it, which asserts (`TCPSocket.cpp:64`) |
| `BrokenOutOfPoll` | `ArchNetworkBSD.cpp:875` | the pipe is stored for the thread that asks for it; a caller, or the destructor, that comes before the first poll wakes nobody |
| `JobsDoNotChangeJobs` | `TCPListenSocket.cpp:141` | on an error the listener's job closes it, and waits for the list its own thread has (`stuck`) |
| without `deaf` | `TCPListenSocket.cpp:122` | after an accept that failed nobody gives the listener a job again |
| `ResetKeepsRunning` | `ServerApp.cpp:783` | the timer of `closeServer` and the event of the last client both post `kQuit`; the second ends the program |
| phase `closed twice` | `ServerApp.cpp:378` | a `stopServer` inside the nested loop of another deletes the listener again |
| phase `crashed` | `ServerApp.cpp:768`, `ClientApp.cpp` | a program that waits for its screen at the start goes on without one |
| `EventsAreInTheQueue` with `Early` | `EventQueue.cpp:113` | an event added while the loop empties `m_pending` may stay there |
| `polite` in `LiveIsKept` | `ClientProxy1_0.cpp:177` | a no-op before the client's information makes `addHeartbeatTimer` forget an alarm, which then goes off |
| `BrokeInside` in `EndIsTold` | `PacketStreamFilter.cpp:191` | a connection that ends inside a packet is never told of its end; only the heartbeat finds it |
| `restarts =< 1` | `ClientApp.cpp:344` | each suspend may leave one more restart timer; `RestartsAreCounted` says how many there are |

Some behaviours of the models are the code's and may surprise: a client without
`--restart` quits when it is suspended; a resume that comes while the suspend still
closes its server is lost; a quit that is posted while a server is closed may be
taken by the nested loop; a second change of the client's shape is acknowledged by
the answer to the first; the server takes a client's information only when it asked,
and relies on the client not to send it earlier. The case of `kInitializingToStart`
in `retryHandler` cannot happen: no build both waits for its screen and comes to its
loop, which `LoopIsUp` in `ServerLife_proofs` proves.

## 4. Proofs

Eight modules, 38 theorems. TLC evaluates the assumptions about the constants
(`ServerAssumption`, `LayoutAssumption`, `ClipboardAssumption`, `AdmissionAssumption`,
`MultiplexerAssumption`, `SocketsAssumption`, `PacketAssumption`, `SizeFits`,
`EventQueueAssumption`, `LifeAssumption`, `ClientAssumption`, `KeepAliveAssumption`), which
say that these are what they are named for; that no packet is longer than a header can say;
and, for the keep-alives, that the network is fast enough for the rates that are asked for.

`Server_proofs` proves for any names, connections, layouts and options:

- `TypeCorrect`: `Spec => []TypeOK`, with no further assumption.
- `CursorInvariant`: `Orderly /\ Spec => []CursorInv`.
- from it `CursorStaysConnected`, `EntersAreBalanced`, `IndexesAlwaysAgree`,
  `SaverStaysHome`, `StateAlwaysFits`, `HandlersAreSafe`, the safety properties of the runs.
- `CursorIsOwned`: `Server` implements `CursorOwner`, with `screens <- clientSet`
  (and the primary) and `owner <- active`.
- `GateAlwaysFollows`: nothing waits that no option asks for, with no further assumption.
- `LockAlwaysHolds`: a locked cursor stays, assuming `SaverExclusive` and no hotkeys, which
  ask nobody; aliases, delays and reloads are allowed.
- `CloseAlwaysAnnounced`: assuming `Orderly`, a server that closes and has nobody left to
  wait for has said so.

*Assumptions.* `Orderly` is three conditions, each
needed: `NoAliases` (no raw name but a canonical one leads to a screen),
`NoDelay` (no configuration turns `switchDelay` on) and `SaverExclusive`.
`Server.cpp:2103` and `pending_target` are counterexamples without the first two;
without the third the cursor may be moved while the saver runs, and the saved
screen be left twice.

*Argument.* That the active screen is connected is not inductive: it may be
reached by `m_clients[name]`, through the saver's memory, or by a pending
switch. `CursorInv` adds that the two indexes mirror each other under the
name a client announced, that whatever is listed exists, that exactly the
active screen is entered, that the saver's screen is listed, and
that nothing waits. Each handler is shown to keep it, together with
`TypeOK` and the step of `CursorOwner` it takes (`CursorStep`); the layout matters only in
that a search that ends, ends at a listed screen (`ListedScreensExist`). The
path of `getNeighbor` is a recursive function whose values are not needed for
that, so no induction over it is. `LockHolds` needs that while the saver runs the cursor
is at home and nothing waits (`SaverAside`), without which a client that goes could
move it by what was pending. `CloseIsAnnounced` needs that nobody but the primary is
listed once `closeClients` has run (`OnlyPrimary`).

`Clipboard_proofs` proves `ScreensAgree`, `PasteGetsLatest` and `LaterCopyWins` for any
clients, contents, switches, copies and connections. That a clean screen has what the server has is not
inductive. `AgreeInv` adds what is on the way: the last grab or data in a client's channel
brings what the server has (`UpToDate`), to every screen that is clean, and to the active
client even if its flag says otherwise, because it is given what is new at once;
nothing is on its way to or from a client that is not connected (`Linkage`);
and in a channel enters and leaves alternate, the last of which says whether the client
is the active screen (`Crossing`). `PasteInv` adds for each client that sequence
numbers never go back on the way from the client through its channel and the queue of
events to the server (`Ordered`); that what it has sent last is the last of what is on
its way (`SentIs`) and will not be refused (`TakenIs`); and that a client whose number is
older than the clipboard's, which happens after a reconnection, is told the
contents at its first enter (`StaleIsTold`). A message passes two queues, so what is
known of them is stated of any two sequences, and that it stays true when a sequence
grows at its end or loses its head is shown once for each statement.
`CopyInv` adds who may use a sequence number: what a client has, will get with an enter
or has sent is nobody else's, and the owner's if it is the clipboard's (`Tenure`); a grab of
the primary, which is always accepted, is newer than all before it as long as programs
copy nothing (`PrimaryIsNewest`); and the grab and the data of a client whose user copied once
have one number, with which the data come after the grab, or the clipboard has a later
number or is the client's (`OneCopy`). That this last fact, once true, stays true as long as
the client may still send with that number (`SettledStays`) is where the three meet.
The attempt showed that two properties had been too strong, and held in the run
only by its bounds: see `PasteGetsLatest` and `LaterCopyWins` in the table above.

`Admission_proofs` proves `ConnectionsAreOwned` for any connections and restarts of the
server. `IInv` says of each stage of a connection (`Local`) which events are
posted for it, how often and in which order, who handles them, and who owns the proxy; a
handler is about one connection, so that one is looked at and the others keep
theirs because they keep their events. A proxy that a deleted server left behind (`abandoned`)
is nobody else's, and a server that closes waits for none but those it told to go
(`WaitsForToldOnly`). The order matters: what a proxy posts last is that
it is disconnected, and a proxy that is waiting has exactly one announcement in the queue.

`Sockets_proofs` proves of `SocketMultiplexer`, for any number of callers, sockets and jobs
that the job list has one user at a time (`ListIsExclusive`) and that whoever has
the lock on the lock is the next to have it (`LockerIsNext`). The invariant
`LockInv` is more than `OneAtTheList`: it says of each lock that its owner is
*exactly* the thread between taking it and giving it back, for both the list and
the lock on it. The second is needed because `lockJobList` lets a thread in for
having the lock on the lock, and gives that lock up without asking who else might
have it. A service thread that was cancelled in its poll counts as being at the
list for ever. The asserts of `lockJobList` and `unlockJobList` are instances of it
(`LocksAreOwned`).

`TheListFits` proves `ListFits`: no socket has two nodes, the map leads to the
node of each socket, the array that is polled has a job's index exactly where the list has
the job, and the cursors are nodes. `MultiplexerIsJobTable` proves that every step is one of `JobTable`,
or changes nothing of it. The table is computed from the list by a walk over it, so the walk
(`WithJob`) is a recursive function of the list's length, and what it gives for a list that
lost or gained a node is proved by induction.

Of `Sockets` the same module proves `SocketsArePolled` and `NothingIsLost`, for any number
of bytes and connections and any order of service, write, read, flush and close
(`SocketsAreAlwaysPolled`, `NothingIsEverLost`). Neither is inductive: that a socket is
polled for its output depends on the job that the main thread has just made from two looks
at the fields and has not set yet. `IInv` has three parts. `TInv` is what the table
promises. `DInv` is about the data socket: the job on its way asks for whatever the socket
waits for now (`NextFits`), since between the looks only the service thread runs and it
never makes the socket wait for more; a socket that still connects is not served before its
first job is set (`JobFits`); the end of the input is behind the input in the queue of
events (`FieldsFit`); and a closed socket has no job, no event and no peer
(`ClosedHasNothing`). `LInv` is about the listener: it has a job, an event or a job to come,
never two of them (`ListenerFits`). The attempt found an action of the model that could not
happen (`AcceptFailed` both changed `deaf` and left it alone); it does now, and the run was
made again.

`ClientLife_proofs` proves `ClientFits`, part by part, for any number of suspends
and errors. `NeverForgotten` is inductive together with the rest: each handler that
ends a connection posts an event, and each event is traded for an attempt, a timer or
a resume to come. A connection that is ready has an alarm exactly if the server wants a
heartbeat (`EveryStageIsTimed`), so that `heartbeat` follows the options in every handler.
It is about what is in a sequence, so lemmas about `Append` and
`Tail` say which events stay on their way.

`ServerLife_proofs` proves `PartsFit` for any bounds. It is not inductive: in
`kInitializingToStart` `retryHandler` would start a server that has no screen.
`LoopIsUp` adds that the loop never sees that state, and that under X the screen is
there and only the end of the program closes a server; `NothingYet` says what
there is before the loop. The parts of the program are values (`Fits`), so that what
`startServer`, `stopServer` and `cleanupServer` come to is shown once, and each
handler cites it.

`RestartsStayCounted` is a balance: restart timers, attempts to come and the
connection together are never more than the suspends so far and one, because every handler
trades one for another but a suspend, which may leave a timer behind.

`EventQueue_proofs` proves `TimersAreNotEarly` for any threads, timers and durations: the
time `left` of a timer less the time since timers were looked at is the time until it is due
(`TimersInv`), through counting down, the restart of the clock, and a timer made in between,
to which the code adds the clock's time for that reason. `TheNumbersFit` proves that the
numbers in the buffer, in the table of events and in the list of old ones are apart and
complete, also between the locks (`Numbers`, `Threads`): a number is reused only when
`removeEvent` has freed it. `EventsKeepOrder` proves that the queue implements `EventOrder`,
assuming that no other thread adds an event before the loop is ready (`Early = {}`);
`EventsAreInTheQueue` in section 3 says what happens otherwise. What waits for dispatch is
the events of `buffer` in order, then those a thread is adding; `OrderInv` says where each
of them is.

`Connection_proofs` proves of `KeepAlive` `EndsAgree` and `LiveIsKept` for any rates,
options, periods and delays. What is on its way to the client brings it the server's rate,
because options come right after a reset and the last ones are the server's. An alarm is
answered for by a message that arrives before it goes off or by the next keep-alive, which
leaves in time for the way there and back (`InTime`); each second takes one from the alarm
and one from what it waits for, so the strict inequality stays, and an alarm at 0
contradicts it.

Of `PacketFilter` the same module proves `PacketsAreWhole` (`PacketsStayWhole`) and that the
filter implements `PacketStream` (`FilterIsAStream`), for headers of any length and base,
any packets, and bytes cut anywhere. `PInv` says that what the three buffers hold, and what
was lost behind them, is what was written and not read (`BytesFit`), where `m_size`
stands for a header that was taken. That it stays so when a header is read is arithmetic:
the digits that `write` makes of a length make that length again
(`DecodedIsLength`); that it stays so when bytes are popped is about how sequences are cut
and joined (`Cut`, `Cancel`, `BytesArePopped`). The end is told after the last packet for three
reasons: input is announced ahead of the end of the socket (`InputFirst`), so nothing
is in the socket's buffer when its end is handled; the filter keeps the end back
while a packet is unfinished (`EndFits`); and an idle filter holds no header that it
has not read (`HeaderIsRead`), so that what is left is less than any packet. When one
reader gives way to the next, what was read ahead has its event (`ReadyFits`) on a client, because
`handleHello` posts one; on a server it has none, and that nothing else is ever left like
this is `OnlyBehindHello`.

*Induction over data.* The library's induction theorems have an operator as a parameter,
which the provers cannot instantiate. What is proved about walks over a sequence is proved
from `WFMin`, the least element of a non-empty set of numbers (`LeastNat`, `SetInduction`,
`SeqInduction`), for sets of sequences. The recursive operators of the community modules
stay out of reach, so where a theorem needs a filter or a fold the module has a recursive
function of its own (`WithJob`, `AddedBy`, `Tails`, and the digits of a header).

*Only model-checked*:

- all liveness, which is out of the prover's reach, as is `ENABLED`: `ClosedClientsGo`,
  `EveryConnectionSettles`, `ServiceYields`, `FlushReturns`, `PeersAreHeard`, `EverythingIsTold`,
  `NothingWaitsForEver`, `ClosingEnds`, `ServesAgain`, `ComesBack`, `GoneIsNoticed`.

Every safety property of a passing run is stated by a theorem.

## 5. Not modelled, and known differences

- The parts listed as `not_modelled` in `PROJECT.json`, with the reason.
- The program is written in C and C++, and that is what is modelled. The files of the
  repository that end in `.ts` are no TypeScript but Qt's translation tables of the GUI
  (XML, `gui/gui.ts` and `gui/res/lang`), which have no behaviour to model.
- Memory: an address is never used twice, although `removeHandler` leaves queued
  events whose target may be allocated again.
- The wrap of the 32-bit sequence number; the second clipboard identifier.
- Names, versions and encryption of a handshake; `CCryptoStream`.
- The proxies of versions 1.0 to 1.2, which send no keep-alives; key, mouse and
  file messages.
- A network so slow that a keep-alive takes longer than the alarm, and a main thread
  that is blocked for as long: both make the code drop a live client, and
  `KeepAlive` assumes neither.
- `shutdownInput` and `shutdownOutput` of sockets and streams, which nothing calls.
- The event buffers of the window systems, the table of handlers and the names of events.
- Windows wakes a poll with an event object instead of a pipe; it is made at the first
  poll too, and a caller that finds none wakes nobody.
- The clients that survive `~CServer` (`Server.cpp:246`, see `NoClientIsLeft` in section 3): that
  their timers and handlers use the deleted server is a fault of both models (the late
  `ClientCloseTimeout` of `Server`; `LateCloseTimeout` and `LateDisconnected` of
  `Admission`), after which they say nothing more. `CursorInv` and its theorems speak of the
  time while there is a server.
- The events that are queued for a socket are dropped in one step with its close (`Closed`); in the
  code those without a handler stay in the queue and have no effect.
- That a server which writes behind its hello would wait for the client's answer first:
  `PacketFilter` lets both ends write at any time.
- A switch is called off by a locked corner or the lock but a hotkey that jumps
  to a screen asks neither (`Server.cpp`, `jumpToScreen`): the code does so.
- The micro client (`uSynergy.c:462` keeps half a packet over a reconnect), the threads
  of drag and drop (`Server.cpp:1819`) and the search for a neighbour that does not end
  (`Server.cpp:604`, a fault of the model): listed as hazards no property covers. The editing
  of configurations (`Config.cpp:140`) is not modelled.

## 6. Plan

Done: the cursor and the clients, the clipboard, admission, the multiplexer, sockets,
packets, the event queue, the life cycles, the keep-alives, and the proofs of section 4.

Left to model, in this order:

1. `LogForwarding` (`CIpcLogOutputter`): its writers and its thread; every line is
   sent in the end.
2. `Keys`: keys held while the cursor switches screens; what went down comes up.
3. `ConfigEdit`: the editing operations and their consistency; hotkeys; drag and file
   threads; the micro client over `PacketStream`.

Left to prove: nothing of the safety properties that the runs check. What a new module
checks should be proved in the module of the component that it belongs to; none of the
modules declares a `RECURSIVE` operator, for that reason.
