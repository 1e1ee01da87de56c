-------------------------------- MODULE Sockets --------------------------------
(***************************************************************************)
(* A listening socket and a data socket that it accepts, or that connects, *)
(* over one multiplexer and one main thread.  When the data socket was     *)
(* closed another may be accepted at its address.                          *)
(***************************************************************************)
EXTENDS DataSocket, ListenSocket

\* They are two sockets.
ASSUME SocketsAssumption == Me # Listener

vars == <<dataVars, listenVars, main, tableVars>>

Init ==
    /\ DataInit /\ ListenInit
    /\ main = "idle"
    /\ Table!TableInit

\* accept: the new socket makes its job, then the listener gets one.
Accept == AcceptTakes /\ Accepted

\* A program is a server, which listens, or a client, which connects.
AsClient == Connect /\ listening = "new"
AsServer == Bind /\ ~sock.open

DataUser == ~owed /\ (AsClient \/ User \/ Handle)
ServeSocket == Serving /\ ServeData
Data == DataUser \/ MainGoesOn \/ MainHasTable \/ Peer \/ ServeSocket
Listen ==
    \/ AsServer \/ AddListener \/ AcceptFailed \/ AcceptFindsNothing
    \/ DropListener \/ ListenerDropped
    \/ ConnectionComes \/ ConnectionGone \/ ServeListening \/ ServeListenError

\* A round of the multiplexer.  It ends by itself when poll finds nothing, as
\* if a caller had broken it off.
Round ==
    /\ Serving
    /\ Table!BeginRound \/ Table!NothingFound \/ Table!EndRound
    /\ UNCHANGED <<dataVars, main, listenVars>>

Next ==
    \/ Data /\ UNCHANGED listenVars
    \/ Listen /\ UNCHANGED dataVars
    \/ Accept
    \/ Round

Spec == Init /\ [][Next]_vars

\* Threads go on, rounds end, a thread that waits for the table gets it (this is
\* LockerGetsTheList of SocketMultiplexer), the user handles its events, and a
\* peer that is up takes what it is sent.
FairSpec ==
    /\ Spec
    /\ WF_vars(MainGoesOn /\ UNCHANGED listenVars)
    /\ SF_vars(\/ MainHasTable /\ UNCHANGED listenVars
               \/ (AddListener \/ ListenerDropped) /\ UNCHANGED dataVars)
    /\ WF_vars(Round)
    /\ SF_vars(ServeSocket /\ sock' # sock /\ UNCHANGED listenVars)
    /\ SF_vars(ServeListening /\ UNCHANGED dataVars)

-----------------------------------------------------------------------------
Events == {"connected", "inputReady"} \cup Ends

\* The type invariant.
TypeOK ==
    /\ sock \in [open : BOOLEAN, connected : BOOLEAN, readable : BOOLEAN, writable : BOOLEAN,
                 input : 0..MaxSent, output : 0..MaxWritten, flushed : BOOLEAN,
                 events : Seq(Events), renew : {FALSE}]
    /\ peer \in {"none", "connecting", "refused", "up", "gone", "reset"}
    /\ arrived \in 0..MaxSent /\ sent \in 0..MaxSent /\ written \in 0..MaxWritten
    /\ main \in {"idle", "look", "make", "setJob", "reading", "flush", "close", "dropListener",
                "aborted"}
    /\ job \in [Socket -> Interest \cup {NULL}] /\ polled \in [Socket -> Interest \cup {NULL}]
    /\ next \in Interest \cup {NULL} /\ busy \in BOOLEAN
    /\ listening \in {"new", "open", "closed"} /\ owed \in BOOLEAN /\ deaf \in BOOLEAN /\ stuck \in BOOLEAN
    /\ backlog \in 0..MaxConnections /\ connecting \in 0..MaxConnections

MainMakesJob == main \in {"look", "make", "setJob"}

\* write, flush: what is in the output buffer is waited for.  The socket's job
\* asks poll for it, or the main thread is about to set a job that does, in
\* whatever order write, the job's run and setJob come: a job made from the state
\* of a moment ago never replaces one that waits for output (TCPSocket.cpp:180).
OutputIsPolled ==
    sock.connected /\ HasOutput(sock) =>
        \/ MainMakesJob /\ (main = "look" \/ next # NULL)
        \/ job[Me] # NULL /\ job[Me].write

\* The same of the input, as long as the peer may send: no job that was made
\* without the mutex leaves the socket unread.
InputIsPolled ==
    sock.connected /\ sock.readable =>
        \/ MainMakesJob
        \/ job[Me] # NULL /\ job[Me].read

\* serviceConnected tells of input only if the buffer was empty
\* (TCPSocket.cpp:523), the user reads until it is empty again: whatever the two
\* threads do in between, no input waits without an event for it.  A connection
\* that broke while it was read is left out: its bytes may stay untold.
InputIsAnnounced ==
    sock.input > 0 /\ peer # "reset" =>
        main = "reading" \/ \E i \in DOMAIN sock.events : sock.events[i] = "inputReady"

\* EventTypes.h:122: "When the input has shutdown, no more data will ever be
\* available to read".  The buffer is not emptied at the end of the input
\* (TCPSocket.cpp:529), but it is when the user comes to the event.
NothingLeftBehind ==
    main = "idle" /\ sock.events # <<>> /\ Head(sock.events) = "inputShutdown" /\ peer # "reset"
        => sock.input = 0

\* close and the destructors take the job away before the descriptor is closed,
\* so that poll is never given a closed one, or one that was opened since.
ClosedIsNotPolled ==
    /\ ~sock.open => job[Me] = NULL /\ (busy => polled[Me] = NULL)
    /\ listening = "closed" => job[Listener] = NULL /\ (busy => polled[Listener] = NULL)

\* m_flushed, which flush waits for, is not forgotten on any path that empties
\* the output buffer: written, shut down, disconnected, or an error.
FlushedMeansSent == sock.flushed <=> sock.output = 0

\* TCPListenSocket.cpp:134: "stop polling on this socket until the client
\* accepts".  A bound listener has a job, or somebody is about to give it one,
\* until an accept fails, after which nobody does.
ListenerIsPolled ==
    listening = "open" /\ main # "dropListener" => owed \/ connecting > 0 \/ deaf \/ job[Listener] # NULL

\* flush, by which the main thread sends the last message to a client
\* (ClientProxy.cpp:48), returns if the peer takes bytes or goes away (and the
\* service thread is not stuck).
FlushReturns == (main = "flush") ~> (main # "flush" \/ ~Serving)

\* A peer that hangs up, or never answers the connection, is noticed: the input
\* is shut down and the socket no longer waits to be connected.
TheEndIsTold ==
    (peer \in {"gone", "refused", "reset"} /\ sock.open)
        ~> ((~sock.readable /\ (sock.connected \/ ~sock.writable)) \/ ~Serving)

\* A connection that comes is announced, also when it comes while another is
\* announced or being accepted.
ConnectionsAreAnnounced ==
    (backlog > 0 /\ listening = "open")
        ~> (connecting > 0 \/ backlog = 0 \/ listening = "closed" \/ deaf \/ ~Serving)

\* ISocketMultiplexerJob.h:43: "This call must not attempt to directly change
\* the job for this socket by calling addSocket() or removeSocket()".  The job of
\* a listening socket does when poll reports an error, and waits for itself.
JobsDoNotChangeJobs == ~stuck

\* IListenSocket.h:39, of accept: "Returns NULL if no socket is waiting to be
\* accepted".  It does not: it makes a CTCPSocket of NULL (TCPSocket.cpp:64).
AcceptMayFindNothing == main # "aborted"

\* Whatever a socket waits for, and no closed one, is in the table of the
\* multiplexer, or the thread that will put it there is on its way.
SocketsArePolled ==
    TypeOK /\ OutputIsPolled /\ InputIsPolled /\ ListenerIsPolled /\ ClosedIsNotPolled

\* Input and output that is in the buffers is not forgotten there: there is an
\* event for the one, the end is told after it, and flush waits for the other.
NothingIsLost == InputIsAnnounced /\ NothingLeftBehind /\ FlushedMeansSent

\* What the peer does is told in the end: that it hung up, and that it connected.
PeersAreHeard == TheEndIsTold /\ ConnectionsAreAnnounced
===============================================================================
