----------------------------- MODULE ListenSocket -----------------------------
(***************************************************************************)
(* CTCPListenSocket.  Its job asks for connections, posts the event for    *)
(* one and ends; accept gives the multiplexer a new job.  bind, accept and *)
(* the destructor are the main thread's; the job is the service thread's.  *)
(***************************************************************************)
EXTENDS SocketJobs, Naturals

CONSTANTS
    Listener,           \* this socket
    MaxConnections      \* bound on the connections that come

ListenJob == [kind |-> "listening", read |-> TRUE, write |-> FALSE]

ASSUME ListenAssumption ==
    /\ Listener \in Socket
    /\ MaxConnections \in Nat

VARIABLES
    listening,      \* "new", "open" after bind, "closed"
    backlog,        \* connections the kernel holds
    connections,    \* how many came
    connecting,     \* events posted and not handled
    owed,           \* bind or accept is about to give the multiplexer a job
    deaf,           \* an accept has failed
    stuck           \* the service thread waits for the list it has itself

listenVars == <<listening, backlog, connections, connecting, owed, deaf, stuck>>

ListenInit ==
    /\ listening = "new" /\ backlog = 0 /\ connections = 0 /\ connecting = 0
    /\ owed = FALSE /\ deaf = FALSE /\ stuck = FALSE

ListenIdle == main = "idle" /\ ~owed

\* The service thread can go on.
Serving == ~stuck /\ main # "aborted"

Bind ==
    /\ ListenIdle /\ listening = "new"
    /\ listening' = "open" /\ owed' = TRUE
    /\ UNCHANGED tableVars /\ UNCHANGED <<backlog, connections, connecting, deaf, stuck, main>>

AddListener ==
    /\ main = "idle" /\ owed /\ Table!SetJob(Listener, ListenJob)
    /\ owed' = FALSE
    /\ UNCHANGED <<listening, backlog, connections, connecting, deaf, stuck, main>>

\* handleClientConnecting accepts.  If accept throws, as when there are no more
\* descriptors, it returns without giving the multiplexer a job.
AcceptFailed ==
    /\ ListenIdle /\ connecting > 0
    /\ connecting' = connecting - 1 /\ deaf' = TRUE
    /\ UNCHANGED tableVars /\ UNCHANGED <<listening, backlog, connections, owed, stuck, main>>

\* A poll that found a connection promises none to accept: acceptSocket returns
\* NULL, and CTCPSocket is made of it and asserts.
AcceptFindsNothing ==
    /\ ListenIdle /\ connecting > 0 /\ backlog = 0
    /\ main' = "aborted"
    /\ UNCHANGED tableVars /\ UNCHANGED listenVars

AcceptForgets ==
    /\ ListenIdle /\ connecting > 0 /\ connecting' = connecting - 1
    /\ backlog > 0 /\ backlog' = backlog - 1
    /\ UNCHANGED <<listening, connections, owed, deaf, stuck>>

AcceptTakes ==
    /\ ListenIdle /\ connecting > 0 /\ connecting' = connecting - 1
    /\ backlog > 0 /\ backlog' = backlog - 1
    /\ owed' = TRUE
    /\ UNCHANGED <<listening, connections, deaf, stuck>>

\* The destructor: the job goes before the descriptor is closed.
DropListener ==
    /\ ListenIdle /\ listening = "open"
    /\ main' = "dropListener"
    /\ UNCHANGED tableVars /\ UNCHANGED listenVars

RemoveListener == Table!SetJob(Listener, NULL)

ListenerDropped ==
    /\ main = "dropListener" /\ RemoveListener
    /\ main' = "idle" /\ listening' = "closed" /\ connecting' = 0 /\ backlog' = 0
    /\ UNCHANGED <<connections, owed, deaf, stuck>>

ConnectionComes ==
    /\ listening = "open" /\ connections < MaxConnections
    /\ connections' = connections + 1 /\ backlog' = backlog + 1
    /\ UNCHANGED tableVars /\ UNCHANGED <<listening, connecting, owed, deaf, stuck, main>>

\* A peer resets its connection before it is accepted, and the kernel drops it.
ConnectionGone ==
    /\ backlog > 0 /\ backlog' = backlog - 1
    /\ UNCHANGED tableVars /\ UNCHANGED <<listening, connections, connecting, owed, deaf, stuck, main>>

\* serviceListening.
ServeListening ==
    /\ busy /\ Serving /\ polled[Listener] # NULL /\ backlog > 0
    /\ connecting' = connecting + 1
    /\ Table!Run(Listener, NULL)
    /\ UNCHANGED <<listening, backlog, connections, owed, deaf, stuck, main>>

\* On an error it closes the socket, and close calls removeSocket, which waits
\* for the list until the round ends, and the round does not end.
ServeListenError ==
    /\ busy /\ Serving /\ polled[Listener] # NULL
    /\ stuck' = TRUE
    /\ UNCHANGED tableVars /\ UNCHANGED <<listening, backlog, connections, connecting, owed, deaf, main>>
===============================================================================
