------------------------------ MODULE DataSocket ------------------------------
(***************************************************************************)
(* CTCPSocket: buffers between its user, on the main thread, and the       *)
(* service thread of the multiplexer, which runs the socket's job.  Both   *)
(* change the fields under m_mutex, in one step.  The user then asks for a *)
(* new job without the mutex (setJob(newJob()) after the lock is gone), in *)
(* two looks at the fields, and gives it to the multiplexer when that is   *)
(* not in a round.  Bytes are counted, not named: a buffer is a queue.     *)
(***************************************************************************)
EXTENDS SocketJobs, Naturals, Sequences

CONSTANTS
    Me,             \* this socket
    MaxSent,        \* bound on the bytes the peer sends
    MaxWritten      \* bound on the bytes the user writes

ASSUME DataAssumption ==
    Me \in Socket /\ NULL \notin Interest /\ MaxSent \in Nat /\ MaxWritten \in Nat

VARIABLES
    sock,           \* the fields of the socket, and the events it has posted
    peer, arrived,  \* the other end, and its bytes that the kernel holds
    sent, written,  \* counts for the bounds
    told,           \* the user knows that the socket is connected
    next            \* the job the main thread is making

dataVars == <<sock, peer, arrived, sent, written, told, next>>
Env == <<peer, arrived, sent>>

NoSocket ==
    [open |-> FALSE, connected |-> FALSE, readable |-> FALSE, writable |-> FALSE,
     input |-> 0, output |-> 0, flushed |-> TRUE, events |-> <<>>, renew |-> FALSE]

DataInit ==
    /\ sock = NoSocket
    /\ peer = "none" /\ arrived = 0 /\ sent = 0 /\ written = 0
    /\ told = FALSE /\ next = NULL

-----------------------------------------------------------------------------
(***************************************************************************)
(* The fields.  k is a value of sock; renew is serviceConnected's          *)
(* needNewJob.                                                             *)
(***************************************************************************)
Post(k, event) == [k EXCEPT !.events = Append(@, event)]

OnConnected(k) == [k EXCEPT !.connected = TRUE, !.readable = TRUE, !.writable = TRUE]
OnInputShutdown(k) == [k EXCEPT !.input = 0, !.readable = FALSE]
ShutdownUnflushed(k) == [k EXCEPT !.output = 0, !.writable = FALSE]
OnOutputShutdown(k) == [k EXCEPT !.output = 0, !.writable = FALSE, !.flushed = TRUE]
OnDisconnected(k) == [OnOutputShutdown(OnInputShutdown(k)) EXCEPT !.connected = FALSE]
HasOutput(k) == k.writable /\ k.output > 0

NoInterest(k) ==
    \/ ~k.open
    \/ ~k.connected /\ ~k.readable /\ ~k.writable
    \/ k.connected /\ ~k.readable /\ ~HasOutput(k)

JobFor(kind, k) ==
    [kind |-> kind, read |-> k.readable,
     write |-> IF kind = "connected" THEN HasOutput(k) ELSE k.writable]

Kind(k) == IF k.connected THEN "connected" ELSE "connecting"
NewJob(k) == IF NoInterest(k) THEN NULL ELSE JobFor(Kind(k), k)

-----------------------------------------------------------------------------
(***************************************************************************)
(* The user, who writes only to a socket that is connected.  Each          *)
(* operation ends with the main thread idle, looking for a new job, or     *)
(* waiting.  Nobody calls shutdownInput and shutdownOutput.                *)
(***************************************************************************)
UserIdle == main = "idle" /\ UNCHANGED tableVars

\* A socket that was accepted starts connected.
Accepted ==
    /\ UserIdle /\ ~sock.open
    /\ sock' = OnConnected([NoSocket EXCEPT !.open = TRUE])
    /\ peer' = "up" /\ arrived' = 0 /\ sent' = 0 /\ written' = 0
    /\ main' = "look" /\ told' = TRUE /\ UNCHANGED next

\* At once, or later, or it throws, and CClient::connect deletes the socket.  The
\* client connects every socket once, so that none is busy.
Connect ==
    /\ UserIdle /\ ~sock.open
    /\ \/ /\ sock' = Post(OnConnected([NoSocket EXCEPT !.open = TRUE]), "connected")
          /\ peer' = "up" /\ main' = "look"
       \/ /\ sock' = [NoSocket EXCEPT !.open = TRUE, !.writable = TRUE]
          /\ peer' = "connecting" /\ main' = "look"
       \/ /\ sock' = [NoSocket EXCEPT !.open = TRUE]
          /\ peer' = "none" /\ main' = "close"
    /\ arrived' = 0 /\ sent' = 0 /\ written' = 0
    /\ told' = FALSE /\ UNCHANGED next

EmptyAfterWrite == sock.output + 1 = 0
WasEmpty == sock.output = 0
Write ==
    /\ UserIdle /\ told /\ written < MaxWritten
    /\ IF ~sock.writable
       THEN sock' = Post(sock, "outputError") /\ UNCHANGED main
       ELSE /\ sock' = [sock EXCEPT !.output = @ + 1, !.flushed = FALSE]
            /\ main' = IF WasEmpty THEN "look" ELSE "idle"
    /\ written' = written + 1
    /\ UNCHANGED <<Env, told, next>>

\* setJob(newJob()): the first look decides what job, the second what it asks.
LookForJob ==
    /\ main = "look" /\ UNCHANGED tableVars
    /\ IF NoInterest(sock) THEN next' = NULL /\ main' = "setJob"
       ELSE next' = JobFor(Kind(sock), sock) /\ main' = "make"
    /\ UNCHANGED <<sock, Env, written, told>>

MakeJob ==
    /\ main = "make" /\ UNCHANGED tableVars
    /\ next' = JobFor(next.kind, sock) /\ main' = "setJob"
    /\ UNCHANGED <<sock, Env, written, told>>

SetJob ==
    /\ main = "setJob" /\ Table!SetJob(Me, next)
    /\ next' = NULL /\ main' = "idle"
    /\ UNCHANGED <<sock, Env, written, told>>

\* read, as often as it gives something.
DrainedByRead(k) == k.input = 0 /\ ~k.readable /\ ~k.writable

Read ==
    /\ main = "reading" /\ UNCHANGED tableVars
    /\ \/ /\ sock.input = 0 /\ main' = "idle" /\ UNCHANGED sock
       \/ \E n \in 1..sock.input :
             LET k == [sock EXCEPT !.input = @ - n] IN
                /\ sock' = IF DrainedByRead(k)
                           THEN [Post(k, "disconnected") EXCEPT !.connected = FALSE] ELSE k
                /\ UNCHANGED main
    /\ UNCHANGED <<Env, written, told, next>>

\* flush blocks the main thread.
Flush ==
    /\ UserIdle /\ told /\ ~sock.flushed /\ main' = "flush"
    /\ UNCHANGED dataVars

Flushed ==
    /\ main = "flush" /\ sock.flushed /\ main' = "idle"
    /\ UNCHANGED tableVars /\ UNCHANGED dataVars

CloseAtOnce == main' = "close" /\ UNCHANGED dataVars /\ UNCHANGED tableVars
RemoveFirst == main = "close" /\ Table!SetJob(Me, NULL)

Close == UserIdle /\ sock.open /\ CloseAtOnce

\* close: the job goes first; the events nobody listens to any more go too.
Closed ==
    /\ RemoveFirst
    /\ sock' = NoSocket /\ peer' = "none" /\ arrived' = 0 /\ sent' = 0 /\ written' = 0
    /\ main' = "idle" /\ told' = FALSE
    /\ UNCHANGED next

\* The user handles what the socket posted: it reads until nothing is left, and
\* gives the socket up when it ends.  A packet filter may keep the end of the
\* input to itself.
Ends == {"disconnected", "connectionFailed", "inputShutdown", "outputShutdown", "outputError"}

Handle ==
    /\ UserIdle /\ sock.events # <<>>
    /\ \/ /\ Head(sock.events) \notin Ends
          /\ main' = IF Head(sock.events) = "inputReady" THEN "reading" ELSE "idle"
       \/ Head(sock.events) \in Ends /\ main' = "close"
       \/ Head(sock.events) = "inputShutdown" /\ UNCHANGED main
    /\ sock' = [sock EXCEPT !.events = Tail(@)]
    /\ told' = (told \/ Head(sock.events) = "connected")
    /\ UNCHANGED <<Env, written, next>>

-----------------------------------------------------------------------------
(***************************************************************************)
(* The other end.                                                          *)
(***************************************************************************)
Peer ==
    /\ \/ /\ peer = "up" /\ sent < MaxSent
          /\ sent' = sent + 1 /\ arrived' = arrived + 1 /\ UNCHANGED peer
       \/ /\ peer \in {"up", "gone"} /\ peer' = "reset" /\ arrived' \in {0, arrived} /\ UNCHANGED sent
       \/ /\ peer = "up" /\ peer' = "gone" /\ UNCHANGED <<sent, arrived>>
       \/ /\ peer = "connecting" /\ peer' \in {"up", "refused"} /\ UNCHANGED <<sent, arrived>>
    /\ UNCHANGED <<sock, written, told, next, main, tableVars>>

-----------------------------------------------------------------------------
(***************************************************************************)
(* The job.  found is what poll may say of a socket that is polled for j.  *)
(***************************************************************************)
PollFinds(j) ==
    {found \in [read : BOOLEAN, write : BOOLEAN, error : BOOLEAN] :
        /\ found.read => j.read /\ (arrived > 0 \/ peer \in {"gone", "reset"})
        /\ found.write => j.write /\ peer \in {"up", "gone", "reset", "refused"}
        /\ found.error => peer \in {"refused", "reset"}}

ServiceConnecting(k, found) ==
    IF peer \in {"refused", "reset"}
    THEN [OnDisconnected(Post(k, "connectionFailed")) EXCEPT !.renew = TRUE]
    ELSE IF found.write THEN [OnConnected(Post(k, "connected")) EXCEPT !.renew = TRUE]
    ELSE k

\* What a write comes to: n bytes are taken, or an exception.
WriteResults(k) ==
    IF peer = "reset" THEN [how : {"shutdown", "disconnected", "error"}, n : {0}]
    ELSE [how : {"taken"}, n : 0..k.output]

AfterWrite(k, result) ==
    CASE result.how = "shutdown" ->
            LET shut == Post(OnOutputShutdown(k), "outputShutdown") IN
            IF ~shut.readable /\ shut.input = 0
            THEN [Post(shut, "disconnected") EXCEPT !.connected = FALSE, !.renew = TRUE]
            ELSE [shut EXCEPT !.renew = TRUE]
      [] result.how = "disconnected" -> [Post(OnDisconnected(k), "disconnected") EXCEPT !.renew = TRUE]
      [] result.how = "error" ->
            [Post(Post(OnDisconnected(k), "outputError"), "disconnected") EXCEPT !.renew = TRUE]
      [] result.how = "taken" ->
            IF result.n > 0 /\ result.n = k.output
            THEN [k EXCEPT !.output = 0, !.flushed = TRUE, !.renew = TRUE]
            ELSE [k EXCEPT !.output = @ - result.n]

\* What a read comes to: all that has arrived, the end, or an exception, which
\* may come after some bytes.
ReadResults ==
    (IF arrived > 0 THEN {"bytes"} ELSE IF peer # "up" THEN {"end"} ELSE {})
    \cup (IF peer # "reset" THEN {} ELSE {"disconnected", "error"})
    \cup (IF peer = "reset" /\ arrived > 0 THEN {"cut"} ELSE {})

EmptyAfterRead(k) == k.input + arrived = 0
WasInputEmpty(k) == k.input = 0

AfterRead(k, result) ==
    CASE result = "bytes" ->
            LET got == [k EXCEPT !.input = @ + arrived] IN
            IF WasInputEmpty(k) THEN Post(got, "inputReady") ELSE got
      [] result = "end" ->
            LET shut == Post(k, "inputShutdown") IN
            [(IF ~shut.writable /\ shut.input = 0
              THEN [Post(shut, "disconnected") EXCEPT !.connected = FALSE] ELSE shut)
                EXCEPT !.readable = FALSE, !.renew = TRUE]
      [] result = "disconnected" -> [OnDisconnected(Post(k, "disconnected")) EXCEPT !.renew = TRUE]
      [] result = "error" -> k
      [] result = "cut" -> [k EXCEPT !.input = @ + arrived]

\* serviceConnected: an error ends it all, else it writes, then reads.
Written(k, found) ==
    IF ~found.write THEN {k} ELSE {AfterWrite(k, result) : result \in WriteResults(k)}

ServiceConnected(k, found) ==
    IF found.error
    THEN {[OnDisconnected(Post(k, "disconnected")) EXCEPT !.renew = TRUE]}
    ELSE UNION {IF found.read /\ w.readable THEN {AfterRead(w, result) : result \in ReadResults}
                ELSE {w} : w \in Written(k, found)}

Renewed(k) == IF k.renew THEN NewJob(k) ELSE job[Me]

Serve(found) ==
    \E k \in IF polled[Me].kind = "connecting" THEN {ServiceConnecting(sock, found)}
             ELSE ServiceConnected(sock, found) :
        /\ sock' = [k EXCEPT !.renew = FALSE]
        /\ Table!Run(Me, Renewed(k))
        /\ arrived' = IF k.input > sock.input THEN 0 ELSE arrived
        /\ UNCHANGED <<peer, sent, written, told, main, next>>

ServeData == busy /\ polled[Me] # NULL /\ \E found \in PollFinds(polled[Me]) : Serve(found)

User == Write \/ Flush \/ Close
MainGoesOn == LookForJob \/ MakeJob \/ Read \/ Flushed
MainHasTable == SetJob \/ Closed
===============================================================================
