------------------------------- MODULE KeepAlive -------------------------------
(***************************************************************************)
(* How the two ends of a connection find out that the other one is gone:   *)
(* CClientProxy1_3 with what it has of CClientProxy1_0 on the server, and  *)
(* CServerProxy on the client, from the query for the client's information *)
(* on.  The server sends a keep-alive at a rate and the client echoes it;  *)
(* each end has an alarm.  The rate is an option that may be changed while *)
(* the connection stands.                                                  *)
(*                                                                         *)
(* Time goes on in seconds, and only when nothing is left to do in this    *)
(* one: handlers take no time, an event is handled before a timer, and a   *)
(* message is on its way for at most MaxDelay.                             *)
(***************************************************************************)
EXTENDS Integers, Sequences

CONSTANTS
    KeepAliveRate,          \* kKeepAliveRate
    KeepAlivesUntilDeath,   \* kKeepAlivesUntilDeath
    Options,                \* what kOptionHeartbeat may be set to; 0 turns it off
    MaxDelay,               \* how long a message is on its way
    MaxReloads, MaxChanges  \* bounds: on reloads, on changes of the client's shape

NoTimer == -1
NoOption == -1      \* the option is not set

\* the network is fast enough for the four messages of the handshake (the client's
\* name, the query, the information, the options) and for the rates that are asked for
ASSUME KeepAliveAssumption ==
    /\ KeepAliveRate \in Nat /\ KeepAlivesUntilDeath \in Nat /\ MaxDelay \in Nat
    /\ Options \subseteq Nat /\ MaxReloads \in Nat /\ MaxChanges \in Nat
    /\ 4 * MaxDelay < KeepAliveRate * KeepAlivesUntilDeath
    /\ \A rate \in {KeepAliveRate} \cup (Options \ {0}) :
          rate + 2 * MaxDelay < rate * KeepAlivesUntilDeath

VARIABLES
    server,     \* the proxy of the client: its parser's state, rate and timers
    client,     \* the proxy of the server: the same, and m_ignoreMouse
    toClient, toServer,     \* messages with their age
    gone,       \* what has gone without a word
    flatlined,  \* the ends whose alarm went off
    reloads, changes    \* the counts the bounds are for

vars == <<server, client, toClient, toServer, gone, flatlined, reloads, changes>>

Message(type) == [type |-> type, option |-> NoOption, age |-> 0]

\* The client's proxy was made when it sent its name, and the server's when that
\* arrived, with the query.  A client of another make sends a no-op first.
Init ==
    /\ server = [state |-> "handshake", rate |-> KeepAliveRate,
                 keepAlive |-> NoTimer, alarm |-> NoTimer, leaked |-> NoTimer]
    /\ \E elapsed \in 0..MaxDelay, polite \in BOOLEAN :
          client = [state |-> "handshake", polite |-> polite, rate |-> KeepAliveRate,
                    alarm |-> KeepAliveRate * KeepAlivesUntilDeath - elapsed, ignoreMouse |-> FALSE]
    /\ toClient = <<Message("kMsgQInfo")>> /\ toServer = <<>>
    /\ gone = "nobody" /\ flatlined = {} /\ reloads = 0 /\ changes = 0

ServerRuns == server.state \in {"handshake", "ready", "adopted"}
ClientRuns == client.state \in {"handshake", "ready"}

Send(queue, msgs, reachable) == IF reachable THEN queue \o msgs ELSE queue
ToClient(queue, msgs) == Send(queue, msgs, gone = "nobody" /\ ClientRuns)
ToServer(queue, msgs) == Send(queue, msgs, gone = "nobody" /\ ServerRuns)

-----------------------------------------------------------------------------
(***************************************************************************)
(* The timers of the server's proxy.  addHeartbeatTimer forgets an alarm   *)
(* that is set already, and it then goes off as well.                      *)
(***************************************************************************)
AddAlarm(s) ==
    IF s.rate = 0 THEN s
    ELSE [s EXCEPT !.alarm = s.rate * KeepAlivesUntilDeath,
                   !.leaked = IF s.alarm = NoTimer THEN @ ELSE s.alarm]

AddHeartbeatTimer(s) ==
    AddAlarm(IF s.rate = 0 THEN s ELSE [s EXCEPT !.keepAlive = s.rate])
RemoveHeartbeatTimer(s) == [s EXCEPT !.keepAlive = NoTimer, !.alarm = NoTimer]

\* resets the alarm and not the keep-alives
NeverReset(s) == s
ResetHeartbeatTimer(s) == AddAlarm([s EXCEPT !.alarm = NoTimer])

\* resetOptions and setOptions: back to the default, and then the option
SetOptions(s, option) ==
    LET rate == IF option = NoOption THEN KeepAliveRate ELSE option
    IN  AddHeartbeatTimer(RemoveHeartbeatTimer([s EXCEPT !.rate = rate]))

SendOptions(option) ==
    /\ server' = [SetOptions(server, option) EXCEPT !.state = IF @ = "ready" THEN "adopted" ELSE @]
    /\ toClient' = ToClient(toClient, <<Message("kMsgCResetOptions"),
                                        [Message("kMsgDSetOptions") EXCEPT !.option = option]>>)

-----------------------------------------------------------------------------
(***************************************************************************)
(* The server.                                                             *)
(***************************************************************************)
\* handleData for one message.  A message that the parser does not know ends
\* the connection, but nobody sends one.
Acknowledge(msg) == IF msg = "kMsgDInfo" THEN <<Message("kMsgCInfoAck")>> ELSE <<>>

Parsed(s, msg) ==
    IF s.state = "handshake" /\ msg = "kMsgDInfo"
    THEN [AddHeartbeatTimer(s) EXCEPT !.state = "ready"] ELSE s

ServerHandlesData ==
    /\ ServerRuns /\ toServer # <<>>
    /\ LET msg == Head(toServer).type IN
       /\ msg # "close"
       /\ server' = ResetHeartbeatTimer(Parsed(server, msg))
       /\ toClient' = ToClient(toClient, Acknowledge(msg))
    /\ toServer' = Tail(toServer)
    /\ UNCHANGED <<client, gone, flatlined, reloads, changes>>

\* ready makes the listener hand the proxy over, and the server sends options
AdoptClient ==
    /\ server.state = "ready"
    /\ \E option \in Options \cup {NoOption} : SendOptions(option)
    /\ UNCHANGED <<client, toServer, gone, flatlined, reloads, changes>>

\* A reload, which knows the proxy until its disconnected is handled.
SetConfig ==
    /\ server.state \in {"adopted", "closed"}
    /\ reloads < MaxReloads /\ reloads' = reloads + 1
    /\ \E option \in Options \cup {NoOption} : SendOptions(option)
    /\ UNCHANGED <<client, toServer, gone, flatlined, changes>>

KeepsItselfAlive ==
    /\ server.keepAlive = 0
    /\ server' = ResetHeartbeatTimer([server EXCEPT !.keepAlive = server.rate])
    /\ toClient' = ToClient(toClient, <<Message("kMsgCKeepAlive")>>)
    /\ UNCHANGED <<client, toServer, gone, flatlined, reloads, changes>>
HandleKeepAlive ==
    /\ server.keepAlive = 0
    /\ server' = [server EXCEPT !.keepAlive = server.rate]
    /\ toClient' = ToClient(toClient, <<Message("kMsgCKeepAlive")>>)
    /\ UNCHANGED <<client, toServer, gone, flatlined, reloads, changes>>

\* disconnect: no timer has a handler any more.  The server hears of it if it has
\* adopted the proxy.
ServerDisconnects ==
    /\ server' = [RemoveHeartbeatTimer(server) EXCEPT
                     !.state = IF @ = "adopted" THEN "closed" ELSE "deleted", !.leaked = NoTimer]
    /\ toClient' = ToClient(toClient, <<Message("close")>>)

HandleFlatline ==
    /\ ServerRuns /\ (server.alarm = 0 \/ server.leaked = 0)
    /\ ServerDisconnects /\ flatlined' = flatlined \cup {"server"}
    /\ UNCHANGED <<client, toServer, gone, reloads, changes>>

ServerHandlesDisconnect ==
    /\ ServerRuns /\ toServer # <<>> /\ Head(toServer).type = "close"
    /\ ServerDisconnects /\ toServer' = Tail(toServer)
    /\ UNCHANGED <<client, gone, flatlined, reloads, changes>>

\* CServer handles disconnected and deletes the proxy
DeleteProxy ==
    /\ server.state = "closed"
    /\ server' = [RemoveHeartbeatTimer(server) EXCEPT !.state = "deleted"]
    /\ UNCHANGED <<client, toClient, toServer, gone, flatlined, reloads, changes>>

-----------------------------------------------------------------------------
(***************************************************************************)
(* The client.                                                             *)
(***************************************************************************)
ResetKeepAliveAlarm(c) ==
    [c EXCEPT !.alarm = IF c.rate = 0 THEN NoTimer ELSE c.rate * KeepAlivesUntilDeath]
SetKeepAliveRate(c, rate) == ResetKeepAliveAlarm([c EXCEPT !.rate = rate])

KeepsRate(c, msg) ==
    CASE msg.type = "kMsgCInfoAck" -> [c EXCEPT !.ignoreMouse = FALSE]
      [] msg.type = "kMsgCResetOptions" -> ResetKeepAliveAlarm(c)
      [] msg.type = "kMsgDSetOptions" ->
            [(IF msg.option = NoOption THEN c ELSE SetKeepAliveRate(c, msg.option)) EXCEPT !.state = "ready"]
      [] msg.type = "kMsgCKeepAlive" -> ResetKeepAliveAlarm(c)
      [] OTHER -> c

\* parseHandshakeMessage and parseMessage
Received(c, msg) ==
    CASE msg.type = "kMsgCInfoAck" -> [c EXCEPT !.ignoreMouse = FALSE]
      [] msg.type = "kMsgCResetOptions" -> SetKeepAliveRate(c, KeepAliveRate)
      [] msg.type = "kMsgDSetOptions" ->
            [(IF msg.option = NoOption THEN c ELSE SetKeepAliveRate(c, msg.option)) EXCEPT !.state = "ready"]
      [] msg.type = "kMsgCKeepAlive" -> ResetKeepAliveAlarm(c)
      [] OTHER -> c

\* what it answers: after the handshake, a no-op to each message
Answer(c, msg) ==
    (IF msg.type = "kMsgQInfo" THEN <<Message("kMsgDInfo")>>
     ELSE IF msg.type = "kMsgCKeepAlive" THEN <<Message("kMsgCKeepAlive")>> ELSE <<>>)
    \o (IF c.state = "ready" THEN <<Message("kMsgCNoop")>> ELSE <<>>)

ClientHandlesData ==
    /\ ClientRuns /\ toClient # <<>>
    /\ Head(toClient).type # "close"
    /\ client' = Received(client, Head(toClient))
    /\ toServer' = ToServer(toServer, Answer(client, Head(toClient)))
    /\ toClient' = Tail(toClient)
    /\ UNCHANGED <<server, gone, flatlined, reloads, changes>>

EarlyNoop ==    \* a client of another make
    /\ ~client.polite /\ client.state = "handshake" /\ server.state = "handshake"
    /\ toServer = <<>> /\ server.alarm = NoTimer
    /\ toServer' = ToServer(toServer, <<Message("kMsgCNoop")>>)
    /\ UNCHANGED <<server, client, toClient, gone, flatlined, reloads, changes>>

OnInfoChanged ==
    /\ client.state = "ready" /\ changes < MaxChanges /\ changes' = changes + 1
    /\ client' = [client EXCEPT !.ignoreMouse = TRUE]
    /\ toServer' = ToServer(toServer, <<Message("kMsgDInfo")>>)
    /\ UNCHANGED <<server, toClient, gone, flatlined, reloads>>

ClientDisconnects == client' = [client EXCEPT !.state = "closed", !.alarm = NoTimer]

HandleKeepAliveAlarm ==
    /\ ClientRuns /\ client.alarm = 0
    /\ ClientDisconnects /\ flatlined' = flatlined \cup {"client"}
    /\ toServer' = ToServer(toServer, <<Message("close")>>)
    /\ UNCHANGED <<server, toClient, gone, reloads, changes>>

\* The client is stopped or suspended.
Disconnect ==
    /\ ClientRuns /\ ClientDisconnects
    /\ toServer' = ToServer(toServer, <<Message("close")>>)
    /\ UNCHANGED <<server, toClient, gone, flatlined, reloads, changes>>

ClientHandlesDisconnect ==
    /\ ClientRuns /\ toClient # <<>> /\ Head(toClient).type = "close"
    /\ ClientDisconnects /\ toClient' = Tail(toClient)
    /\ UNCHANGED <<server, toServer, gone, flatlined, reloads, changes>>

-----------------------------------------------------------------------------
(***************************************************************************)
(* The machines, the network, and time.                                    *)
(***************************************************************************)
\* One of the machines stops, or the network between them.
Vanishes ==
    /\ gone = "nobody" /\ ServerRuns /\ ClientRuns
    /\ \/ gone' = "client" /\ ClientDisconnects /\ UNCHANGED server
       \/ /\ gone' = "server" /\ UNCHANGED client
          /\ server' = [RemoveHeartbeatTimer(server) EXCEPT !.state = "deleted", !.leaked = NoTimer]
       \/ gone' = "network" /\ UNCHANGED <<server, client>>
    /\ toClient' = IF gone' = "server" THEN toClient ELSE <<>>
    /\ toServer' = IF gone' = "client" THEN toServer ELSE <<>>
    /\ UNCHANGED <<flatlined, reloads, changes>>

Older(queue) == [i \in DOMAIN queue |-> [queue[i] EXCEPT !.age = @ + 1]]
CountDown(timer) == IF timer = NoTimer THEN NoTimer ELSE timer - 1
MayWait(queue, reader) == reader => \A i \in DOMAIN queue : queue[i].age < MaxDelay

Tick ==
    /\ ServerRuns \/ ClientRuns
    /\ server.state \notin {"ready", "closed"}
    /\ 0 \notin {server.keepAlive, server.alarm, server.leaked, client.alarm}
    /\ MayWait(toServer, ServerRuns) /\ MayWait(toClient, ClientRuns)
    /\ server' = [server EXCEPT !.keepAlive = CountDown(@), !.alarm = CountDown(@), !.leaked = CountDown(@)]
    /\ client' = [client EXCEPT !.alarm = CountDown(@)]
    /\ toServer' = IF ServerRuns THEN Older(toServer) ELSE toServer
    /\ toClient' = IF ClientRuns THEN Older(toClient) ELSE toClient
    /\ UNCHANGED <<gone, flatlined, reloads, changes>>

Server == ServerHandlesData \/ AdoptClient \/ HandleKeepAlive \/ HandleFlatline
          \/ ServerHandlesDisconnect \/ DeleteProxy
Client == ClientHandlesData \/ HandleKeepAliveAlarm \/ ClientHandlesDisconnect
Environment == SetConfig \/ EarlyNoop \/ OnInfoChanged \/ Disconnect \/ Vanishes

Next == Server \/ Client \/ Environment \/ Tick

Spec == Init /\ [][Next]_vars

\* Events are handled, timers fire, and time goes on.
FairSpec == Spec /\ WF_vars(Server) /\ WF_vars(Client) /\ WF_vars(Tick)

-----------------------------------------------------------------------------
Rates == {KeepAliveRate} \cup Options
Alarms == UNION {NoTimer..(rate * KeepAlivesUntilDeath) : rate \in Rates}
Types == {"kMsgQInfo", "kMsgDInfo", "kMsgCInfoAck", "kMsgCResetOptions", "kMsgDSetOptions",
          "kMsgCKeepAlive", "kMsgCNoop", "close"}
Messages == [type : Types, option : Options \cup {NoOption}, age : 0..MaxDelay]

\* The type invariant.
TypeOK ==
    /\ server \in [state : {"handshake", "ready", "adopted", "closed", "deleted"}, rate : Rates,
                   keepAlive : UNION {NoTimer..rate : rate \in Rates}, alarm : Alarms, leaked : Alarms]
    /\ client \in [state : {"handshake", "ready", "closed"}, polite : BOOLEAN, rate : Rates,
                   alarm : Alarms, ignoreMouse : BOOLEAN]
    /\ toClient \in Seq(Messages) /\ toServer \in Seq(Messages)
    /\ gone \in {"nobody", "client", "server", "network"} /\ flatlined \subseteq {"server", "client"}
    /\ reloads \in 0..MaxReloads /\ changes \in 0..MaxChanges

\* Both ends alive and in contact: neither takes the other for dead, whatever the
\* rate is changed to and however the messages of the two directions race with
\* the timers.  A client that sends a no-op before its information is left out:
\* addHeartbeatTimer then forgets the alarm of the no-op, which nobody resets
\* (ClientProxy1_0.cpp:177).
LiveIsKept == gone = "nobody" /\ client.polite => flatlined = {}

\* The two ends have the same rate once the options have arrived, so that the
\* client waits for keep-alives exactly if the server sends them.
RatesAgree ==
    server.state = "adopted" /\ ClientRuns /\ gone = "nobody" =>
        \/ client.rate = server.rate
        \/ \E i \in DOMAIN toClient : toClient[i].type = "kMsgDSetOptions"

\* Each end has an alarm exactly if keep-alives are on, and the server then also
\* sends them; no alarm is left that no message resets.
AlarmsFollowRate ==
    /\ server.state = "adopted" =>
          /\ server.rate > 0 <=> server.alarm # NoTimer
          /\ server.rate > 0 <=> server.keepAlive # NoTimer
    /\ client.polite => server.leaked = NoTimer
    /\ ClientRuns => (client.rate > 0 <=> client.alarm # NoTimer)

\* protocol_types.h:44, "number of skipped kMsgCKeepAlive messages that indicates a
\* problem": an end that is gone without a word is noticed by the other one, unless
\* the keep-alives are off.  In the handshake the server has another timer for it.
\* A client that says that it goes is let go, at whatever rate.
GoneIsNoticed ==
    /\ (gone # "nobody") ~>
          /\ server.state \in {"handshake", "deleted"} \/ server.rate = 0
          /\ client.state = "closed" \/ client.rate = 0
    /\ (gone = "nobody" /\ client.state = "closed") ~> server.state = "deleted"

\* ServerProxy.cpp:346: the mouse is ignored "until we receive acknowledgment of our
\* info change message".  While it is ignored that is still to come.
MouseIsAcknowledged ==
    client.ignoreMouse /\ ClientRuns /\ ServerRuns /\ gone = "nobody" =>
        \/ \E i \in DOMAIN toServer : toServer[i].type = "kMsgDInfo"
        \/ \E i \in DOMAIN toClient : toClient[i].type = "kMsgCInfoAck"

\* The two ends agree on the rate and on the client's shape, or a message that
\* makes them agree is on its way, and each has the alarm for its rate.
EndsAgree == TypeOK /\ RatesAgree /\ AlarmsFollowRate /\ MouseIsAcknowledged
================================================================================
