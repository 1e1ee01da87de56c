----------------------------- MODULE PacketFilter -----------------------------
(***************************************************************************)
(* CPacketStreamFilter: the reading end of a connection.  The service      *)
(* thread fills the socket's buffer (DataSocket says how); the main thread *)
(* dispatches the socket's events to the filter, which takes what is       *)
(* there, cuts it into packets and passes the event on if that changed     *)
(* something for its reader.  Two readers follow each other: the one that  *)
(* waits for the hello reads one message, its successor all there are.     *)
(*                                                                         *)
(* A byte is a number.  The header is the packet's length in base Base;    *)
(* every byte of a packet's payload is the number of the packet.           *)
(***************************************************************************)
EXTENDS Naturals, Sequences, SequencesExt

CONSTANTS
    Header, Base,   \* the length of a header, 4 in the code, and its base, 256
    MaxPackets, MaxSize     \* bounds on what the peer writes

ASSUME PacketAssumption ==
    /\ Header \in Nat \ {0} /\ Base \in Nat \ {0, 1}
    /\ MaxPackets \in Nat /\ MaxSize \in Nat \ {0}

-----------------------------------------------------------------------------
(***************************************************************************)
(* A length is written in the header digit by digit.                       *)
(***************************************************************************)
\* n without its last k digits.
Shifted(n) == LET left[k \in 0..Header] == IF k = 0 THEN n ELSE left[k - 1] \div Base IN left

Encoded(n) == [i \in 1..Header |-> Shifted(n)[Header - i] % Base]

Decoded(bytes) ==
    LET value[i \in 0..Header] == IF i = 0 THEN 0 ELSE value[i - 1] * Base + bytes[i]
    IN  value[Header]

\* No packet is longer than a header can say.
ASSUME SizeFits == \A n \in 0..MaxSize : Shifted(n)[Header] = 0

Framed(payload) == Encoded(Len(payload)) \o payload

-----------------------------------------------------------------------------

VARIABLES
    side,           \* who reads: "server" or "client"
    sent, over,     \* the packets the peer has written, and whether it still may
    wire, tcp,      \* bytes on their way, bytes in the socket's buffer
    ended,          \* the socket has seen the end of its input
    events,         \* what is queued for the filter and its reader
    filter,         \* m_size, m_buffer and m_inputShutdown
    main, wasReady, \* what the main thread is at, and readMore's wasReady
    reader, current, delivered, \* the reader, the message it is at, and the ones before
    stalled         \* a reader took over with a whole packet there, and was not told

netVars == <<side, sent, over, wire, ended>>
readVars == <<reader, current, delivered, stalled>>
packetVars == <<netVars, tcp, events, filter, main, wasReady, readVars>>

NoPacket == [size |-> 0, buffer |-> <<>>, inputShutdown |-> FALSE]

PacketInit ==
    /\ side \in {"server", "client"}
    /\ sent = <<>> /\ over = "up" /\ wire = <<>> /\ tcp = <<>> /\ ended = FALSE
    /\ events = <<>> /\ filter = NoPacket /\ main = "idle" /\ wasReady = FALSE
    /\ reader = "hello" /\ current = <<>> /\ delivered = <<>> /\ stalled = FALSE

-----------------------------------------------------------------------------
(***************************************************************************)
(* The fields of the filter.                                               *)
(***************************************************************************)
IsReady(f) == f.size # 0 /\ Len(f.buffer) >= f.size

ReadPacketSize(f) ==
    IF f.size = 0 /\ Len(f.buffer) >= Header
    THEN [f EXCEPT !.size = Decoded(SubSeq(f.buffer, 1, Header)),
                   !.buffer = SubSeq(@, Header + 1, Len(@))]
    ELSE f

\* n bytes are read from the packet.
PopOnly(f, n) == [f EXCEPT !.size = @ - n, !.buffer = SubSeq(@, n + 1, Len(@))]
Popped(f, n) ==
    ReadPacketSize([f EXCEPT !.size = @ - n, !.buffer = SubSeq(@, n + 1, Len(@))])

NeverEnds(f) == FALSE
EndsNow(f) == f.inputShutdown /\ f.size = 0

-----------------------------------------------------------------------------
(***************************************************************************)
(* The peer and the socket.  A peer may write on behind its hello: a       *)
(* client that has answered tells of a clipboard or of its new shape at    *)
(* once (Client.cpp:630).  That a server waits for the answer is left out. *)
(***************************************************************************)
Write ==
    /\ over = "up" /\ Len(sent) < MaxPackets
    /\ \E size \in 1..MaxSize :
          LET payload == [i \in 1..size |-> Len(sent) + 1] IN
             sent' = Append(sent, payload) /\ wire' = wire \o Framed(payload)
    /\ UNCHANGED <<side, over, ended, tcp, events, filter, main, wasReady, readVars>>

\* The peer closes the connection, or loses it, with what was on its way.
Hangup ==
    /\ over = "up"
    /\ \/ over' = "closed" /\ UNCHANGED wire
       \/ /\ over' = "cut" /\ wire # <<>>
          /\ \E n \in 0..Len(wire) - 1 : wire' = SubSeq(wire, 1, n)
    /\ UNCHANGED <<side, sent, ended, tcp, events, filter, main, wasReady, readVars>>

\* The service thread: input is announced if there was none.
Arrive ==
    /\ reader \notin {"ended", "gone"} /\ wire # <<>>
    /\ \E n \in 1..Len(wire) :
          tcp' = tcp \o SubSeq(wire, 1, n) /\ wire' = SubSeq(wire, n + 1, Len(wire))
    /\ events' = IF tcp = <<>> THEN Append(events, "socketReady") ELSE events
    /\ UNCHANGED <<side, sent, over, ended, filter, main, wasReady, readVars>>

ArriveEnd ==
    /\ reader \notin {"ended", "gone"} /\ over # "up" /\ wire = <<>> /\ ~ended
    /\ ended' = TRUE /\ events' = Append(events, "socketShutdown")
    /\ UNCHANGED <<side, sent, over, wire, tcp, filter, main, wasReady, readVars>>

-----------------------------------------------------------------------------
(***************************************************************************)
(* The main thread.                                                        *)
(***************************************************************************)
FirstIs(event) == main = "idle" /\ events # <<>> /\ Head(events) = event

\* inputReady of the socket: readMore.
FilterReady ==
    /\ FirstIs("socketReady")
    /\ main' = "readMore" /\ wasReady' = IsReady(filter)
    /\ events' = Tail(events)
    /\ UNCHANGED <<netVars, tcp, filter, readVars>>

ReadMore ==
    /\ main = "readMore" /\ tcp # <<>>
    /\ \E n \in 1..Len(tcp) :
          /\ filter' = [filter EXCEPT !.buffer = @ \o SubSeq(tcp, 1, n)]
          /\ tcp' = SubSeq(tcp, n + 1, Len(tcp))
    /\ UNCHANGED <<netVars, events, main, wasReady, readVars>>

ReadNoMore ==
    /\ main = "readMore" /\ tcp = <<>>
    /\ filter' = ReadPacketSize(filter)
    /\ main' = IF wasReady # IsReady(filter') THEN "reading" ELSE "idle"
    /\ wasReady' = FALSE
    /\ UNCHANGED <<netVars, tcp, events, readVars>>

\* Whoever is told of the end closes the stream.
CloseStream(why) ==
    /\ reader' = why /\ filter' = NoPacket /\ tcp' = <<>> /\ wire' = <<>> /\ events' = <<>>
    /\ current' = <<>>
    /\ UNCHANGED <<side, sent, over, ended, main, wasReady, delivered, stalled>>

\* The socket's inputShutdown, kept back while a packet is unfinished.
PassedAlways(f) == TRUE
Passed(f) == f.size = 0

FilterShutdown ==
    /\ FirstIs("socketShutdown")
    /\ IF Passed(filter) THEN CloseStream("ended")
       ELSE /\ filter' = [filter EXCEPT !.inputShutdown = TRUE] /\ events' = Tail(events)
            /\ UNCHANGED <<netVars, tcp, main, wasReady, readVars>>

\* The filter's own inputShutdown.
StreamShutdown == FirstIs("shutdown") /\ CloseStream("ended")

\* An inputReady that the client posted to the filter itself.
StreamReady ==
    /\ FirstIs("ready")
    /\ main' = "reading" /\ events' = Tail(events)
    /\ UNCHANGED <<netVars, tcp, filter, wasReady, readVars>>

\* The reader's loop ends when read gives nothing.
ReadNothing ==
    /\ main = "reading" /\ ~IsReady(filter) /\ main' = "idle"
    /\ UNCHANGED <<netVars, tcp, events, filter, wasReady, readVars>>

\* handleHello and ClientProxyUnknown::handleData hand the stream over; only
\* the client tells the next reader of what is there already.
Pending(f) == IF side = "client" /\ IsReady(f) THEN <<"ready">> ELSE <<>>

\* What the reader asks for next is part of its message; read gives it no more
\* than the packet has.
Read ==
    /\ main = "reading" /\ IsReady(filter) /\ Len(delivered) < Len(sent)
    /\ LET message == sent[Len(delivered) + 1] IN
       \E asked \in 1..Len(message) - Len(current) :
          LET n == IF asked > filter.size THEN filter.size ELSE asked
              text == current \o SubSeq(filter.buffer, 1, n)
              f == Popped(filter, n)
              ends == IF EndsNow(f) THEN <<"shutdown">> ELSE <<>>
          IN  /\ filter' = f
              /\ IF Len(text) < Len(message)
                 THEN /\ current' = text /\ events' = events \o ends
                      /\ UNCHANGED <<main, reader, delivered, stalled>>
                 ELSE /\ current' = <<>> /\ delivered' = Append(delivered, text)
                      /\ reader' = "proxy"
                      /\ main' = IF reader = "hello" THEN "idle" ELSE main
                      /\ stalled' = IF reader = "hello" THEN side = "server" /\ IsReady(f) ELSE stalled
                      /\ events' = events \o ends \o (IF reader = "hello" THEN Pending(f) ELSE <<>>)
    /\ UNCHANGED <<netVars, tcp, wasReady>>

\* The reader gives the connection up, as when a timer expires.
GiveUp == main = "idle" /\ reader \in {"hello", "proxy"} /\ CloseStream("gone")

\* The timer of CClientProxyUnknown goes on until the client has told its shape,
\* and a reader that stalls never gets to that.
HandshakeTimeout == stalled /\ GiveUp

PeerWrites == Write \/ Hangup
SocketReads == Arrive \/ ArriveEnd
MainDispatches ==
    \/ FilterReady \/ ReadMore \/ ReadNoMore \/ FilterShutdown \/ StreamShutdown
    \/ StreamReady \/ Read \/ ReadNothing

PacketNext == PeerWrites \/ SocketReads \/ MainDispatches \/ GiveUp

PacketSpec == PacketInit /\ [][PacketNext]_packetVars

\* The service thread reads what arrives, the main thread dispatches events and
\* its handlers go on, and the timer of the handshake expires.
PacketFairSpec ==
    /\ PacketSpec /\ WF_packetVars(SocketReads) /\ WF_packetVars(MainDispatches)
    /\ WF_packetVars(HandshakeTimeout)

-----------------------------------------------------------------------------
\* The type invariant.
PacketTypeOK ==
    /\ side \in {"server", "client"} /\ over \in {"up", "closed", "cut"}
    /\ filter.size \in 0..MaxSize /\ filter.inputShutdown \in BOOLEAN
    /\ \A bytes \in {wire, tcp, filter.buffer} : \A i \in DOMAIN bytes : bytes[i] \in Nat
    /\ \A i \in DOMAIN events : events[i] \in {"socketReady", "socketShutdown", "ready", "shutdown"}
    /\ main \in {"idle", "readMore", "reading"} /\ wasReady \in BOOLEAN /\ ended \in BOOLEAN
    /\ reader \in {"hello", "proxy", "ended", "gone"}
    /\ Len(sent) <= MaxPackets /\ stalled \in BOOLEAN

\* When the main thread is idle no whole packet is in the filter without an event
\* on its way: readMore tells of a packet only if there was none before
\* (PacketStreamFilter.cpp:175), so that one that is not announced never is.  The
\* packet behind the hello is the one that a server leaves like this, and then
\* nothing more is read.
WholePacket(f) == IsReady(f) \/ IsReady(ReadPacketSize(f))
Announced == \E i \in DOMAIN events : events[i] = "ready"
PacketsAreAnnounced == main = "idle" /\ WholePacket(filter) => stalled \/ Announced
OnlyBehindHello == stalled => side = "server" /\ Len(delivered) = 1 /\ main # "reading"

\* Client.cpp:688: "make sure we process any remaining messages later.  we won't
\* receive another event for already pending messages so we fake one."  Whoever
\* takes the stream over is told of the messages that are there.
PendingIsAnnounced == main = "idle" /\ WholePacket(filter) => Announced

\* The packets from the n-th on, as they are written.
Tails(packets) ==
    LET tail[n \in 1..Len(packets) + 1] ==
            IF n > Len(packets) THEN <<>> ELSE Framed(packets[n]) \o tail[n + 1]
    IN  tail

\* What follows in the packet that is being read.
RestOf(message) == SubSeq(message, Len(current) + 1, Len(message))

\* Nothing is read twice or lost between the socket's buffer, the filter's and
\* the packet that is being read: what the buffers hold, behind the header that
\* m_size stands for, is what was written and not read.
Unread ==
    IF Len(delivered) = Len(sent) THEN <<>>
    ELSE LET message == sent[Len(delivered) + 1] IN
         (IF filter.size = 0 THEN Framed(message) ELSE RestOf(message))
            \o Tails(sent)[Len(delivered) + 2]
NothingIsMisread ==
    reader \in {"hello", "proxy"} =>
        LET bytes == filter.buffer \o tcp \o wire IN
        IF over = "cut" THEN IsPrefix(bytes, Unread) ELSE bytes = Unread

\* The filter implements a stream of packets: they are delivered whole and in
\* order however TCP cuts the bytes, and the end comes after all of them, also
\* when the socket's end is handled before the last packets are read.
Stream == INSTANCE PacketStream WITH reader <- IF reader = "hello" \/ reader = "proxy" THEN "open" ELSE reader
StreamSpec == Stream!StreamSpec

\* The end of a connection is told, even if it was kept back
\* (PacketStreamFilter.cpp:84, 191).  If the connection broke inside a packet it
\* never is: the rest of the packet cannot come any more.
BrokeInside ==
    /\ over = "cut" /\ filter.size # 0
    /\ Len(filter.buffer) + Len(tcp) + Len(wire) < filter.size
EndIsTold == (over # "up") ~> (reader \in {"ended", "gone"} \/ BrokeInside)

\* Every packet that was written is read, unless the connection was cut or given
\* up, as it is for a packet that stays behind the hello.
PacketsAreRead ==
    \A n \in 1..MaxPackets :
        (Len(sent) >= n) ~> (Len(delivered) >= n \/ over = "cut" \/ reader = "gone")

\* The buffers together hold what was written and not read, each byte once, and
\* no whole packet is in them without an event on its way, but for the one behind
\* the hello.
PacketsAreWhole == PacketTypeOK /\ NothingIsMisread /\ PacketsAreAnnounced /\ OnlyBehindHello

\* Packets are read and the end is told, however late the one comes for the other.
EverythingIsTold == PacketsAreRead /\ EndIsTold
===============================================================================
