--------------------------- MODULE Clipboard_proofs ---------------------------
(***************************************************************************)
(* That screens agree on the clipboard, that a paste gets what the owner   *)
(* has sent last, and that the assert of onClipboardChanged holds while no *)
(* program copies and no user copies twice on a client, for any number of  *)
(* clients, switches and connections.                                      *)
(*                                                                         *)
(* A client's messages pass two queues, its channel and the server's queue *)
(* of events.  What is to be known of them is stated of any two sequences, *)
(* E of events and S of messages; that it stays true when a sequence grows *)
(* by an element or loses its head is shown once for each statement.       *)
(***************************************************************************)
EXTENDS Clipboard, SequenceTheorems, TLAPS

\* p is q with m added, or q without its head m.
Grown(q, p, m) ==
    /\ Len(q) \in Nat /\ DOMAIN q = 1..Len(q)
    /\ Len(p) = Len(q) + 1 /\ DOMAIN p = 1..Len(q) + 1
    /\ p[Len(q) + 1] = m /\ \A i \in DOMAIN q : p[i] = q[i]

Shrunk(q, p, m) ==
    /\ Len(q) \in Nat \ {0} /\ DOMAIN q = 1..Len(q)
    /\ Len(p) = Len(q) - 1 /\ DOMAIN p = 1..Len(q) - 1
    /\ q[1] = m /\ \A i \in DOMAIN p : p[i] = q[i + 1]

LEMMA AppendGrows ==
    ASSUME NEW A, NEW q \in Seq(A), NEW m \in A
    PROVE  /\ Append(q, m) \in Seq(A) /\ Append(q, m) # <<>>
           /\ Grown(q, Append(q, m), m)
BY AppendProperties, LenProperties DEF Grown

LEMMA TailShrinks ==
    ASSUME NEW A, NEW q \in Seq(A), q # <<>>
    PROVE  /\ Tail(q) \in Seq(A) /\ Head(q) \in A
           /\ Shrunk(q, Tail(q), Head(q))
<1>1. Len(q) \in Nat /\ Len(q) # 0 /\ DOMAIN q = 1..Len(q)
  BY LenProperties, EmptySeq
<1>2. /\ Tail(q) \in Seq(A) /\ Head(q) = q[1] /\ Head(q) \in A /\ Len(Tail(q)) = Len(q) - 1
      /\ \A i \in 1..Len(Tail(q)) : Tail(q)[i] = q[i + 1]
  BY HeadTailProperties, <1>1, ElementOfSeq
<1>3. DOMAIN Tail(q) = 1..Len(q) - 1
  BY <1>2, LenProperties
<1> QED
  BY <1>1, <1>2, <1>3 DEF Shrunk

LEMMA TwoGrow ==
    ASSUME NEW A, NEW q \in Seq(A), NEW a \in A, NEW b \in A
    PROVE  q \o <<a, b>> = Append(Append(q, a), b)
<1> DEFINE p == q \o <<a, b>>
           r == Append(Append(q, a), b)
<1>1. <<a, b>> \in Seq(A) /\ Len(<<a, b>>) = 2
  OBVIOUS
<1>2. p \in Seq(A) /\ Len(p) = Len(q) + 2
  BY <1>1, ConcatProperties
<1>3. \A i \in 1..Len(p) : p[i] = IF i =< Len(q) THEN q[i] ELSE <<a, b>>[i - Len(q)]
  BY <1>1, ConcatProperties
<1>4. Append(q, a) \in Seq(A) /\ r \in Seq(A) /\ Grown(q, Append(q, a), a) /\ Grown(Append(q, a), r, b)
  BY AppendGrows
<1>5. Len(r) = Len(p)
  BY <1>2, <1>4, LenProperties DEF Grown
<1>6. ASSUME NEW i \in 1..Len(p) PROVE p[i] = r[i]
  <2>1. CASE i =< Len(q)
    <3>1. p[i] = q[i]
      BY <1>3, <2>1
    <3> QED
      BY <1>4, <2>1, <3>1 DEF Grown
  <2>2. CASE i = Len(q) + 1
    <3>1. p[i] = a
      BY <1>3, <2>2, LenProperties
    <3> QED
      BY <1>4, <2>2, <3>1, LenProperties DEF Grown
  <2>3. CASE i = Len(q) + 2
    <3>1. p[i] = b
      BY <1>3, <2>3, LenProperties
    <3> QED
      BY <1>4, <2>3, <3>1, LenProperties DEF Grown
  <2> QED
    BY <1>2, <2>1, <2>2, <2>3, LenProperties
<1> QED
  BY <1>2, <1>4, <1>5, <1>6, SeqEqual

LEMMA SeqGrows ==
    ASSUME NEW A, NEW B, A \subseteq B
    PROVE  Seq(A) \subseteq Seq(B)
BY SeqMonotonic

LEMMA ElementsAre ==
    ASSUME NEW A, NEW q \in Seq(A)
    PROVE  \A i \in DOMAIN q : q[i] \in A /\ i \in Nat /\ i >= 1 /\ i =< Len(q)
BY ElementOfSeq, LenProperties

LEMMA NothingIn ==
    ASSUME NEW A
    PROVE  <<>> \in Seq(A) /\ Len(<<>>) = 0 /\ DOMAIN <<>> = {}
BY EmptySeq, LenProperties

-----------------------------------------------------------------------------
(***************************************************************************)
(* Who is connected.  Nothing is on its way to or from a client that is    *)
(* not, and an event of its proxy has no handler.                          *)
(***************************************************************************)
Linkage ==
    /\ active \in Listed
    /\ \A c \in Client \ linked :
           /\ toClient[c] = <<>> /\ toServer[c] = <<>>
           /\ ~client[c].grabbed /\ ~client[c].entered
    /\ \A i \in DOMAIN events :
           /\ events[i].from \in Listed
           /\ events[i].type = "changed" => events[i].from \in Client
           /\ events[i].type = "orphan" => events[i] = Orphan

EventSet == [type : {"grabbed", "changed", "orphan"}, from : Screen, seq : Seqs]
ClientSet == [active : BOOLEAN, entered : BOOLEAN, own : BOOLEAN, sent : BOOLEAN,
              last : Content, seq : Seqs, grabbed : BOOLEAN]

\* The type invariant, with its sets named.
Types ==
    /\ clipboard \in [owner : Screen, seq : Seqs, data : Content]
    /\ active \in Screen /\ seqNum \in 0..MaxSeq /\ linked \in SUBSET Client
    /\ dirty \in [Screen -> BOOLEAN] /\ held \in [Client -> Content]
    /\ events \in Seq(EventSet)
    /\ toClient \in [Client -> Seq(ToClient)] /\ toServer \in [Client -> Seq(ToServer)]
    /\ client \in [Client -> ClientSet]
    /\ local \in [Screen -> Content] /\ ours \in [Screen -> BOOLEAN]
    /\ primarySeq \in Seqs
    /\ copies \in [Screen -> Nat] /\ away \in Nat /\ connections \in [Client -> Nat]
    /\ fault \in BOOLEAN

LEMMA TypesAre == (TypeOK <=> Types) /\ (TypeOK' <=> Types')
BY DEF TypeOK, Types, EventSet, ClientSet

LEMMA MessagesAre ==
    ASSUME TypeOK
    PROVE  /\ \A n \in Seqs : Enter(n) \in ToClient /\ Grab(n) \in ToClient /\ Grab(n) \in ToServer
           /\ Leave \in ToClient
           /\ \A n \in Seqs, v \in Content : Data(n, v) \in ToClient /\ Data(n, v) \in ToServer
           /\ \A s \in Screen, n \in Seqs : Event("grabbed", s, n) \in EventSet
           /\ \A s \in Screen, n \in Seqs : Event("changed", s, n) \in EventSet
           /\ Orphan \in EventSet
           /\ 0 \in Seqs /\ Nothing \in Content /\ Primary \in Screen
           /\ \A m \in ToServer : /\ m.seq \in Seqs
                                  /\ m.type = "grab" \/ (m.type = "data" /\ m.data \in Content)
           /\ \A m \in ToClient :
                  /\ m.type \in {"enter", "leave", "grab", "data"}
                  /\ m.type = "enter" => m.seq \in Seqs
                  /\ m.type = "data" => m.data \in Content
<1>1. seqNum \in Nat /\ 0 \in Seqs
  BY ClipboardAssumption DEF TypeOK, Seqs
<1>2. \A n \in Seqs : Enter(n) \in ToClient /\ Grab(n) \in ToClient /\ Grab(n) \in ToServer
  BY DEF ToClient, ToServer, Enter, Grab
<1>3. Leave \in ToClient
  BY DEF ToClient, Leave
<1>4. \A n \in Seqs, v \in Content : Data(n, v) \in ToClient /\ Data(n, v) \in ToServer
  BY DEF ToClient, ToServer, Data
<1>5. Primary \in Screen /\ Nothing \in Content
  BY DEF Screen, Content
<1>6. \A s \in Screen, n \in Seqs : /\ Event("grabbed", s, n) \in EventSet
                                    /\ Event("changed", s, n) \in EventSet
                                    /\ Event("orphan", s, n) \in EventSet
  BY DEF EventSet, Event
<1>7. \A m \in ToServer : /\ m.seq \in Seqs
                          /\ m.type = "grab" \/ (m.type = "data" /\ m.data \in Content)
  BY DEF ToServer
<1>8. \A m \in ToClient :
          /\ m.type \in {"enter", "leave", "grab", "data"}
          /\ m.type = "enter" => m.seq \in Seqs
          /\ m.type = "data" => m.data \in Content
  BY DEF ToClient
<1> QED
  BY <1>1, <1>2, <1>3, <1>4, <1>5, <1>6, <1>7, <1>8 DEF Orphan

\* What a later sequence number leaves as it was.
LEMMA SetsGrow ==
    ASSUME TypeOK, seqNum' = seqNum \/ seqNum' = seqNum + 1
    PROVE  /\ Seqs \subseteq Seqs' /\ seqNum' \in Seqs'
           /\ Seq(EventSet) \subseteq Seq(EventSet')
           /\ Seq(ToClient) \subseteq Seq(ToClient') /\ Seq(ToServer) \subseteq Seq(ToServer')
           /\ ClientSet \subseteq ClientSet'
<1>1. seqNum \in Nat
  BY ClipboardAssumption DEF TypeOK
<1>2. Seqs \subseteq Seqs' /\ seqNum' \in Seqs'
  BY <1>1 DEF Seqs
<1>3. EventSet \subseteq EventSet' /\ ClientSet \subseteq ClientSet'
  BY <1>2 DEF EventSet, ClientSet
<1>4. ToClient \subseteq ToClient'
  BY <1>2 DEF ToClient
<1>5. ToServer \subseteq ToServer'
  BY <1>2 DEF ToServer
<1> QED
  BY <1>2, <1>3, <1>4, <1>5, SeqGrows

LEMMA SetsStay ==
    ASSUME seqNum' = seqNum
    PROVE  /\ Seqs' = Seqs /\ EventSet' = EventSet /\ ClientSet' = ClientSet
           /\ ToClient' = ToClient /\ ToServer' = ToServer
BY DEF Seqs, EventSet, ClientSet, ToClient, ToServer

LEMMA EventsStay ==
    ASSUME TypeOK, events # <<>>
    PROVE  /\ Tail(events) \in Seq(EventSet) /\ Head(events) \in EventSet
           /\ Head(events).type \in {"grabbed", "changed", "orphan"}
           /\ Head(events).from \in Screen /\ Head(events).seq \in Seqs
           /\ Shrunk(events, Tail(events), Head(events))
           /\ 1 \in DOMAIN events /\ events[1] = Head(events)
<1>1. events \in Seq(EventSet)
  BY TypesAre DEF Types
<1>2. Tail(events) \in Seq(EventSet) /\ Head(events) \in EventSet /\ Shrunk(events, Tail(events), Head(events))
  BY <1>1, TailShrinks
<1>3. /\ Head(events).type \in {"grabbed", "changed", "orphan"}
      /\ Head(events).from \in Screen /\ Head(events).seq \in Seqs
  BY <1>2 DEF EventSet
<1> QED
  BY <1>2, <1>3 DEF Shrunk

\* What is sent to a screen that is clean or not, to any channel.
LEMMA SendTypes ==
    ASSUME TypeOK, NEW d \in [Screen -> BOOLEAN], NEW ch \in [Client -> Seq(ToClient)],
           NEW dst \in Screen, NEW v \in Content
    PROVE  /\ Send(d, ch, dst, v) \in [Client -> Seq(ToClient)]
           /\ Hold(d, dst, v) \in [Client -> Content]
           /\ Store(d, dst, v) \in [Screen -> Content] /\ Own(d, dst) \in [Screen -> BOOLEAN]
<1>1. 0 \in Seqs /\ Data(0, v) \in ToClient
  BY MessagesAre
<1>2. Send(d, ch, dst, v) \in [Client -> Seq(ToClient)]
  <2>1. ASSUME dst \in Client PROVE Append(ch[dst], Data(0, v)) \in Seq(ToClient)
    BY <1>1, <2>1, AppendGrows
  <2> QED
    BY <2>1 DEF Send
<1>3. Store(d, dst, v) \in [Screen -> Content] /\ Own(d, dst) \in [Screen -> BOOLEAN]
  BY TypesAre DEF Types, Store, Own
<1>4. Hold(d, dst, v) \in [Client -> Content]
  BY TypesAre DEF Types, Hold
<1> QED
  BY <1>2, <1>3, <1>4

LEMMA DirtyType == ASSUME TypeOK, NEW s PROVE DirtyExcept(s) \in [Screen -> BOOLEAN]
BY TypesAre DEF Types, DirtyExcept

LEMMA TypeInit == Init => TypeOK /\ Linkage
<1> SUFFICES ASSUME Init PROVE TypeOK /\ Linkage
  OBVIOUS
<1>1. seqNum = 0 /\ 0 \in 0..MaxSeq /\ Seqs = {0}
  BY ClipboardAssumption DEF Init, Seqs
<1>2. /\ clipboard \in [owner : Screen, seq : Seqs, data : Content]
      /\ active \in Screen /\ linked \in SUBSET Client
      /\ dirty \in [Screen -> BOOLEAN] /\ held \in [Client -> Content]
  BY <1>1 DEF Init, Screen, Content
<1>3. events \in Seq(EventSet)
  BY NothingIn DEF Init
<1>4. toClient \in [Client -> Seq(ToClient)] /\ toServer \in [Client -> Seq(ToServer)]
  BY NothingIn DEF Init
<1>5. client \in [Client -> ClientSet]
  BY <1>1 DEF Init, NewClient, ClientSet, Content
<1>6. /\ local \in [Screen -> Content] /\ ours \in [Screen -> BOOLEAN]
      /\ primarySeq \in Seqs
      /\ copies \in [Screen -> Nat] /\ away \in Nat /\ connections \in [Client -> Nat]
      /\ fault \in BOOLEAN
  BY <1>1 DEF Init, Content
<1>7. TypeOK
  BY <1>1, <1>2, <1>3, <1>4, <1>5, <1>6, TypesAre DEF Types
<1>8. Linkage
  BY NothingIn DEF Init, Linkage, Listed, NewClient
<1> QED
  BY <1>7, <1>8

-----------------------------------------------------------------------------
(***************************************************************************)
(* What each step does to a client's record.                               *)
(***************************************************************************)
SameOwner(k, k2) == k2.own = k.own /\ k2.sent = k.sent /\ k2.last = k.last
SamePlace(k, k2) == k2.active = k.active /\ k2.entered = k.entered /\ k2.seq = k.seq

OthersStay(c) == \A d \in Client \ {c} : client'[d] = client[d]

LEMMA CopyDoes ==
    ASSUME TypeOK, NEW s \in Screen, NEW v \in Value, Copy(s, v)
    PROVE  /\ UNCHANGED <<clipboard, active, seqNum, linked, dirty, held, toClient, toServer,
                          primarySeq, connections, fault>>
           /\ local' = [local EXCEPT ![s] = v] /\ ours' = [ours EXCEPT ![s] = FALSE]
           /\ \/ events' = events
              \/ s = Primary /\ events' = Append(events, Event("grabbed", Primary, primarySeq))
           /\ client' \in [Client -> ClientSet]
           /\ \A c \in Client :
                  /\ SameOwner(client[c], client'[c]) /\ SamePlace(client[c], client'[c])
                  /\ client'[c].grabbed => client[c].grabbed \/ (c = s /\ c \in linked)
           /\ \A c \in Client \ {s} : client'[c] = client[c]
<1> USE TypesAre DEF Types
<1>1. /\ UNCHANGED <<clipboard, active, seqNum, linked, dirty, held, toClient, toServer,
                     primarySeq, connections, fault>>
      /\ local' = [local EXCEPT ![s] = v] /\ ours' = [ours EXCEPT ![s] = FALSE]
      /\ \/ events' = events
         \/ s = Primary /\ events' = Append(events, Event("grabbed", Primary, primarySeq))
  BY DEF Copy, shared, proxies
<1>2. ASSUME NEW c \in Client
      PROVE  client[c] \in ClientSet /\ SameOwner(client[c], client[c]) /\ SamePlace(client[c], client[c])
  BY DEF SameOwner, SamePlace
<1>3. CASE s \in linked /\ ours[s]
  <2> DEFINE k2 == [client[s] EXCEPT !.grabbed = TRUE]
  <2>1. s \in Client /\ client' = [client EXCEPT ![s] = k2]
    BY <1>3 DEF Copy
  <2>2. client[s] \in ClientSet
    BY <2>1
  <2>3. k2 \in ClientSet /\ SameOwner(client[s], k2) /\ SamePlace(client[s], k2)
    BY <2>2 DEF ClientSet, SameOwner, SamePlace
  <2> HIDE DEF k2
  <2>4. client' \in [Client -> ClientSet] /\ client'[s] = k2 /\ \A c \in Client \ {s} : client'[c] = client[c]
    BY <2>1, <2>3
  <2> QED
    BY <1>1, <1>2, <1>3, <2>1, <2>3, <2>4
<1>4. CASE ~(s \in linked /\ ours[s])
  <2>1. client' = client
    BY <1>4 DEF Copy
  <2> QED
    BY <1>1, <1>2, <2>1
<1> QED
  BY <1>3, <1>4

LEMMA ClientGrabbedDoes ==
    ASSUME TypeOK, NEW c \in Client, ClientGrabbed(c)
    PROVE  /\ UNCHANGED <<clipboard, active, seqNum, linked, dirty, held, events, toClient, local,
                          ours, primarySeq, copies, away, connections, fault>>
           /\ client[c].grabbed /\ OthersStay(c)
           /\ client' \in [Client -> ClientSet] /\ toServer' \in [Client -> Seq(ToServer)]
           /\ \A d \in Client \ {c} : toServer'[d] = toServer[d]
           /\ SamePlace(client[c], client'[c]) /\ ~client'[c].grabbed /\ client'[c].own
           /\ LET sentGrab == Append(toServer[c], Grab(client[c].seq)) IN
              \/ client[c].active /\ ~client'[c].sent /\ toServer'[c] = sentGrab
              \/ /\ ~client[c].active /\ client'[c].sent /\ client'[c].last = local[c]
                 /\ toServer'[c] = Append(sentGrab, Data(client[c].seq, local[c]))
<1> USE TypesAre DEF Types
<1>1. /\ UNCHANGED <<clipboard, active, seqNum, linked, dirty, held, events, toClient, local,
                     ours, primarySeq, copies, away, connections, fault>>
      /\ client[c].grabbed
  BY DEF ClientGrabbed, shared, proxies, screens, bounds
<1>2. client[c].seq \in Seqs /\ local[c] \in Content /\ client[c] \in ClientSet
  BY DEF ClientSet, Screen
<1> DEFINE grab == Grab(client[c].seq)
           data == Data(client[c].seq, local[c])
           one == Append(toServer[c], grab)
           k1 == [client[c] EXCEPT !.grabbed = FALSE, !.own = TRUE, !.sent = FALSE]
           k2 == [client[c] EXCEPT !.grabbed = FALSE, !.own = TRUE, !.sent = TRUE, !.last = local[c]]
<1>3. grab \in ToServer /\ data \in ToServer
  BY <1>2, MessagesAre
<1>4. one \in Seq(ToServer) /\ Append(one, data) \in Seq(ToServer)
  BY <1>3, AppendGrows
<1>5. toServer[c] \o <<grab, data>> = Append(one, data)
  BY <1>3, TwoGrow
<1>6. /\ k1 \in ClientSet /\ SamePlace(client[c], k1) /\ ~k1.grabbed /\ k1.own /\ ~k1.sent
      /\ k2 \in ClientSet /\ SamePlace(client[c], k2) /\ ~k2.grabbed /\ k2.own /\ k2.sent
      /\ k2.last = local[c]
  BY <1>2 DEF ClientSet, SameOwner, SamePlace
<1>7. CASE client[c].active
  <2>1. client' = [client EXCEPT ![c] = k1] /\ toServer' = [toServer EXCEPT ![c] = one]
    BY <1>7 DEF ClientGrabbed
  <2> HIDE DEF k1, k2, grab, data, one
  <2>2. /\ client'[c] = k1 /\ client' \in [Client -> ClientSet] /\ OthersStay(c)
        /\ toServer'[c] = one /\ toServer' \in [Client -> Seq(ToServer)]
        /\ \A d \in Client \ {c} : toServer'[d] = toServer[d]
    BY <2>1, <1>4, <1>6 DEF OthersStay
  <2> QED
    BY <1>1, <1>6, <1>7, <2>2 DEF one, grab
<1>8. CASE ~client[c].active
  <2>1. client' = [client EXCEPT ![c] = k2] /\ toServer' = [toServer EXCEPT ![c] = @ \o <<grab, data>>]
    BY <1>8 DEF ClientGrabbed
  <2> HIDE DEF k1, k2, grab, data, one
  <2>2. /\ client'[c] = k2 /\ client' \in [Client -> ClientSet] /\ OthersStay(c)
        /\ toServer'[c] = Append(one, data) /\ toServer' \in [Client -> Seq(ToServer)]
        /\ \A d \in Client \ {c} : toServer'[d] = toServer[d]
    BY <2>1, <1>4, <1>5, <1>6 DEF OthersStay
  <2> QED
    BY <1>1, <1>6, <1>8, <2>2 DEF one, grab, data
<1> QED
  BY <1>7, <1>8

\* The head of the channel to c is read.
Reads(c) ==
    /\ toClient[c] # <<>> /\ toClient'[c] = Tail(toClient[c])
    /\ toClient' \in [Client -> Seq(ToClient)] /\ Head(toClient[c]) \in ToClient
    /\ Shrunk(toClient[c], toClient'[c], Head(toClient[c]))
    /\ \A d \in Client \ {c} : toClient'[d] = toClient[d]

LEMMA TakesDoes ==
    ASSUME TypeOK, NEW c \in Client, NEW type, Takes(c, type)
    PROVE  /\ Reads(c) /\ Head(toClient[c]).type = type
           /\ UNCHANGED <<clipboard, active, seqNum, linked, dirty, held, events, primarySeq,
                          copies, away, connections, fault>>
<1> USE TypesAre DEF Types
<1>1. /\ Tail(toClient[c]) \in Seq(ToClient) /\ Head(toClient[c]) \in ToClient
      /\ Shrunk(toClient[c], Tail(toClient[c]), Head(toClient[c]))
  BY TailShrinks DEF Takes
<1> QED
  BY <1>1 DEF Takes, Reads, shared, proxies, bounds

LEMMA ClientEntersDoes ==
    ASSUME TypeOK, NEW c \in Client, ClientEnters(c)
    PROVE  /\ Reads(c) /\ Head(toClient[c]).type = "enter"
           /\ UNCHANGED <<clipboard, active, seqNum, linked, dirty, held, events, toServer, local,
                          ours, primarySeq, copies, away, connections, fault>>
           /\ client' \in [Client -> ClientSet] /\ OthersStay(c)
           /\ SameOwner(client[c], client'[c]) /\ client'[c].active /\ client'[c].entered
           /\ client'[c].seq = Head(toClient[c]).seq /\ client'[c].grabbed = client[c].grabbed
<1> USE TypesAre DEF Types
<1>0. client[c] \in ClientSet
  OBVIOUS
<1>1. /\ Takes(c, "enter") /\ UNCHANGED <<toServer, local, ours>>
  BY DEF ClientEnters
<1>2. /\ Reads(c) /\ Head(toClient[c]).type = "enter"
      /\ UNCHANGED <<clipboard, active, seqNum, linked, dirty, held, events, primarySeq,
                     copies, away, connections, fault>>
  BY <1>1, TakesDoes
<1> DEFINE n == Head(toClient[c]).seq
           k2 == [client[c] EXCEPT !.active = TRUE, !.entered = TRUE, !.seq = n]
<1>3. n \in Seqs /\ Nothing \in Content
  BY <1>2, MessagesAre DEF Reads
<1>4. client' = [client EXCEPT ![c] = k2]
  BY DEF ClientEnters
<1>5. /\ k2 \in ClientSet /\ SameOwner(client[c], k2) /\ k2.active /\ k2.entered
      /\ k2.seq = n /\ k2.grabbed = client[c].grabbed
  BY <1>3, <1>0 DEF ClientSet, SameOwner, SamePlace
<1> HIDE DEF k2
<1>6. client'[c] = k2 /\ client' \in [Client -> ClientSet] /\ OthersStay(c)
  BY <1>4, <1>5 DEF OthersStay
<1> QED
  BY <1>1, <1>2, <1>5, <1>6

LEMMA ClientLeavesDoes ==
    ASSUME TypeOK, NEW c \in Client, ClientLeaves(c)
    PROVE  /\ Reads(c) /\ Head(toClient[c]).type = "leave"
           /\ UNCHANGED <<clipboard, active, seqNum, linked, dirty, held, events, local,
                          ours, primarySeq, copies, away, connections, fault>>
           /\ client' \in [Client -> ClientSet] /\ OthersStay(c)
           /\ toServer' \in [Client -> Seq(ToServer)]
           /\ \A d \in Client \ {c} : toServer'[d] = toServer[d]
           /\ ~client'[c].active /\ ~client'[c].entered /\ client'[c].seq = client[c].seq
           /\ client'[c].grabbed = client[c].grabbed /\ client'[c].own = client[c].own
           /\ \/ /\ client[c].own /\ MustSend(c) /\ client'[c].sent /\ client'[c].last = local[c]
                 /\ toServer'[c] = Append(toServer[c], Data(client[c].seq, local[c]))
              \/ /\ ~(client[c].own /\ MustSend(c)) /\ SameOwner(client[c], client'[c])
                 /\ toServer' = toServer
<1> USE TypesAre DEF Types
<1>0. client[c] \in ClientSet
  OBVIOUS
<1>1. /\ Takes(c, "leave") /\ UNCHANGED <<local, ours>>
  BY DEF ClientLeaves
<1>2. /\ Reads(c) /\ Head(toClient[c]).type = "leave"
      /\ UNCHANGED <<clipboard, active, seqNum, linked, dirty, held, events, primarySeq,
                     copies, away, connections, fault>>
  BY <1>1, TakesDoes
<1>3. client[c].seq \in Seqs /\ local[c] \in Content /\ client[c] \in ClientSet
  BY DEF ClientSet, Screen
<1> DEFINE data == Data(client[c].seq, local[c])
           k1 == [client[c] EXCEPT !.active = FALSE, !.entered = FALSE, !.sent = TRUE, !.last = local[c]]
           k2 == [client[c] EXCEPT !.active = FALSE, !.entered = FALSE]
<1>4. Append(toServer[c], data) \in Seq(ToServer)
  BY <1>3, MessagesAre, AppendGrows
<1>5. /\ k1 \in ClientSet /\ k1.own = client[c].own /\ k1.sent /\ k1.last = local[c]
      /\ ~k1.active /\ ~k1.entered /\ k1.seq = client[c].seq /\ k1.grabbed = client[c].grabbed
      /\ k2 \in ClientSet /\ SameOwner(client[c], k2)
      /\ ~k2.active /\ ~k2.entered /\ k2.seq = client[c].seq /\ k2.grabbed = client[c].grabbed
  BY <1>3, <1>0 DEF ClientSet, SameOwner, SamePlace
<1>6. CASE client[c].own /\ MustSend(c)
  <2>1. client' = [client EXCEPT ![c] = k1] /\ toServer' = [toServer EXCEPT ![c] = Append(@, data)]
    BY <1>6 DEF ClientLeaves
  <2> HIDE DEF k1, k2, data
  <2>2. /\ client'[c] = k1 /\ client' \in [Client -> ClientSet] /\ OthersStay(c)
        /\ toServer'[c] = Append(toServer[c], data) /\ toServer' \in [Client -> Seq(ToServer)]
        /\ \A d \in Client \ {c} : toServer'[d] = toServer[d]
    BY <2>1, <1>4, <1>5 DEF OthersStay
  <2> QED
    BY <1>1, <1>2, <1>5, <1>6, <2>2 DEF data
<1>7. CASE ~(client[c].own /\ MustSend(c))
  <2>1. client' = [client EXCEPT ![c] = k2] /\ toServer' = toServer
    BY <1>7 DEF ClientLeaves
  <2> HIDE DEF k1, k2, data
  <2>2. client'[c] = k2 /\ client' \in [Client -> ClientSet] /\ OthersStay(c)
    BY <2>1, <1>5 DEF OthersStay
  <2> QED
    BY <1>1, <1>2, <1>5, <1>7, <2>1, <2>2 DEF SameOwner
<1> QED
  BY <1>6, <1>7

LEMMA ClientLosesDoes ==
    ASSUME TypeOK, NEW c \in Client, ClientLosesClipboard(c)
    PROVE  /\ Reads(c) /\ Head(toClient[c]).type \in {"grab", "data"}
           /\ UNCHANGED <<clipboard, active, seqNum, linked, dirty, held, events, toServer,
                          primarySeq, copies, away, connections, fault>>
           /\ client' \in [Client -> ClientSet] /\ OthersStay(c)
           /\ SamePlace(client[c], client'[c]) /\ client'[c].grabbed = client[c].grabbed
           /\ ~client'[c].own
           /\ ContentOf(Head(toClient[c])) \in Content
           /\ local' = [local EXCEPT ![c] = ContentOf(Head(toClient[c]))]
           /\ ours' = [ours EXCEPT ![c] = TRUE]
<1> USE TypesAre DEF Types
<1>0. client[c] \in ClientSet
  OBVIOUS
<1>1. PICK type \in {"grab", "data"} : Takes(c, type)
  BY DEF ClientLosesClipboard
<1>2. /\ Reads(c) /\ Head(toClient[c]).type = type
      /\ UNCHANGED <<clipboard, active, seqNum, linked, dirty, held, events, primarySeq,
                     copies, away, connections, fault>>
  BY <1>1, TakesDoes
<1> DEFINE k2 == [client[c] EXCEPT !.own = FALSE, !.sent = FALSE]
<1>3. client' = [client EXCEPT ![c] = k2] /\ toServer' = toServer /\ ours' = [ours EXCEPT ![c] = TRUE]
  BY DEF ClientLosesClipboard
<1>4. 0 \in Seqs /\ Nothing \in Content
  BY MessagesAre
<1>5. /\ k2 \in ClientSet /\ SamePlace(client[c], k2) /\ ~k2.own /\ k2.grabbed = client[c].grabbed
  BY <1>4, <1>0 DEF ClientSet, SameOwner, SamePlace
<1>6. /\ local' = [local EXCEPT ![c] = ContentOf(Head(toClient[c]))]
      /\ ContentOf(Head(toClient[c])) \in Content
  <2>1. Head(toClient[c]).type = "data" => Head(toClient[c]).data \in Content
    BY <1>2, MessagesAre DEF Reads
  <2>2. \/ Head(toClient[c]).type = "grab" /\ local' = [local EXCEPT ![c] = Nothing]
        \/ Head(toClient[c]).type = "data" /\ local' = [local EXCEPT ![c] = Head(toClient[c]).data]
    BY DEF ClientLosesClipboard, Takes
  <2>3. "grab" # "data"
    OBVIOUS
  <2> QED
    BY <1>4, <2>1, <2>2, <2>3 DEF ContentOf
<1> HIDE DEF k2
<1>7. client'[c] = k2 /\ client' \in [Client -> ClientSet] /\ OthersStay(c)
  BY <1>3, <1>5 DEF OthersStay
<1> QED
  BY <1>1, <1>2, <1>3, <1>5, <1>6, <1>7

-----------------------------------------------------------------------------
(***************************************************************************)
(* What each step of the server does.                                      *)
(***************************************************************************)
\* The event that a message of c becomes.
Posted(c, m) == Event(IF m.type = "grab" THEN "grabbed" ELSE "changed", c, m.seq)

LEMMA ServerReceivesDoes ==
    ASSUME TypeOK, NEW c \in Client, ServerReceives(c)
    PROVE  /\ UNCHANGED <<clipboard, active, seqNum, linked, dirty, toClient, client, local, ours,
                          primarySeq, copies, away, connections, fault>>
           /\ toServer[c] # <<>> /\ Head(toServer[c]) \in ToServer
           /\ Shrunk(toServer[c], toServer'[c], Head(toServer[c]))
           /\ \A d \in Client \ {c} : toServer'[d] = toServer[d]
           /\ toServer' \in [Client -> Seq(ToServer)]
           /\ Posted(c, Head(toServer[c])) \in EventSet
           /\ events' \in Seq(EventSet) /\ Grown(events, events', Posted(c, Head(toServer[c])))
           /\ held' \in [Client -> Content]
           /\ \A d \in Client \ {c} : held'[d] = held[d]
           /\ \/ Head(toServer[c]).type = "grab" /\ held' = held
              \/ Head(toServer[c]).type = "data" /\ held'[c] = Head(toServer[c]).data
<1> USE TypesAre DEF Types
<1>1. /\ UNCHANGED <<clipboard, active, seqNum, linked, dirty, toClient, client, local, ours,
                     primarySeq, copies, away, connections, fault>>
      /\ toServer[c] # <<>> /\ toServer' = [toServer EXCEPT ![c] = Tail(@)]
  BY DEF ServerReceives, shared, screens, bounds
<1> DEFINE m == Head(toServer[c])
<1>2. /\ Tail(toServer[c]) \in Seq(ToServer) /\ m \in ToServer
      /\ Shrunk(toServer[c], Tail(toServer[c]), m)
  BY <1>1, TailShrinks
<1>3. m.seq \in Seqs /\ (m.type = "grab" \/ (m.type = "data" /\ m.data \in Content))
  BY <1>2, MessagesAre
<1>4. /\ m.type = "grab" => Posted(c, m) = Event("grabbed", c, m.seq)
      /\ m.type = "data" => Posted(c, m) = Event("changed", c, m.seq)
      /\ c \in Screen
  BY DEF Posted, Screen
<1>5. Posted(c, m) \in EventSet
  BY <1>3, <1>4, MessagesAre
<1>6. CASE m.type = "grab"
  <2>1. events' = Append(events, Posted(c, m)) /\ held' = held
    BY <1>4, <1>6 DEF ServerReceives
  <2>2. events' \in Seq(EventSet) /\ Grown(events, events', Posted(c, m))
    BY <1>5, <2>1, AppendGrows
  <2> QED
    BY <1>1, <1>2, <1>5, <1>6, <2>1, <2>2
<1>7. CASE m.type = "data" /\ m.data \in Content
  <2>1. events' = Append(events, Posted(c, m)) /\ held' = [held EXCEPT ![c] = m.data]
    BY <1>4, <1>7 DEF ServerReceives
  <2>2. events' \in Seq(EventSet) /\ Grown(events, events', Posted(c, m))
    BY <1>5, <2>1, AppendGrows
  <2> QED
    BY <1>1, <1>2, <1>5, <1>7, <2>1, <2>2
<1> QED
  BY <1>3, <1>6, <1>7

\* The event e at the head of the queue is dispatched.
Handles(e) ==
    /\ events # <<>> /\ e = Head(events) /\ e \in EventSet /\ e.from \in Screen /\ e.seq \in Seqs
    /\ events' = Tail(events) /\ events' \in Seq(EventSet) /\ Shrunk(events, events', e)
    /\ 1 \in DOMAIN events /\ events[1] = e

LEMMA HandlesDoes ==
    ASSUME TypeOK, events # <<>>, events' = Tail(events)
    PROVE  Handles(Head(events))
BY EventsStay DEF Handles

LEMMA ClipboardGrabbedDoes ==
    ASSUME TypeOK, ClipboardGrabbed
    PROVE  LET e == Head(events) IN
           /\ Handles(e) /\ e.type = "grabbed"
           /\ UNCHANGED <<active, seqNum, linked, held, toServer, client, primarySeq, copies, away,
                          connections, fault>>
           /\ toClient' \in [Client -> Seq(ToClient)]
           /\ \/ /\ ~AcceptsGrab(e)
                 /\ UNCHANGED <<clipboard, dirty, toClient, local, ours>>
              \/ /\ AcceptsGrab(e)
                 /\ clipboard' = [owner |-> e.from, seq |-> e.seq, data |-> Nothing]
                 /\ dirty' = DirtyExcept(e.from)
                 /\ \A c \in linked \ {e.from} : Grown(toClient[c], toClient'[c], Grab(0))
                 /\ \A c \in Client : c \notin linked \ {e.from} => toClient'[c] = toClient[c]
                 /\ \A c \in Client : local'[c] = local[c] /\ ours'[c] = ours[c]
                 /\ e.from = Primary => local' = local /\ ours' = ours
                 /\ e.from # Primary => local'[Primary] = Nothing /\ ours'[Primary]
                 /\ local' \in [Screen -> Content] /\ ours' \in [Screen -> BOOLEAN]
<1> USE TypesAre DEF Types
<1> DEFINE e == Head(events)
<1>1. /\ Handles(e) /\ e.type = "grabbed"
      /\ UNCHANGED <<active, seqNum, linked, held, toServer, client, primarySeq, copies, away,
                     connections, fault>>
  BY HandlesDoes DEF ClipboardGrabbed, bounds
<1>2. CASE ~AcceptsGrab(e)
  <2>1. UNCHANGED <<clipboard, dirty, toClient, local, ours>>
    BY <1>2 DEF ClipboardGrabbed
  <2> QED
    BY <1>1, <1>2, <2>1
<1>3. CASE AcceptsGrab(e)
  <2>1. /\ clipboard' = [owner |-> e.from, seq |-> e.seq, data |-> Nothing]
        /\ dirty' = DirtyExcept(e.from)
        /\ toClient' = [c \in Client |-> IF c \in linked \ {e.from}
                                         THEN Append(toClient[c], Grab(0)) ELSE toClient[c]]
        /\ e.from = Primary => local' = local /\ ours' = ours
        /\ e.from # Primary => /\ local' = [local EXCEPT ![Primary] = Nothing]
                               /\ ours' = [ours EXCEPT ![Primary] = TRUE]
    BY <1>3 DEF ClipboardGrabbed
  <2>2. Grab(0) \in ToClient /\ Nothing \in Content /\ Primary \in Screen
    BY MessagesAre
  <2>3. \A c \in Client : /\ Append(toClient[c], Grab(0)) \in Seq(ToClient)
                          /\ Grown(toClient[c], Append(toClient[c], Grab(0)), Grab(0))
    BY <2>2, AppendGrows
  <2>4. toClient' \in [Client -> Seq(ToClient)]
    BY <2>1, <2>3
  <2>5. \A c \in linked \ {e.from} : Grown(toClient[c], toClient'[c], Grab(0))
    BY <2>1, <2>3
  <2>6. \A c \in Client : c \notin linked \ {e.from} => toClient'[c] = toClient[c]
    BY <2>1
  <2>7. \A c \in Client : c \in Screen /\ c # Primary
    BY ClipboardAssumption DEF Screen
  <2>8. /\ \A c \in Client : local'[c] = local[c] /\ ours'[c] = ours[c]
        /\ e.from # Primary => local'[Primary] = Nothing /\ ours'[Primary]
        /\ local' \in [Screen -> Content] /\ ours' \in [Screen -> BOOLEAN]
    <3>1. CASE e.from = Primary
      BY <2>1, <3>1
    <3>2. CASE e.from # Primary
      <4>1. local' = [local EXCEPT ![Primary] = Nothing] /\ ours' = [ours EXCEPT ![Primary] = TRUE]
        BY <2>1, <3>2
      <4>2. local' \in [Screen -> Content] /\ ours' \in [Screen -> BOOLEAN]
        BY <2>2, <4>1
      <4>3. \A c \in Client : local'[c] = local[c] /\ ours'[c] = ours[c]
        BY <2>7, <4>1
      <4>4. local'[Primary] = Nothing /\ ours'[Primary]
        BY <2>2, <4>1
      <4> QED
        BY <4>2, <4>3, <4>4
    <3> QED
      BY <3>1, <3>2
  <2> QED
    BY <1>1, <1>3, <2>1, <2>4, <2>5, <2>6, <2>8
<1> QED
  BY <1>2, <1>3

\* The screen dst is given v.
Given(dst, v) ==
    /\ dst = Primary => /\ toClient' = toClient /\ local' = [local EXCEPT ![Primary] = v]
                        /\ ours' = [ours EXCEPT ![Primary] = TRUE] /\ held' = held
    /\ dst \in Client => /\ Grown(toClient[dst], toClient'[dst], Data(0, v))
                         /\ \A c \in Client \ {dst} : toClient'[c] = toClient[c]
                         /\ \A c \in Client \ {dst} : held'[c] = held[c]
                         /\ local' = local /\ ours' = ours

LEMMA ClipboardChangedDoes ==
    ASSUME TypeOK, Linkage, ClipboardChanged
    PROVE  LET e == Head(events)
               new == held[e.from] IN
           /\ Handles(e) /\ e.type = "changed" /\ e.from \in Client /\ new \in Content
           /\ UNCHANGED <<active, seqNum, linked, toServer, client, primarySeq, copies, away,
                          connections>>
           /\ toClient' \in [Client -> Seq(ToClient)] /\ held' \in [Client -> Content]
           /\ local' \in [Screen -> Content] /\ ours' \in [Screen -> BOOLEAN]
           /\ \/ /\ e.seq >= clipboard.seq /\ clipboard.owner # e.from /\ fault' = TRUE
                 /\ UNCHANGED <<clipboard, dirty, held, toClient, local, ours>>
              \/ /\ e.seq < clipboard.seq \/ new = clipboard.data
                 /\ e.seq >= clipboard.seq => clipboard.owner = e.from
                 /\ UNCHANGED <<clipboard, dirty, held, toClient, local, ours, fault>>
              \/ /\ e.seq >= clipboard.seq /\ clipboard.owner = e.from /\ fault' = fault
                 /\ clipboard' = [clipboard EXCEPT !.data = new]
                 /\ \/ /\ active # clipboard.owner /\ Given(active, new)
                       /\ dirty' = [DirtyExcept(e.from) EXCEPT ![active] = FALSE]
                    \/ /\ active = clipboard.owner /\ dirty' = DirtyExcept(e.from)
                       /\ UNCHANGED <<held, toClient, local, ours>>
<1> USE TypesAre DEF Types
<1> DEFINE e == Head(events)
           new == held[e.from]
           d == DirtyExcept(e.from)
<1>1. /\ Handles(e) /\ e.type = "changed"
      /\ UNCHANGED <<active, seqNum, linked, toServer, client, primarySeq, copies, away,
                     connections>>
  BY HandlesDoes DEF ClipboardChanged, bounds
<1>2. e.from \in Client /\ new \in Content
  <2>1. events[1].type = "changed" => events[1].from \in Client
    BY <1>1 DEF Handles, Linkage
  <2> QED
    BY <1>1, <2>1 DEF Handles
<1>3. CASE e.seq >= clipboard.seq /\ clipboard.owner # e.from /\ fault' = TRUE
           /\ UNCHANGED <<clipboard, dirty, held, toClient, local, ours>>
  BY <1>1, <1>2, <1>3
<1>4. CASE /\ e.seq < clipboard.seq \/ new = clipboard.data
           /\ e.seq >= clipboard.seq => clipboard.owner = e.from
           /\ UNCHANGED <<clipboard, dirty, held, toClient, local, ours, fault>>
  BY <1>1, <1>2, <1>4
<1>5. CASE /\ e.seq >= clipboard.seq /\ clipboard.owner = e.from /\ new # clipboard.data
           /\ clipboard' = [clipboard EXCEPT !.data = new]
           /\ IF GivesToActive(d)
                 THEN /\ dirty' = [d EXCEPT ![active] = FALSE]
                      /\ toClient' = Send(d, toClient, active, new)
                      /\ held' = Hold(d, active, new)
                      /\ local' = Store(d, active, new)
                      /\ ours' = Own(d, active)
                 ELSE dirty' = d /\ UNCHANGED <<toClient, held, local, ours>>
           /\ UNCHANGED fault
  <2>1. active \in Listed /\ (d[active] <=> active # clipboard.owner)
    BY <1>5 DEF Linkage, DirtyExcept
  <2>2. CASE active = clipboard.owner
    <3>1. dirty' = d /\ UNCHANGED <<toClient, held, local, ours>>
      BY <1>5, <2>1, <2>2 DEF GivesToActive
    <3> QED
      BY <1>1, <1>2, <1>5, <2>2, <3>1
  <2>3. CASE active # clipboard.owner
    <3>1. /\ dirty' = [d EXCEPT ![active] = FALSE]
          /\ toClient' = Send(d, toClient, active, new) /\ held' = Hold(d, active, new)
          /\ local' = Store(d, active, new) /\ ours' = Own(d, active)
      BY <1>5, <2>1, <2>3 DEF GivesToActive
    <3>2. /\ d \in [Screen -> BOOLEAN] /\ Data(0, new) \in ToClient
      BY <1>2, DirtyType, MessagesAre
    <3>3. /\ toClient' \in [Client -> Seq(ToClient)] /\ held' \in [Client -> Content]
          /\ local' \in [Screen -> Content] /\ ours' \in [Screen -> BOOLEAN]
      BY <1>2, <3>1, <3>2, SendTypes
    <3>4. active \in Client => Grown(toClient[active], Append(toClient[active], Data(0, new)), Data(0, new))
      BY <3>2, AppendGrows
    <3>5. Given(active, new)
      BY <2>1, <2>3, <3>1, <3>4, ClipboardAssumption DEF Given, Send, Hold, Store, Own
    <3>6. /\ e.seq >= clipboard.seq /\ clipboard.owner = e.from /\ fault' = fault
          /\ clipboard' = [clipboard EXCEPT !.data = new]
      BY <1>5
    <3> QED
      BY <1>1, <1>2, <2>3, <3>1, <3>3, <3>5, <3>6
  <2> QED
    BY <2>2, <2>3
<1> QED
  BY <1>3, <1>4, <1>5 DEF ClipboardChanged, proxies

LEMMA DroppedDoes ==
    ASSUME TypeOK, Dropped
    PROVE  /\ Handles(Head(events)) /\ Head(events).type = "orphan"
           /\ UNCHANGED <<clipboard, active, seqNum, linked, dirty, held, toClient, toServer, client,
                          local, ours, primarySeq, copies, away, connections, fault>>
BY HandlesDoes DEF Dropped, shared, proxies, screens, bounds

\* What the primary has and who is dirty, when a screen is entered.
NewData == IF PrimaryUpdates THEN local[Primary] ELSE clipboard.data
NewDirty == IF PrimaryUpdates THEN DirtyExcept(Primary) ELSE dirty

\* dst is entered: told so, and given v if it is dirty.
Entered(dst, v) ==
    LET enter == Enter(seqNum + 1) IN
    /\ dst = Primary =>
           /\ NewDirty[dst] => local' = [local EXCEPT ![Primary] = v] /\ ours' = [ours EXCEPT ![Primary] = TRUE]
           /\ ~NewDirty[dst] => local' = local /\ ours' = ours
           /\ held' = held
    /\ dst \in Client =>
           /\ local' = local /\ ours' = ours
           /\ ~NewDirty[dst] => held' = held
           /\ \A c \in Client \ {dst} : held'[c] = held[c]
           /\ NewDirty[dst] =>
                  \E q \in Seq(ToClient') : Grown(toClient[dst], q, enter) /\ Grown(q, toClient'[dst], Data(0, v))
           /\ ~NewDirty[dst] => Grown(toClient[dst], toClient'[dst], enter)

LEMMA SwitchScreenDoes ==
    ASSUME TypeOK, Linkage, NEW dst \in Screen, SwitchScreen(dst)
    PROVE  /\ UNCHANGED <<linked, events, toServer, client, copies, away, connections, fault>>
           /\ held' \in [Client -> Content]
           /\ dst \in Listed /\ dst # active
           /\ active' = dst /\ seqNum' = seqNum + 1 /\ seqNum' \in 0..MaxSeq
           /\ primarySeq' = IF dst = Primary THEN seqNum + 1 ELSE primarySeq
           /\ clipboard' = [clipboard EXCEPT !.data = NewData] /\ NewData \in Content
           /\ NewDirty \in [Screen -> BOOLEAN]
           /\ dirty' = [NewDirty EXCEPT ![dst] = FALSE]
           /\ toClient' \in [Client -> Seq(ToClient')]
           /\ local' \in [Screen -> Content] /\ ours' \in [Screen -> BOOLEAN]
           /\ \A c \in Client \ {active, dst} : toClient'[c] = toClient[c]
           /\ active \in Client => Grown(toClient[active], toClient'[active], Leave)
           /\ Entered(dst, NewData)
<1> USE TypesAre DEF Types
<1> DEFINE left == IF active \in Client
                   THEN [toClient EXCEPT ![active] = Append(@, Leave)] ELSE toClient
           enter == Enter(seqNum + 1)
           entered == IF dst \in Client THEN [left EXCEPT ![dst] = Append(@, enter)] ELSE left
           data == Data(0, NewData)
<1>1. /\ UNCHANGED <<linked, events, toServer, client, copies, away, connections, fault>>
      /\ dst \in Listed /\ dst # active
      /\ active' = dst /\ seqNum' = seqNum + 1 /\ seqNum < MaxSeq
      /\ primarySeq' = IF dst = Primary THEN seqNum + 1 ELSE primarySeq
  BY DEF SwitchScreen, bounds
<1>2. /\ clipboard' = [clipboard EXCEPT !.data = NewData]
      /\ dirty' = [NewDirty EXCEPT ![dst] = FALSE]
      /\ toClient' = Send(NewDirty, entered, dst, NewData)
      /\ held' = Hold(NewDirty, dst, NewData)
      /\ local' = Store(NewDirty, dst, NewData)
      /\ ours' = Own(NewDirty, dst)
  BY DEF SwitchScreen, NewData, NewDirty
<1>3. NewData \in Content /\ NewDirty \in [Screen -> BOOLEAN]
  BY DirtyType DEF NewData, NewDirty, Screen
<1>4. seqNum' \in 0..MaxSeq
  BY <1>1, ClipboardAssumption
<1>5. /\ Seqs \subseteq Seqs' /\ seqNum + 1 \in Seqs'
      /\ Seq(ToClient) \subseteq Seq(ToClient') /\ toClient \in [Client -> Seq(ToClient')]
  BY <1>1, SetsGrow
<1>6. Leave \in ToClient' /\ enter \in ToClient' /\ data \in ToClient'
  <2>1. 0 \in Seqs'
    BY <1>5, MessagesAre
  <2> QED
    BY <1>3, <1>5, <2>1 DEF ToClient, Leave, Enter, Data
<1> DEFINE S == Seq(ToClient')
<1>7. \A q \in S : /\ Append(q, Leave) \in S /\ Grown(q, Append(q, Leave), Leave)
                   /\ Append(q, enter) \in S /\ Grown(q, Append(q, enter), enter)
                   /\ Append(q, data) \in S /\ Grown(q, Append(q, data), data)
  BY <1>6, AppendGrows
<1> HIDE DEF S
<1>8. toClient \in [Client -> S]
  BY <1>5 DEF S
<1>9. /\ left \in [Client -> S]
      /\ \A c \in Client \ {active} : left[c] = toClient[c]
      /\ active \in Client => left[active] = Append(toClient[active], Leave)
  BY <1>7, <1>8
<1>10. /\ entered \in [Client -> S]
       /\ \A c \in Client \ {dst} : entered[c] = left[c]
       /\ dst \in Client => entered[dst] = Append(left[dst], enter)
  BY <1>7, <1>9
<1> HIDE DEF left, entered
<1>11. /\ toClient' \in [Client -> S]
       /\ \A c \in Client \ {dst} : toClient'[c] = entered[c]
       /\ dst \in Client /\ NewDirty[dst] => toClient'[dst] = Append(entered[dst], data)
       /\ dst \in Client /\ ~NewDirty[dst] => toClient'[dst] = entered[dst]
  BY <1>2, <1>7, <1>10 DEF Send
<1>12. /\ \A c \in Client \ {active, dst} : toClient'[c] = toClient[c]
       /\ active \in Client => Grown(toClient[active], toClient'[active], Leave)
  BY <1>1, <1>7, <1>8, <1>9, <1>10, <1>11
<1>13. dst \in Client =>
           /\ NewDirty[dst] =>
                  \E q \in S : Grown(toClient[dst], q, enter) /\ Grown(q, toClient'[dst], data)
           /\ ~NewDirty[dst] => Grown(toClient[dst], toClient'[dst], enter)
  <2> SUFFICES ASSUME dst \in Client
               PROVE  /\ NewDirty[dst] =>
                             \E q \in S : Grown(toClient[dst], q, enter) /\ Grown(q, toClient'[dst], data)
                      /\ ~NewDirty[dst] => Grown(toClient[dst], toClient'[dst], enter)
    OBVIOUS
  <2> DEFINE q == Append(toClient[dst], enter)
  <2>1. entered[dst] = q /\ q \in S /\ Grown(toClient[dst], q, enter)
    BY <1>1, <1>7, <1>8, <1>9, <1>10
  <2>2. Grown(q, Append(q, data), data)
    BY <1>7, <2>1
  <2> HIDE DEF q, data, enter
  <2> QED
    BY <1>11, <2>1, <2>2
<1>14. Entered(dst, NewData)
  <2>1. dst = Primary =>
            /\ NewDirty[dst] => local' = [local EXCEPT ![Primary] = NewData] /\ ours' = [ours EXCEPT ![Primary] = TRUE]
            /\ ~NewDirty[dst] => local' = local /\ ours' = ours
    BY <1>2 DEF Store, Own
  <2>2. dst \in Client => local' = local /\ ours' = ours
    BY <1>2, ClipboardAssumption DEF Store, Own
  <2>3. /\ dst = Primary \/ ~NewDirty[dst] => held' = held
        /\ \A c \in Client \ {dst} : held'[c] = held[c]
    BY <1>2, ClipboardAssumption DEF Hold
  <2> QED
    BY <2>1, <2>2, <2>3, <1>13 DEF Entered, S
<1>15. local' \in [Screen -> Content] /\ ours' \in [Screen -> BOOLEAN]
  BY <1>2, <1>3 DEF Store, Own
<1>16. held' \in [Client -> Content]
  BY <1>2, <1>3 DEF Hold
<1> QED
  BY <1>1, <1>2, <1>3, <1>4, <1>11, <1>12, <1>14, <1>15, <1>16 DEF S

LEMMA ConnectDoes ==
    ASSUME TypeOK, NEW c \in Client, Connect(c)
    PROVE  /\ UNCHANGED <<clipboard, active, seqNum, events, toClient, toServer, primarySeq, copies,
                          away, fault>>
           /\ c \notin linked /\ linked' = linked \cup {c} /\ dirty' = [dirty EXCEPT ![c] = TRUE]
           /\ held' = [held EXCEPT ![c] = Nothing] /\ local' = [local EXCEPT ![c] = Nothing]
           /\ ours' = [ours EXCEPT ![c] = TRUE]
           /\ connections' = [connections EXCEPT ![c] = connections[c] + 1]
           /\ client' \in [Client -> ClientSet] /\ OthersStay(c)
           /\ client'[c].active = client[c].active /\ client'[c].last = client[c].last
           /\ ~client'[c].entered /\ ~client'[c].own /\ ~client'[c].sent /\ client'[c].seq = 0
           /\ ~client'[c].grabbed
<1> USE TypesAre DEF Types
<1>1. /\ UNCHANGED <<clipboard, active, seqNum, events, toClient, toServer, primarySeq, copies,
                     away, fault>>
      /\ c \notin linked /\ linked' = linked \cup {c} /\ dirty' = [dirty EXCEPT ![c] = TRUE]
      /\ held' = [held EXCEPT ![c] = Nothing] /\ local' = [local EXCEPT ![c] = Nothing]
      /\ ours' = [ours EXCEPT ![c] = TRUE]
      /\ connections' = [connections EXCEPT ![c] = connections[c] + 1]
  BY DEF Connect, wires
<1> DEFINE k2 == [NewClient EXCEPT !.active = client[c].active, !.last = client[c].last]
<1>2. client[c] \in ClientSet /\ 0 \in Seqs /\ Nothing \in Content
  BY MessagesAre
<1>3. client' = [client EXCEPT ![c] = k2]
  BY DEF Connect
<1>4. /\ k2 \in ClientSet /\ k2.active = client[c].active /\ k2.last = client[c].last
      /\ ~k2.entered /\ ~k2.own /\ ~k2.sent /\ k2.seq = 0 /\ ~k2.grabbed
  BY <1>2 DEF ClientSet, NewClient
<1> HIDE DEF k2
<1>5. client'[c] = k2 /\ client' \in [Client -> ClientSet] /\ OthersStay(c)
  BY <1>3, <1>4 DEF OthersStay
<1> QED
  BY <1>1, <1>4, <1>5

\* p is q with the elements from c replaced.
Masked(q, p, c) ==
    /\ Len(q) \in Nat /\ DOMAIN q = 1..Len(q) /\ Len(p) = Len(q) /\ DOMAIN p = DOMAIN q
    /\ \A i \in DOMAIN q : p[i] = IF q[i].from = c THEN Orphan ELSE q[i]

LEMMA DisconnectDoes ==
    ASSUME TypeOK, NEW c \in Client, Disconnect(c)
    PROVE  /\ UNCHANGED <<clipboard, seqNum, dirty, held, local, ours, copies, away, connections, fault>>
           /\ c \in linked /\ linked' = linked \ {c}
           /\ toClient' \in [Client -> Seq(ToClient)] /\ toClient'[c] = <<>>
           /\ toServer' \in [Client -> Seq(ToServer)] /\ toServer'[c] = <<>>
           /\ \A d \in Client \ {c} : toServer'[d] = toServer[d] /\ toClient'[d] = toClient[d]
           /\ events' \in Seq(EventSet) /\ Masked(events, events', c)
           /\ client' \in [Client -> ClientSet] /\ OthersStay(c)
           /\ SameOwner(client[c], client'[c])
           /\ client'[c].active = client[c].active /\ client'[c].seq = client[c].seq
           /\ ~client'[c].entered /\ ~client'[c].grabbed
           /\ \/ active = c /\ active' = Primary /\ primarySeq' = seqNum
              \/ active # c /\ active' = active /\ primarySeq' = primarySeq
<1> USE TypesAre DEF Types
<1>1. /\ UNCHANGED <<clipboard, seqNum, dirty, held, local, ours, copies, away, connections, fault>>
      /\ c \in linked /\ linked' = linked \ {c}
      /\ toClient' = [toClient EXCEPT ![c] = <<>>] /\ toServer' = [toServer EXCEPT ![c] = <<>>]
      /\ \/ active = c /\ active' = Primary /\ primarySeq' = seqNum
         \/ active # c /\ active' = active /\ primarySeq' = primarySeq
  BY DEF Disconnect, bounds, proxies, ForcedSeq
<1>2. /\ toClient' \in [Client -> Seq(ToClient)] /\ toClient'[c] = <<>>
      /\ toServer' \in [Client -> Seq(ToServer)] /\ toServer'[c] = <<>>
      /\ \A d \in Client \ {c} : toServer'[d] = toServer[d] /\ toClient'[d] = toClient[d]
  BY <1>1, NothingIn
<1> DEFINE p == EventsWithout(c)
<1>3. /\ p \in Seq(EventSet) /\ Masked(events, p, c)
  <2>1. Orphan \in EventSet
    BY MessagesAre
  <2>2. Len(events) \in Nat /\ DOMAIN events = 1..Len(events)
    BY LenProperties
  <2>3. \A i \in 1..Len(events) : events[i] \in EventSet
    BY <2>2, ElementsAre
  <2>4. p = [i \in 1..Len(events) |-> IF events[i].from = c THEN Orphan ELSE events[i]]
    BY <2>2 DEF EventsWithout
  <2>5. p \in Seq(EventSet)
    BY <2>1, <2>2, <2>3, <2>4, SeqDef
  <2>6. DOMAIN p = 1..Len(events) /\ Len(p) = Len(events)
    BY <2>2, <2>4, <2>5, LenProperties
  <2> QED
    BY <2>2, <2>4, <2>5, <2>6 DEF Masked
<1>4. client[c] \in ClientSet
  OBVIOUS
<1> DEFINE k2 == [client[c] EXCEPT !.grabbed = FALSE, !.entered = FALSE]
<1>5. client' = [client EXCEPT ![c] = k2] /\ events' = p
  BY DEF Disconnect
<1>6. /\ k2 \in ClientSet /\ SameOwner(client[c], k2)
      /\ k2.active = client[c].active /\ k2.seq = client[c].seq /\ ~k2.entered /\ ~k2.grabbed
  BY <1>4 DEF ClientSet, SameOwner
<1> HIDE DEF k2
<1>7. client'[c] = k2 /\ client' \in [Client -> ClientSet] /\ OthersStay(c)
  BY <1>5, <1>6 DEF OthersStay
<1> HIDE DEF p
<1> QED
  BY <1>1, <1>2, <1>3, <1>5, <1>6, <1>7

-----------------------------------------------------------------------------
(***************************************************************************)
(* Types and who is connected.                                             *)
(***************************************************************************)
LEMMA TypeStep ==
    ASSUME TypeOK, Linkage, Next
    PROVE  TypeOK'
<1> USE TypesAre DEF Types
<1>1. ASSUME NEW s \in Screen, NEW v \in Value, Copy(s, v),
             copies' \in [Screen -> Nat], away' \in Nat
      PROVE  TypeOK'
  <2>1. /\ UNCHANGED <<clipboard, active, seqNum, linked, dirty, held, toClient, toServer,
                       primarySeq, connections, fault>>
        /\ local' = [local EXCEPT ![s] = v] /\ ours' = [ours EXCEPT ![s] = FALSE]
        /\ \/ events' = events
           \/ s = Primary /\ events' = Append(events, Event("grabbed", Primary, primarySeq))
        /\ client' \in [Client -> ClientSet]
    BY <1>1, CopyDoes
  <2>2. Event("grabbed", Primary, primarySeq) \in EventSet
    BY MessagesAre
  <2>3. Append(events, Event("grabbed", Primary, primarySeq)) \in Seq(EventSet)
    BY <2>2, AppendGrows
  <2>4. local' \in [Screen -> Content] /\ ours' \in [Screen -> BOOLEAN]
    BY <2>1 DEF Content
  <2>5. events' \in Seq(EventSet)
    BY <2>1, <2>3
  <2> QED
    BY <1>1, <2>1, <2>4, <2>5, SetsStay
<1>2. ASSUME NEW s \in Screen, NEW v \in Value, UserCopies(s, v)
      PROVE  TypeOK'
  <2>1. copies' \in [Screen -> Nat] /\ away' \in Nat
    BY <1>2 DEF UserCopies
  <2> QED
    BY <1>1, <1>2, <2>1 DEF UserCopies
<1>3. ASSUME NEW s \in Screen, NEW v \in Value, ProgramCopies(s, v)
      PROVE  TypeOK'
  <2>1. copies' \in [Screen -> Nat] /\ away' \in Nat
    BY <1>3 DEF ProgramCopies
  <2> QED
    BY <1>1, <1>3, <2>1 DEF ProgramCopies
<1>4. ASSUME NEW c \in Client, ClientGrabbed(c) PROVE TypeOK'
  BY <1>4, ClientGrabbedDoes, SetsStay
<1>5. ASSUME NEW c \in Client, ClientEnters(c) PROVE TypeOK'
  BY <1>5, ClientEntersDoes, SetsStay DEF Reads
<1>6. ASSUME NEW c \in Client, ClientLeaves(c) PROVE TypeOK'
  BY <1>6, ClientLeavesDoes, SetsStay DEF Reads
<1>7. ASSUME NEW c \in Client, ClientLosesClipboard(c) PROVE TypeOK'
  <2> DEFINE v == ContentOf(Head(toClient[c]))
  <2>1. v \in Content /\ local' = [local EXCEPT ![c] = v] /\ ours' = [ours EXCEPT ![c] = TRUE]
    BY <1>7, ClientLosesDoes
  <2> HIDE DEF v
  <2>2. local' \in [Screen -> Content] /\ ours' \in [Screen -> BOOLEAN]
    BY <2>1
  <2> QED
    BY <1>7, <2>2, ClientLosesDoes, SetsStay DEF Reads
<1>8. ASSUME NEW c \in Client, ServerReceives(c) PROVE TypeOK'
  BY <1>8, ServerReceivesDoes, SetsStay
<1>9. ASSUME NEW c \in Client, Connect(c) PROVE TypeOK'
  <2>1. /\ linked' = linked \cup {c} /\ dirty' = [dirty EXCEPT ![c] = TRUE]
        /\ held' = [held EXCEPT ![c] = Nothing] /\ local' = [local EXCEPT ![c] = Nothing]
        /\ ours' = [ours EXCEPT ![c] = TRUE]
        /\ connections' = [connections EXCEPT ![c] = connections[c] + 1]
    BY <1>9, ConnectDoes
  <2>2. Nothing \in Content
    BY DEF Content
  <2>3. /\ local' \in [Screen -> Content] /\ held' \in [Client -> Content]
    BY <2>1, <2>2
  <2>4. ours' \in [Screen -> BOOLEAN] /\ dirty' \in [Screen -> BOOLEAN]
    BY <2>1
  <2>5. linked' \in SUBSET Client /\ connections' \in [Client -> Nat]
    <3>1. connections[c] + 1 \in Nat
      OBVIOUS
    <3> QED
      BY <2>1, <3>1
  <2> QED
    BY <1>9, <2>3, <2>4, <2>5, ConnectDoes, SetsStay
<1>10. ASSUME NEW c \in Client, Disconnect(c) PROVE TypeOK'
  <2>1. seqNum \in Seqs /\ Primary \in Screen
    BY ClipboardAssumption DEF Seqs, Screen
  <2>2. active' \in Screen /\ primarySeq' \in Seqs /\ linked' \in SUBSET Client
    BY <1>10, <2>1, DisconnectDoes
  <2> QED
    BY <1>10, <2>2, DisconnectDoes, SetsStay
<1>11. ASSUME ClipboardGrabbed PROVE TypeOK'
  <2>1. Handles(Head(events))
    BY <1>11, ClipboardGrabbedDoes
  <2>2. dirty' \in [Screen -> BOOLEAN]
    BY <1>11, ClipboardGrabbedDoes, DirtyType
  <2>3. clipboard' \in [owner : Screen, seq : Seqs, data : Content]
    BY <1>11, <2>1, ClipboardGrabbedDoes DEF Handles, Content
  <2>4. /\ toClient' \in [Client -> Seq(ToClient)]
        /\ local' \in [Screen -> Content] /\ ours' \in [Screen -> BOOLEAN]
        /\ UNCHANGED <<active, seqNum, linked, held, toServer, client, primarySeq, copies, away,
                       connections, fault>>
    BY <1>11, ClipboardGrabbedDoes
  <2> QED
    BY <2>1, <2>2, <2>3, <2>4, SetsStay DEF Handles
<1>12. ASSUME ClipboardChanged PROVE TypeOK'
  <2> DEFINE e == Head(events)
             d == DirtyExcept(e.from)
  <2>1. /\ Handles(e)
        /\ toClient' \in [Client -> Seq(ToClient)]
        /\ local' \in [Screen -> Content] /\ ours' \in [Screen -> BOOLEAN]
        /\ UNCHANGED <<active, seqNum, linked, toServer, client, primarySeq, copies, away,
                       connections>>
        /\ held[e.from] \in Content /\ held' \in [Client -> Content]
        /\ fault' = TRUE \/ fault' = fault
        /\ clipboard' = clipboard \/ clipboard' = [clipboard EXCEPT !.data = held[e.from]]
        /\ dirty' = dirty \/ dirty' = d \/ dirty' = [d EXCEPT ![active] = FALSE]
    BY <1>12, ClipboardChangedDoes
  <2>2. d \in [Screen -> BOOLEAN]
    BY DirtyType
  <2> HIDE DEF e, d
  <2>3. dirty' \in [Screen -> BOOLEAN]
    BY <2>1, <2>2
  <2>4. clipboard' \in [owner : Screen, seq : Seqs, data : Content]
    BY <2>1
  <2> QED
    BY <2>1, <2>3, <2>4, SetsStay DEF Handles
<1>13. ASSUME Dropped PROVE TypeOK'
  BY <1>13, DroppedDoes, SetsStay DEF Handles
<1>14. ASSUME NEW dst \in Screen, SwitchScreen(dst) PROVE TypeOK'
  <2>1. seqNum' = seqNum + 1
    BY <1>14, SwitchScreenDoes
  <2>2. /\ Seqs \subseteq Seqs' /\ seqNum' \in Seqs'
        /\ Seq(EventSet) \subseteq Seq(EventSet') /\ Seq(ToServer) \subseteq Seq(ToServer')
        /\ ClientSet \subseteq ClientSet'
    BY <2>1, SetsGrow
  <2>3. /\ primarySeq' \in Seqs' /\ events' \in Seq(EventSet') /\ client' \in [Client -> ClientSet']
        /\ toServer' \in [Client -> Seq(ToServer')] /\ dirty' \in [Screen -> BOOLEAN]
    BY <1>14, <2>1, <2>2, SwitchScreenDoes
  <2>4. clipboard' \in [owner : Screen, seq : Seqs', data : Content]
    BY <1>14, <2>2, SwitchScreenDoes
  <2> QED
    BY <1>14, <2>3, <2>4, SwitchScreenDoes
<1> QED
  BY <1>2, <1>3, <1>4, <1>5, <1>6, <1>7, <1>8, <1>9, <1>10, <1>11, <1>12, <1>13, <1>14 DEF Next

\* What Linkage says of the queue of events.
EventsLinked(q, screens_) ==
    \A i \in DOMAIN q :
        /\ q[i].from \in screens_
        /\ q[i].type = "changed" => q[i].from \in Client
        /\ q[i].type = "orphan" => q[i] = Orphan

LEMMA EventsStayLinked ==
    ASSUME NEW q, NEW p, NEW A, NEW m, EventsLinked(q, A)
    PROVE  /\ /\ Grown(q, p, m) /\ m.from \in A /\ m.type # "orphan"
              /\ m.type = "changed" => m.from \in Client
              => EventsLinked(p, A)
           /\ Shrunk(q, p, m) => EventsLinked(p, A)
           /\ \A B : A \subseteq B => EventsLinked(q, B)
<1>1. ASSUME Grown(q, p, m), m.from \in A, m.type # "orphan", m.type = "changed" => m.from \in Client
      PROVE  EventsLinked(p, A)
  <2>1. \A i \in DOMAIN p : (i \in DOMAIN q /\ p[i] = q[i]) \/ p[i] = m
    BY <1>1 DEF Grown
  <2> QED
    BY <1>1, <2>1 DEF EventsLinked
<1>2. ASSUME Shrunk(q, p, m) PROVE EventsLinked(p, A)
  <2>1. \A i \in DOMAIN p : i + 1 \in DOMAIN q /\ p[i] = q[i + 1]
    BY <1>2 DEF Shrunk
  <2> QED
    BY <2>1 DEF EventsLinked
<1>3. \A B : A \subseteq B => EventsLinked(q, B)
  BY DEF EventsLinked
<1> QED
  BY <1>1, <1>2, <1>3

\* What Linkage says of a client that is not connected.
Gone(c) == /\ toClient[c] = <<>> /\ toServer[c] = <<>>
           /\ ~client[c].grabbed /\ ~client[c].entered

LEMMA LinkageIs ==
    /\ Linkage <=> /\ active \in Listed /\ EventsLinked(events, Listed)
                   /\ \A c \in Client \ linked : Gone(c)
    /\ Linkage' <=> /\ active' \in Listed' /\ EventsLinked(events', Listed')
                    /\ \A c \in Client \ linked' : Gone(c)'
BY DEF Linkage, EventsLinked, Gone

LEMMA LinkageStep ==
    ASSUME TypeOK, Linkage, Next
    PROVE  Linkage'
<1> USE TypesAre DEF Types
<1>0. active \in Listed /\ EventsLinked(events, Listed) /\ \A c \in Client \ linked : Gone(c)
  BY LinkageIs
<1>a. ASSUME linked' = linked PROVE Listed' = Listed
  BY <1>a DEF Listed
\* The clients that stay as they were.
<1>b. ASSUME UNCHANGED <<linked, active>>, EventsLinked(events', Listed),
             \A c \in Client \ linked : /\ toClient'[c] = toClient[c] /\ toServer'[c] = toServer[c]
                                        /\ ~client'[c].grabbed /\ ~client'[c].entered
      PROVE  Linkage'
  <2>1. \A c \in Client \ linked' : Gone(c)'
    BY <1>0, <1>b DEF Gone
  <2> QED
    BY <1>0, <1>a, <1>b, <2>1, LinkageIs
<1>1. ASSUME NEW s \in Screen, NEW v \in Value, Copy(s, v) PROVE Linkage'
  <2>1. EventsLinked(events', Listed)
    <3>1. CASE events' = events
      BY <1>0, <3>1
    <3>2. CASE s = Primary /\ events' = Append(events, Event("grabbed", Primary, primarySeq))
      <4>1. Event("grabbed", Primary, primarySeq) \in EventSet
        BY MessagesAre
      <4>2. Grown(events, events', Event("grabbed", Primary, primarySeq))
        BY <3>2, <4>1, AppendGrows
      <4>3. /\ Event("grabbed", Primary, primarySeq).from \in Listed
            /\ Event("grabbed", Primary, primarySeq).type = "grabbed"
        BY DEF Event, Listed
      <4> QED
        BY <1>0, <4>2, <4>3, EventsStayLinked
    <3> QED
      BY <1>1, <3>1, <3>2, CopyDoes
  <2>2. \A c \in Client \ linked : ~client'[c].grabbed /\ ~client'[c].entered
    BY <1>0, <1>1, CopyDoes DEF Gone, SamePlace
  <2> QED
    BY <1>b, <1>1, <2>1, <2>2, CopyDoes
<1>2. ASSUME NEW s \in Screen, NEW v \in Value, UserCopies(s, v) \/ ProgramCopies(s, v)
      PROVE  Linkage'
  BY <1>1, <1>2 DEF UserCopies, ProgramCopies
<1>3. ASSUME NEW c \in Client, ClientGrabbed(c) PROVE Linkage'
  <2>1. c \in linked
    BY <1>0, <1>3, ClientGrabbedDoes DEF Gone
  <2> QED
    BY <1>0, <1>b, <1>3, <2>1, ClientGrabbedDoes DEF OthersStay, Gone
<1>4. ASSUME NEW c \in Client, toClient[c] # <<>> PROVE c \in linked
  BY <1>0, <1>4 DEF Gone
<1>5. ASSUME NEW c \in Client, ClientEnters(c) PROVE Linkage'
  <2>1. c \in linked
    BY <1>4, <1>5, ClientEntersDoes DEF Reads
  <2> QED
    BY <1>0, <1>b, <1>5, <2>1, ClientEntersDoes DEF OthersStay, Gone, Reads
<1>6. ASSUME NEW c \in Client, ClientLeaves(c) PROVE Linkage'
  <2>1. c \in linked
    BY <1>4, <1>6, ClientLeavesDoes DEF Reads
  <2> QED
    BY <1>0, <1>b, <1>6, <2>1, ClientLeavesDoes DEF OthersStay, Gone, Reads
<1>7. ASSUME NEW c \in Client, ClientLosesClipboard(c) PROVE Linkage'
  <2>1. c \in linked
    BY <1>4, <1>7, ClientLosesDoes DEF Reads
  <2> QED
    BY <1>0, <1>b, <1>7, <2>1, ClientLosesDoes DEF OthersStay, Gone, Reads
<1>8. ASSUME NEW c \in Client, ServerReceives(c) PROVE Linkage'
  <2> DEFINE e == Posted(c, Head(toServer[c]))
  <2>1. c \in linked
    BY <1>0, <1>8, ServerReceivesDoes DEF Gone
  <2>2. e.from = c /\ e.type # "orphan"
    BY DEF Posted, Event
  <2>3. Grown(events, events', e)
    BY <1>8, ServerReceivesDoes
  <2> HIDE DEF e
  <2>4. EventsLinked(events', Listed)
    BY <1>0, <2>1, <2>2, <2>3, EventsStayLinked DEF Listed
  <2>5. /\ UNCHANGED <<linked, active, toClient, client>>
        /\ \A d \in Client \ {c} : toServer'[d] = toServer[d]
    BY <1>8, ServerReceivesDoes
  <2> QED
    BY <1>0, <1>b, <2>1, <2>4, <2>5 DEF Gone
<1>9. ASSUME NEW e, Handles(e) PROVE EventsLinked(events', Listed)
  BY <1>0, <1>9, EventsStayLinked DEF Handles
<1>10. ASSUME ClipboardGrabbed PROVE Linkage'
  BY <1>0, <1>b, <1>9, <1>10, ClipboardGrabbedDoes DEF Gone
<1>11. ASSUME ClipboardChanged PROVE Linkage'
  <2>1. EventsLinked(events', Listed)
    BY <1>9, <1>11, ClipboardChangedDoes
  <2>2. UNCHANGED <<linked, active, toServer, client>>
    BY <1>11, ClipboardChangedDoes
  <2>3. toClient' = toClient \/ Given(active, held[Head(events).from])
    BY <1>11, ClipboardChangedDoes
  <2>4. \A c \in Client \ linked : toClient'[c] = toClient[c]
    BY <1>0, <2>3 DEF Given, Listed
  <2> QED
    BY <1>0, <1>b, <2>1, <2>2, <2>4 DEF Gone
<1>12. ASSUME Dropped PROVE Linkage'
  BY <1>0, <1>b, <1>9, <1>12, DroppedDoes DEF Gone
<1>13. ASSUME NEW dst \in Screen, SwitchScreen(dst) PROVE Linkage'
  <2>1. /\ UNCHANGED <<linked, events, toServer, client>> /\ active' = dst /\ dst \in Listed
        /\ \A c \in Client \ {active, dst} : toClient'[c] = toClient[c]
    BY <1>13, SwitchScreenDoes
  <2>2. \A c \in Client \ linked : c # active /\ c # dst
    BY <1>0, <2>1, ClipboardAssumption DEF Listed
  <2>3. \A c \in Client \ linked' : Gone(c)'
    BY <1>0, <2>1, <2>2 DEF Gone
  <2> QED
    BY <1>0, <1>a, <2>1, <2>3, LinkageIs
<1>14. ASSUME NEW c \in Client, Connect(c) PROVE Linkage'
  <2>1. /\ UNCHANGED <<active, events, toClient, toServer>> /\ linked' = linked \cup {c}
        /\ OthersStay(c)
    BY <1>14, ConnectDoes
  <2>2. Listed \subseteq Listed'
    BY <2>1 DEF Listed
  <2>3. EventsLinked(events', Listed') /\ active' \in Listed'
    BY <1>0, <2>1, <2>2 DEF EventsLinked
  <2>4. \A d \in Client \ linked' : Gone(d)'
    BY <1>0, <2>1 DEF Gone, OthersStay
  <2> QED
    BY <2>3, <2>4, LinkageIs
<1>15. ASSUME NEW c \in Client, Disconnect(c) PROVE Linkage'
  <2>1. /\ linked' = linked \ {c} /\ toClient'[c] = <<>> /\ toServer'[c] = <<>>
        /\ \A d \in Client \ {c} : toServer'[d] = toServer[d] /\ toClient'[d] = toClient[d]
        /\ Masked(events, events', c) /\ OthersStay(c)
        /\ ~client'[c].entered /\ ~client'[c].grabbed
        /\ active' = Primary \/ (active # c /\ active' = active)
    BY <1>15, DisconnectDoes
  <2>2. active' \in Listed' /\ Primary \in Listed'
    BY <1>0, <2>1 DEF Listed
  <2>3. \A d \in Client \ linked' : Gone(d)'
    BY <1>0, <2>1 DEF Gone, OthersStay
  <2>4. Orphan.from = Primary /\ Orphan.type = "orphan"
    BY DEF Orphan, Event
  <2>5. EventsLinked(events', Listed')
    <3>1. ASSUME NEW i \in DOMAIN events'
          PROVE  /\ events'[i].from \in Listed'
                 /\ events'[i].type = "changed" => events'[i].from \in Client
                 /\ events'[i].type = "orphan" => events'[i] = Orphan
      <4>1. i \in DOMAIN events /\ events'[i] = IF events[i].from = c THEN Orphan ELSE events[i]
        BY <2>1, <3>1 DEF Masked
      <4>2. CASE events[i].from = c
        BY <2>2, <2>4, <4>1, <4>2
      <4>3. CASE events[i].from # c
        <5>1. events'[i] = events[i]
          BY <4>1, <4>3
        <5>2. events[i].from \in Listed'
          BY <1>0, <2>1, <4>1, <4>3 DEF EventsLinked, Listed
        <5> QED
          BY <1>0, <4>1, <5>1, <5>2 DEF EventsLinked
      <4> QED
        BY <4>2, <4>3
    <3> QED
      BY <3>1 DEF EventsLinked
  <2> QED
    BY <2>2, <2>3, <2>5, LinkageIs
<1> QED
  BY <1>2, <1>3, <1>5, <1>6, <1>7, <1>8, <1>10, <1>11, <1>12, <1>13, <1>14, <1>15 DEF Next

-----------------------------------------------------------------------------
(***************************************************************************)
(* What a channel brings.                                                  *)
(***************************************************************************)
Brought(m) == m.type \in {"grab", "data"}

LEMMA NothingBrings ==
    ASSUME NEW now, NEW v
    PROVE  Contents(<<>>) = {} /\ (Brings(<<>>, now, v) <=> now = v)
<1>1. DOMAIN <<>> = {}
  BY NothingIn
<1>2. Contents(<<>>) = {}
  BY <1>1 DEF Contents
<1> QED
  BY <1>2 DEF Brings

\* What is appended is brought, if it is contents.
LEMMA GrownBrings ==
    ASSUME NEW q, NEW p, NEW m, NEW now, NEW v, Grown(q, p, m)
    PROVE  /\ Brought(m) => Contents(p) # {} /\ Brings(p, now, ContentOf(m))
           /\ ~Brought(m) => /\ Contents(p) = Contents(q)
                             /\ Brings(q, now, v) => Brings(p, now, v)
<1>1. CASE Brought(m)
  <2>1. Len(q) + 1 \in Contents(p)
    BY <1>1 DEF Grown, Contents, Brought
  <2>2. \A i \in Contents(p) : (\A j \in Contents(p) : j =< i) => i = Len(q) + 1
    BY <2>1 DEF Contents, Grown
  <2>3. ContentOf(p[Len(q) + 1]) = ContentOf(m)
    BY DEF Grown
  <2>4. Contents(p) # {}
    BY <2>1
  <2>5. ASSUME NEW i \in Contents(p), \A j \in Contents(p) : j =< i PROVE ContentOf(p[i]) = ContentOf(m)
    BY <2>2, <2>3, <2>5
  <2> QED
    BY <1>1, <2>4, <2>5 DEF Brings
<1>2. CASE ~Brought(m)
  <2>1. Contents(p) = Contents(q)
    BY <1>2 DEF Grown, Contents, Brought
  <2>2. \A i \in Contents(p) : p[i] = q[i]
    BY <2>1 DEF Contents, Grown
  <2>3. ASSUME Brings(q, now, v) PROVE Brings(p, now, v)
    BY <2>1, <2>2, <2>3 DEF Brings
  <2> QED
    BY <1>2, <2>1, <2>3
<1> QED
  BY <1>1, <1>2

\* What is read becomes the clipboard, if it is contents.
LEMMA ShrunkBrings ==
    ASSUME NEW q, NEW p, NEW m, NEW now, NEW v, Shrunk(q, p, m)
    PROVE  /\ Contents(p) # {} => Contents(q) # {}
           /\ Brought(m) => /\ Contents(q) # {}
                            /\ Brings(q, now, v) => Brings(p, ContentOf(m), v)
           /\ ~Brought(m) => /\ Contents(q) # {} => Contents(p) # {}
                             /\ Brings(q, now, v) => Brings(p, now, v)
<1>1. \A i \in Contents(p) : i + 1 \in Contents(q) /\ p[i] = q[i + 1] /\ i \in Nat
  BY DEF Shrunk, Contents
<1>2. \A j \in Contents(q) : \/ j = 1 /\ Brought(m)
                             \/ j > 1 /\ j - 1 \in Contents(p)
  <2>0. 1 \in Contents(q) => Brought(m)
    BY DEF Contents, Shrunk, Brought
  <2> SUFFICES ASSUME NEW j \in Contents(q) PROVE j = 1 \/ (j > 1 /\ j - 1 \in Contents(p))
    BY <2>0
  <2> SUFFICES ASSUME j # 1 PROVE j > 1 /\ j - 1 \in Contents(p)
    OBVIOUS
  <2>1. j \in 1..Len(q) /\ j > 1 /\ Len(q) \in Nat
    BY DEF Contents, Shrunk
  <2>2. j - 1 \in DOMAIN p /\ (j - 1) + 1 = j
    BY <2>1 DEF Shrunk
  <2>3. p[j - 1] = q[j]
    BY <2>2 DEF Shrunk
  <2> QED
    BY <2>1, <2>2, <2>3 DEF Contents
<1>3. Brought(m) => 1 \in Contents(q)
  BY DEF Contents, Shrunk, Brought
<1>4. ASSUME Contents(p) # {}, Brings(q, now, v), NEW w PROVE Brings(p, w, v)
  <2>1. Contents(q) # {}
    BY <1>1, <1>4
  <2>2. ASSUME NEW i \in Contents(p), \A j \in Contents(p) : j =< i PROVE ContentOf(p[i]) = v
    <3>1. \A j \in Contents(q) : j =< i + 1
      <4> SUFFICES ASSUME NEW j \in Contents(q) PROVE j =< i + 1
        OBVIOUS
      <4>1. j \in Nat /\ i \in Nat /\ i >= 1
        BY <1>1, <1>2, <2>2 DEF Contents, Shrunk
      <4> QED
        BY <1>2, <2>2, <4>1
    <3> QED
      BY <1>1, <1>4, <2>1, <2>2, <3>1 DEF Brings
  <2> QED
    BY <1>4, <2>2 DEF Brings
<1>5. Contents(p) # {} => Contents(q) # {}
  BY <1>1
<1>6. CASE Brought(m)
  <2>1. ASSUME Contents(p) = {}, Brings(q, now, v) PROVE Brings(p, ContentOf(m), v)
    <3>1. \A j \in Contents(q) : j =< 1
      BY <1>2, <2>1
    <3>2. ContentOf(m) = v
      BY <1>3, <1>6, <2>1, <3>1 DEF Brings, Shrunk
    <3> QED
      BY <2>1, <3>2 DEF Brings
  <2> QED
    BY <1>3, <1>4, <1>5, <1>6, <2>1
<1>7. CASE ~Brought(m)
  <2>1. Contents(q) # {} => Contents(p) # {}
    BY <1>2, <1>7
  <2>2. ASSUME Contents(p) = {}, Brings(q, now, v) PROVE Brings(p, now, v)
    BY <2>1, <2>2 DEF Brings
  <2> QED
    BY <1>4, <1>5, <1>7, <2>1, <2>2
<1> QED
  BY <1>6, <1>7

\* What is on its way counts, whatever the clipboard is now.
LEMMA NowIsNot ==
    ASSUME NEW q, NEW now, NEW then, NEW v, Contents(q) # {}, Brings(q, now, v)
    PROVE  Brings(q, then, v)
BY DEF Brings

LEMMA KindsAre ==
    /\ Brought(Grab(0)) /\ ContentOf(Grab(0)) = Nothing
    /\ \A v : Brought(Data(0, v)) /\ ContentOf(Data(0, v)) = v
    /\ ~Brought(Leave) /\ \A n : ~Brought(Enter(n))
    /\ Leave.type = "leave" /\ \A n : Enter(n).type = "enter" /\ Enter(n).seq = n
BY DEF Brought, Grab, Data, Leave, Enter, ContentOf

\* What the server puts into m_clipboard of a proxy is on its way to the client.
LEMMA HeldOrTold ==
    ASSUME TypeOK, Linkage, NEW c \in Client,
           ClipboardChanged \/ \E dst \in Screen : SwitchScreen(dst)
    PROVE  held'[c] = held[c] \/ Contents(toClient'[c]) # {}
<1>1. CASE ClipboardChanged
  <2>1. held' = held \/ \E v : Given(active, v)
    BY <1>1, ClipboardChangedDoes
  <2>2. ASSUME NEW v, Given(active, v), held'[c] # held[c] PROVE Contents(toClient'[c]) # {}
    <3>1. active = c
      BY <2>2, TypesAre DEF Given, Types, Screen
    <3>2. Grown(toClient[c], toClient'[c], Data(0, v))
      BY <2>2, <3>1 DEF Given
    <3> QED
      BY <3>2, GrownBrings, KindsAre
  <2> QED
    BY <2>1, <2>2
<1>2. ASSUME NEW dst \in Screen, SwitchScreen(dst), held'[c] # held[c]
      PROVE  Contents(toClient'[c]) # {}
  <2>1. Entered(dst, NewData)
    BY <1>2, SwitchScreenDoes
  <2>2. dst = c /\ NewDirty[dst]
    BY <1>2, <2>1 DEF Entered, Screen
  <2>3. PICK q : Grown(q, toClient'[c], Data(0, NewData))
    BY <2>1, <2>2 DEF Entered
  <2> QED
    BY <2>3, GrownBrings, KindsAre
<1> QED
  BY <1>1, <1>2

-----------------------------------------------------------------------------
(***************************************************************************)
(* Screens that are not dirty are up to date.  So is the active client: it *)
(* is given what is new at once, and was given the rest when it was        *)
(* entered.                                                                *)
(***************************************************************************)
Clean(s) == ~dirty[s] \/ (s = active /\ s # Primary)
UpToDate ==
    \A s \in Listed \ {clipboard.owner} :
        Clean(s) /\ UntouchedBySomeone(s) => Brings(OnTheWay(s), local[s], clipboard.data)

\* A screen whose clipboard, channel and flag stay as they were.
Kept(s) == /\ local'[s] = local[s] /\ ours'[s] = ours[s]
           /\ OnTheWay(s)' = OnTheWay(s)

LEMMA WhatIsOnTheWay ==
    ASSUME NEW s
    PROVE  /\ s = Primary => OnTheWay(s) = <<>> /\ OnTheWay(s)' = <<>>
           /\ s \in Client => OnTheWay(s) = toClient[s] /\ OnTheWay(s)' = toClient'[s]
BY ClipboardAssumption DEF OnTheWay

LEMMA KeptIsUpToDate ==
    ASSUME UpToDate, NEW s \in Listed, s # clipboard.owner, Kept(s), Clean(s), UntouchedBySomeone(s)',
           clipboard'.data = clipboard.data
    PROVE  Brings(OnTheWay(s)', local'[s], clipboard'.data)
BY DEF UpToDate, Kept, UntouchedBySomeone

LEMMA UpToDateStep ==
    ASSUME TypeOK, Linkage, UpToDate, Next
    PROVE  UpToDate'
<1> USE TypesAre DEF Types
<1> DEFINE Fine(s) == Brings(OnTheWay(s)', local'[s], clipboard'.data)
           Asked(s) == s \in Listed' /\ s # clipboard'.owner /\ Clean(s)' /\ UntouchedBySomeone(s)'
<1>0. (\A s : Asked(s) => Fine(s)) => UpToDate'
  BY DEF UpToDate
<1>l. ASSUME linked' = linked PROVE Listed' = Listed
  BY <1>l DEF Listed
\* Steps that change no flag and nothing of the server.
<1> DEFINE ServerStays == UNCHANGED <<clipboard, dirty, active, linked>>
<1>s. ASSUME ServerStays, NEW s, Asked(s)
      PROVE  s \in Listed /\ s # clipboard.owner /\ Clean(s) /\ clipboard'.data = clipboard.data
  BY <1>l, <1>s DEF Clean
<1>k. ASSUME ServerStays, NEW s, Asked(s), Kept(s) PROVE Fine(s)
  BY <1>s, <1>k, KeptIsUpToDate
<1>1. ASSUME NEW t \in Screen, NEW v \in Value, Copy(t, v) PROVE UpToDate'
  <2>1. /\ ServerStays /\ toClient' = toClient
        /\ local' = [local EXCEPT ![t] = v] /\ ours' = [ours EXCEPT ![t] = FALSE]
    BY <1>1, CopyDoes
  <2>2. ASSUME NEW s, Asked(s) PROVE Fine(s)
    <3>1. s \in Screen /\ OnTheWay(s)' = OnTheWay(s)
      BY <2>1, <2>2, <1>s DEF Listed, Screen, OnTheWay
    <3>2. CASE s # t
      <4>1. Kept(s)
        BY <2>1, <3>1, <3>2 DEF Kept
      <4> QED
        BY <1>k, <2>1, <2>2, <4>1
    <3>3. CASE s = t
      <4>1. Contents(OnTheWay(s)) # {}
        BY <2>1, <2>2, <3>1, <3>3 DEF UntouchedBySomeone
      <4>2. Brings(OnTheWay(s), local[s], clipboard.data)
        BY <1>s, <2>1, <2>2, <4>1 DEF UpToDate, UntouchedBySomeone
      <4> QED
        BY <1>s, <2>1, <2>2, <3>1, <4>1, <4>2, NowIsNot
    <3> QED
      BY <3>2, <3>3
  <2> QED
    BY <1>0, <2>2
<1>2. ASSUME NEW s \in Screen, NEW v \in Value, UserCopies(s, v) \/ ProgramCopies(s, v)
      PROVE  UpToDate'
  BY <1>1, <1>2 DEF UserCopies, ProgramCopies
\* Steps that leave all screens and their channels.
<1>3. ASSUME ServerStays, UNCHANGED <<toClient, local, ours>> PROVE UpToDate'
  <2>1. \A s : Kept(s)
    BY <1>3 DEF Kept, OnTheWay
  <2> QED
    BY <1>0, <1>k, <1>3, <2>1
<1>4. ASSUME NEW c \in Client, ClientGrabbed(c) PROVE UpToDate'
  BY <1>3, <1>4, ClientGrabbedDoes
<1>5. ASSUME NEW c \in Client, ServerReceives(c) PROVE UpToDate'
  BY <1>3, <1>5, ServerReceivesDoes
<1>6. ASSUME Dropped PROVE UpToDate'
  BY <1>3, <1>6, DroppedDoes
\* A client reads a message.
<1>7. ASSUME NEW c \in Client, Reads(c), ServerStays,
             ~Brought(Head(toClient[c])) => UNCHANGED <<local, ours>>,
             Brought(Head(toClient[c])) =>
                 /\ local' = [local EXCEPT ![c] = ContentOf(Head(toClient[c]))]
                 /\ ours' = [ours EXCEPT ![c] = TRUE]
      PROVE  UpToDate'
  <2> DEFINE m == Head(toClient[c])
             q == toClient[c]
             p == toClient'[c]
  <2>1. ASSUME NEW s, Asked(s) PROVE Fine(s)
    <3>0. s \in Screen /\ (s = Primary \/ s \in Client) /\ s \in Listed /\ s # clipboard.owner /\ Clean(s)
          /\ clipboard'.data = clipboard.data
      BY <1>s, <1>7, <2>1 DEF Listed, Screen
    <3>1. CASE s # c
      <4>1. local'[s] = local[s] /\ ours'[s] = ours[s]
        BY <1>7, <3>0, <3>1
      <4>2. OnTheWay(s)' = OnTheWay(s)
        BY <1>7, <3>0, <3>1, WhatIsOnTheWay DEF Reads
      <4>3. Kept(s)
        BY <4>1, <4>2 DEF Kept
      <4> QED
        BY <1>k, <1>7, <2>1, <4>3
    <3>2. CASE s = c
      <4>1. Shrunk(q, p, m) /\ OnTheWay(c) = q /\ OnTheWay(c)' = p
        BY <1>7, WhatIsOnTheWay DEF Reads
      <4> HIDE DEF m, q, p
      <4>2. CASE Brought(m)
        <5>1. Contents(q) # {}
          BY <4>1, <4>2, ShrunkBrings
        <5>2. Brings(q, local[c], clipboard.data)
          BY <3>0, <3>2, <4>1, <5>1 DEF UpToDate, UntouchedBySomeone
        <5>3. Brings(p, ContentOf(m), clipboard.data)
          BY <4>1, <4>2, <5>2, ShrunkBrings
        <5>4. local'[c] = ContentOf(m)
          BY <1>7, <3>0, <3>2, <4>2 DEF m
        <5> QED
          BY <3>0, <3>2, <4>1, <5>3, <5>4
      <4>3. CASE ~Brought(m)
        <5>1. UNCHANGED <<local, ours>>
          BY <1>7, <4>3 DEF m
        <5>2. UntouchedBySomeone(c)
          BY <2>1, <3>2, <4>1, <4>3, <5>1, ShrunkBrings DEF UntouchedBySomeone
        <5>3. Brings(q, local[c], clipboard.data)
          BY <3>0, <3>2, <4>1, <5>2 DEF UpToDate
        <5>4. Brings(p, local[c], clipboard.data)
          BY <4>1, <4>3, <5>3, ShrunkBrings
        <5> QED
          BY <3>0, <3>2, <4>1, <5>1, <5>4
      <4> QED
        BY <4>2, <4>3
    <3> QED
      BY <3>1, <3>2
  <2> QED
    BY <1>0, <2>1
<1>8. ASSUME NEW c \in Client, ClientEnters(c) \/ ClientLeaves(c) PROVE UpToDate'
  <2>1. Reads(c) /\ ServerStays /\ UNCHANGED <<local, ours>> /\ ~Brought(Head(toClient[c]))
    BY <1>8, ClientEntersDoes, ClientLeavesDoes DEF Brought
  <2> QED
    BY <1>7, <2>1
<1>9. ASSUME NEW c \in Client, ClientLosesClipboard(c) PROVE UpToDate'
  <2>1. Reads(c) /\ ServerStays /\ Brought(Head(toClient[c]))
        /\ local' = [local EXCEPT ![c] = ContentOf(Head(toClient[c]))]
        /\ ours' = [ours EXCEPT ![c] = TRUE]
    BY <1>9, ClientLosesDoes DEF Brought
  <2> QED
    BY <1>7, <2>1
<1>10. ASSUME ClipboardGrabbed PROVE UpToDate'
  <2> DEFINE e == Head(events)
  <2>1. CASE ~AcceptsGrab(e)
    <3>1. ServerStays /\ UNCHANGED <<toClient, local, ours>>
      BY <1>10, <2>1, ClipboardGrabbedDoes
    <3> QED
      BY <1>3, <3>1
  <2>2. CASE AcceptsGrab(e)
    <3>1. /\ clipboard' = [owner |-> e.from, seq |-> e.seq, data |-> Nothing] /\ linked' = linked
          /\ \A c \in linked \ {e.from} : Grown(toClient[c], toClient'[c], Grab(0))
          /\ e.from # Primary => local'[Primary] = Nothing
      BY <1>10, <2>2, ClipboardGrabbedDoes
    <3> HIDE DEF e
    <3>2. ASSUME NEW s, Asked(s) PROVE Fine(s)
      <4>1. s \in Listed /\ s # e.from /\ clipboard'.data = Nothing
        BY <1>l, <3>1, <3>2
      <4>2. CASE s = Primary
        BY <3>1, <4>1, <4>2, WhatIsOnTheWay, NothingBrings
      <4>3. CASE s \in linked
        <5>1. Grown(toClient[s], toClient'[s], Grab(0)) /\ OnTheWay(s)' = toClient'[s]
          BY <3>1, <4>1, <4>3, WhatIsOnTheWay
        <5> QED
          BY <4>1, <5>1, GrownBrings, KindsAre
      <4> QED
        BY <4>1, <4>2, <4>3 DEF Listed
    <3> QED
      BY <1>0, <3>2
  <2> QED
    BY <2>1, <2>2
\* The screen t is given v, which is what the server has now.
<1>11. ASSUME NEW t \in Listed, NEW v, Given(t, v), clipboard'.data = v, NEW s, s = t
       PROVE  Fine(s)
  <2>1. CASE t = Primary
    <3>1. local'[Primary] = v
      BY <1>11, <2>1 DEF Given, Screen
    <3> QED
      BY <1>11, <2>1, <3>1, WhatIsOnTheWay, NothingBrings
  <2>2. CASE t \in Client
    <3>1. Grown(toClient[t], toClient'[t], Data(0, v)) /\ OnTheWay(t)' = toClient'[t]
      BY <1>11, <2>2, WhatIsOnTheWay DEF Given
    <3> QED
      BY <1>11, <3>1, GrownBrings, KindsAre
  <2> QED
    BY <2>1, <2>2 DEF Listed
<1>12. ASSUME ClipboardChanged PROVE UpToDate'
  <2> DEFINE e == Head(events)
             new == held[e.from]
  <2>1. CASE UNCHANGED <<clipboard, dirty, toClient, local, ours>>
    <3>1. ServerStays
      BY <1>12, <2>1, ClipboardChangedDoes
    <3> QED
      BY <1>3, <2>1, <3>1
  <2>2. CASE /\ clipboard' = [clipboard EXCEPT !.data = new] /\ clipboard.owner = e.from
             /\ \/ /\ active # clipboard.owner /\ Given(active, new)
                   /\ dirty' = [DirtyExcept(e.from) EXCEPT ![active] = FALSE]
                \/ /\ active = clipboard.owner /\ dirty' = DirtyExcept(e.from)
                   /\ UNCHANGED <<toClient, local, ours>>
    <3>1. UNCHANGED <<linked, active>>
      BY <1>12, ClipboardChangedDoes
    <3>2. clipboard'.data = new /\ clipboard'.owner = clipboard.owner
      BY <2>2
    <3>3. ASSUME NEW s, Asked(s) PROVE s = active
      <4>1. s \in Listed /\ s # clipboard.owner /\ Clean(s)' /\ s \in Screen
        BY <1>l, <3>1, <3>2, <3>3 DEF Listed, Screen
      <4>2. ASSUME s # active PROVE FALSE
        <5>1. dirty'[s] = DirtyExcept(e.from)[s]
          BY <2>2, <4>1, <4>2, DirtyType
        <5>2. DirtyExcept(e.from)[s]
          BY <2>2, <4>1 DEF DirtyExcept
        <5> QED
          BY <3>1, <4>1, <4>2, <5>1, <5>2 DEF Clean
      <4> QED
        BY <4>2
    <3>4. ASSUME NEW s, Asked(s) PROVE Fine(s)
      <4>1. s = active /\ s \in Listed /\ s # clipboard.owner
        BY <1>l, <3>1, <3>2, <3>3, <3>4
      <4>2. Given(active, new)
        BY <2>2, <4>1
      <4> QED
        BY <1>11, <3>2, <4>1, <4>2
    <3> QED
      BY <1>0, <3>4
  <2> QED
    BY <1>12, <2>1, <2>2, ClipboardChangedDoes
<1>13. ASSUME NEW dst \in Screen, SwitchScreen(dst) PROVE UpToDate'
  <2>1. /\ linked' = linked /\ dst \in Listed /\ dst # active /\ active' = dst
        /\ clipboard' = [clipboard EXCEPT !.data = NewData]
        /\ NewDirty \in [Screen -> BOOLEAN] /\ dirty' = [NewDirty EXCEPT ![dst] = FALSE]
        /\ \A c \in Client \ {active, dst} : toClient'[c] = toClient[c]
        /\ active \in Client => Grown(toClient[active], toClient'[active], Leave)
        /\ Entered(dst, NewData)
    BY <1>13, SwitchScreenDoes
  <2>2. clipboard'.data = NewData /\ clipboard'.owner = clipboard.owner
    BY <2>1
  <2>3. /\ dst = Primary /\ NewDirty[dst] => local'[Primary] = NewData
        /\ dst = Primary /\ ~NewDirty[dst] => local' = local /\ ours' = ours
        /\ dst \in Client => local' = local /\ ours' = ours
        /\ \A c \in Client : local'[c] = local[c] /\ ours'[c] = ours[c]
    <3>1. \A c \in Client : c # Primary /\ c \in Screen
      BY ClipboardAssumption DEF Screen
    <3>2. CASE dst = Primary
      <4>1. CASE NewDirty[dst]
        BY <2>1, <3>1, <3>2, <4>1 DEF Entered, Screen
      <4>2. CASE ~NewDirty[dst]
        BY <2>1, <3>1, <3>2, <4>2 DEF Entered
      <4> QED
        BY <4>1, <4>2
    <3>3. CASE dst \in Client
      BY <2>1, <3>1, <3>3 DEF Entered
    <3> QED
      BY <2>1, <3>2, <3>3 DEF Listed
  <2>4. ASSUME NEW s, Asked(s) PROVE Fine(s)
    <3>0. s \in Listed /\ s # clipboard.owner /\ Clean(s)' /\ s \in Screen
      BY <1>l, <2>1, <2>2, <2>4 DEF Listed, Screen
    <3>1. CASE s = dst /\ NewDirty[dst]
      <4>1. CASE dst = Primary
        BY <2>2, <2>3, <3>1, <4>1, WhatIsOnTheWay, NothingBrings
      <4>2. CASE dst \in Client
        <5>1. PICK q : Grown(q, toClient'[dst], Data(0, NewData))
          BY <2>1, <3>1, <4>2 DEF Entered
        <5> QED
          BY <2>2, <3>1, <4>2, <5>1, WhatIsOnTheWay, GrownBrings, KindsAre
      <4> QED
        BY <2>1, <4>1, <4>2 DEF Listed
    \* What was clean before the primary was looked at.
    <3>2. CASE s # dst \/ ~NewDirty[dst]
      <4>1. ~PrimaryUpdates /\ Clean(s)
        <5>1. CASE s = dst
          <6>1. ~NewDirty[s]
            BY <3>2, <5>1
          <6>2. ~PrimaryUpdates
            BY <3>0, <6>1 DEF NewDirty, PrimaryUpdates, DirtyExcept
          <6> QED
            BY <6>1, <6>2 DEF NewDirty, Clean
        <5>2. CASE s # dst
          <6>1. ~dirty'[s]
            BY <2>1, <3>0, <5>2 DEF Clean
          <6>2. ~NewDirty[s]
            BY <2>1, <3>0, <5>2, <6>1
          <6>3. ~PrimaryUpdates
            BY <3>0, <6>2 DEF NewDirty, PrimaryUpdates, DirtyExcept
          <6> QED
            BY <6>2, <6>3 DEF NewDirty, Clean
        <5> QED
          BY <5>1, <5>2
      <4>2. clipboard'.data = clipboard.data
        BY <2>2, <4>1 DEF NewData
      <4>3. CASE s = Primary
        <5>1. local'[s] = local[s] /\ ours'[s] = ours[s]
          BY <2>1, <2>3, <3>2, <4>3 DEF Listed
        <5>2. Kept(s)
          BY <4>3, <5>1, WhatIsOnTheWay DEF Kept
        <5> QED
          BY <2>4, <3>0, <4>1, <4>2, <5>2, KeptIsUpToDate
      <4>4. CASE s \in Client
        <5>1. local'[s] = local[s] /\ ours'[s] = ours[s]
              /\ OnTheWay(s) = toClient[s] /\ OnTheWay(s)' = toClient'[s]
          BY <2>3, <4>4, WhatIsOnTheWay
        <5>2. \/ toClient'[s] = toClient[s]
              \/ \E m : ~Brought(m) /\ Grown(toClient[s], toClient'[s], m)
          BY <2>1, <3>2, <4>4, KindsAre DEF Entered
        <5>3. UntouchedBySomeone(s)
          BY <2>4, <5>1, <5>2, GrownBrings DEF UntouchedBySomeone
        <5>4. Brings(toClient[s], local[s], clipboard.data)
          BY <3>0, <4>1, <5>1, <5>3 DEF UpToDate
        <5>5. Brings(toClient'[s], local[s], clipboard.data)
          BY <5>2, <5>4, GrownBrings
        <5> QED
          BY <4>2, <5>1, <5>5
      <4> QED
        BY <3>0, <4>3, <4>4 DEF Listed
    <3> QED
      BY <3>1, <3>2
  <2> QED
    BY <1>0, <2>4
<1>14. ASSUME NEW c \in Client, Connect(c) PROVE UpToDate'
  <2>1. /\ UNCHANGED <<clipboard, active, toClient>> /\ c \notin linked /\ linked' = linked \cup {c}
        /\ dirty' = [dirty EXCEPT ![c] = TRUE] /\ local' = [local EXCEPT ![c] = Nothing]
        /\ ours' = [ours EXCEPT ![c] = TRUE]
    BY <1>14, ConnectDoes
  <2>2. active # c /\ c \in Screen
    BY <2>1, ClipboardAssumption DEF Linkage, Listed, Screen
  <2>3. ASSUME NEW s, Asked(s) PROVE Fine(s)
    <3>1. s # c
      BY <2>1, <2>2, <2>3 DEF Clean
    <3>2. s \in Listed /\ s # clipboard.owner /\ Clean(s) /\ s \in Screen
      BY <2>1, <2>3, <3>1 DEF Clean, Listed, Screen
    <3>3. Kept(s)
      BY <2>1, <3>1, <3>2 DEF Kept, OnTheWay
    <3> QED
      BY <2>1, <2>3, <3>2, <3>3, KeptIsUpToDate
  <2> QED
    BY <1>0, <2>3
<1>15. ASSUME NEW c \in Client, Disconnect(c) PROVE UpToDate'
  <2>1. /\ UNCHANGED <<clipboard, dirty, local, ours>> /\ linked' = linked \ {c}
        /\ \A d \in Client \ {c} : toClient'[d] = toClient[d]
        /\ active' = Primary \/ active' = active
    BY <1>15, DisconnectDoes
  <2>2. ASSUME NEW s, Asked(s) PROVE Fine(s)
    <3>1. s \in Listed /\ s # c /\ s # clipboard.owner /\ Clean(s)
      BY <1>15, <2>1, <2>2, ClipboardAssumption DEF Clean, Listed
    <3>2. OnTheWay(s)' = OnTheWay(s)
      <4>1. CASE s = Primary
        BY <4>1, WhatIsOnTheWay
      <4>2. CASE s \in Client
        BY <2>1, <3>1, <4>2, WhatIsOnTheWay
      <4> QED
        BY <3>1, <4>1, <4>2 DEF Listed
    <3>3. Kept(s)
      BY <2>1, <3>2 DEF Kept
    <3> QED
      BY <2>1, <2>2, <3>1, <3>3, KeptIsUpToDate
  <2> QED
    BY <1>0, <2>2
<1> QED
  BY <1>2, <1>4, <1>5, <1>6, <1>8, <1>9, <1>10, <1>12, <1>13, <1>14, <1>15 DEF Next

-----------------------------------------------------------------------------
(***************************************************************************)
(* Enter and leave alternate, and the last of them says whether the client *)
(* is the active screen.                                                   *)
(***************************************************************************)
HasEnter(q, i) == i \in DOMAIN q /\ q[i].type = "enter"
HasLeave(q, i) == i \in DOMAIN q /\ q[i].type = "leave"

\* The client to which q is sent is not the active screen.
Away(q, entered) ==
    /\ entered => \E k \in DOMAIN q : HasLeave(q, k)
    /\ \A i \in DOMAIN q : HasEnter(q, i) => \E k \in DOMAIN q : i < k /\ HasLeave(q, k)

Alternate(q, entered) ==
    /\ \A j \in DOMAIN q :
           entered /\ HasEnter(q, j) => \E k \in DOMAIN q : k < j /\ HasLeave(q, k)
    /\ \A i, j \in DOMAIN q :
           i < j /\ HasEnter(q, i) /\ HasEnter(q, j)
               => \E k \in DOMAIN q : i < k /\ k < j /\ HasLeave(q, k)

LEMMA GrownCrosses ==
    ASSUME NEW q, NEW p, NEW m, NEW e, Grown(q, p, m)
    PROVE  /\ m.type = "leave" => Away(p, e)
           /\ Away(q, e) /\ m.type # "enter" => Away(p, e)
           /\ Alternate(q, e) /\ (m.type # "enter" \/ Away(q, e)) => Alternate(p, e)
<1> DEFINE n == Len(q) + 1
<1>1. /\ n \in DOMAIN p /\ p[n] = m /\ n \in Nat
      /\ \A i \in DOMAIN p : i = n \/ (i \in DOMAIN q /\ p[i] = q[i] /\ i < n /\ i \in Nat)
      /\ \A i \in DOMAIN q : i \in DOMAIN p /\ i < n
  BY DEF Grown
<1> HIDE DEF n
<1>2. m.type = "leave" => HasLeave(p, n) /\ ~HasEnter(p, n)
  BY <1>1 DEF HasLeave, HasEnter
<1>3. \A i \in DOMAIN q : (HasLeave(q, i) <=> HasLeave(p, i)) /\ (HasEnter(q, i) <=> HasEnter(p, i))
  BY <1>1 DEF HasLeave, HasEnter, Grown
<1>4. m.type # "enter" => ~HasEnter(p, n)
  BY <1>1 DEF HasEnter
<1>5. ASSUME m.type = "leave" PROVE Away(p, e)
  <2>1. \A i \in DOMAIN p : HasEnter(p, i) => i < n /\ HasLeave(p, n)
    BY <1>1, <1>2, <1>5
  <2> QED
    BY <1>1, <1>2, <1>5, <2>1 DEF Away
<1>6. ASSUME Away(q, e), m.type # "enter" PROVE Away(p, e)
  BY <1>1, <1>3, <1>4, <1>6 DEF Away
<1>7. ASSUME Alternate(q, e), m.type # "enter" \/ Away(q, e) PROVE Alternate(p, e)
  <2>1. ASSUME NEW j \in DOMAIN p, e, HasEnter(p, j) PROVE \E k \in DOMAIN p : k < j /\ HasLeave(p, k)
    <3>1. CASE j \in DOMAIN q
      BY <1>1, <1>3, <1>7, <2>1, <3>1 DEF Alternate
    <3>2. CASE j = n
      BY <1>1, <1>3, <1>4, <1>7, <2>1, <3>2 DEF Away
    <3> QED
      BY <1>1, <3>1, <3>2
  <2>2. ASSUME NEW i \in DOMAIN p, NEW j \in DOMAIN p, i < j, HasEnter(p, i), HasEnter(p, j)
        PROVE  \E k \in DOMAIN p : i < k /\ k < j /\ HasLeave(p, k)
    <3>1. i \in DOMAIN q
      BY <1>1, <2>2
    <3>2. CASE j \in DOMAIN q
      <4>1. PICK k \in DOMAIN q : i < k /\ k < j /\ HasLeave(q, k)
        BY <1>3, <1>7, <2>2, <3>1, <3>2 DEF Alternate
      <4> QED
        BY <1>1, <1>3, <4>1
    <3>3. CASE j = n
      <4>1. PICK k \in DOMAIN q : i < k /\ HasLeave(q, k)
        BY <1>3, <1>4, <1>7, <2>2, <3>1, <3>3 DEF Away
      <4> QED
        BY <1>1, <1>3, <3>3, <4>1
    <3> QED
      BY <1>1, <3>2, <3>3
  <2> QED
    BY <2>1, <2>2 DEF Alternate
<1> QED
  BY <1>5, <1>6, <1>7

LEMMA ShrunkCrosses ==
    ASSUME NEW q, NEW p, NEW m, NEW e, NEW e2, Shrunk(q, p, m),
           m.type = "enter" => e2, m.type = "leave" => ~e2,
           m.type \notin {"enter", "leave"} => e2 = e
    PROVE  /\ Away(q, e) => Away(p, e2)
           /\ Alternate(q, e) => Alternate(p, e2)
<1>1. /\ 1 \in DOMAIN q /\ q[1] = m
      /\ \A i \in DOMAIN p : i \in Nat /\ i >= 1 /\ i + 1 \in DOMAIN q /\ p[i] = q[i + 1]
      /\ \A i \in DOMAIN q : i \in Nat /\ (i > 1 => i - 1 \in DOMAIN p /\ (i - 1) + 1 = i) /\ i >= 1
  BY DEF Shrunk
<1>2. \A i \in DOMAIN p : /\ HasLeave(p, i) <=> HasLeave(q, i + 1)
                          /\ HasEnter(p, i) <=> HasEnter(q, i + 1)
  BY <1>1 DEF HasLeave, HasEnter
<1>3. /\ HasEnter(q, 1) <=> m.type = "enter"
      /\ HasLeave(q, 1) <=> m.type = "leave"
  BY <1>1 DEF HasLeave, HasEnter
<1>4. \A k \in DOMAIN q : k > 1 /\ HasLeave(q, k) => k - 1 \in DOMAIN p /\ HasLeave(p, k - 1)
  BY <1>1, <1>2
<1>5. ASSUME Away(q, e) PROVE Away(p, e2)
  <2>1. ASSUME e2 PROVE \E k \in DOMAIN p : HasLeave(p, k)
    <3>1. \E k \in DOMAIN q : k > 1 /\ HasLeave(q, k)
      <4>1. CASE m.type = "enter"
        BY <1>1, <1>3, <1>5, <4>1 DEF Away
      <4>2. CASE m.type # "enter"
        <5>1. e /\ ~HasLeave(q, 1)
          BY <1>3, <2>1, <4>2
        <5> QED
          BY <1>1, <1>5, <5>1 DEF Away
      <4> QED
        BY <4>1, <4>2
    <3> QED
      BY <1>4, <3>1
  <2>2. ASSUME NEW i \in DOMAIN p, HasEnter(p, i) PROVE \E k \in DOMAIN p : i < k /\ HasLeave(p, k)
    <3>1. PICK k \in DOMAIN q : i + 1 < k /\ HasLeave(q, k)
      BY <1>1, <1>2, <1>5, <2>2 DEF Away
    <3>2. k \in Nat /\ i \in Nat /\ k > 1 /\ i < k - 1
      BY <1>1, <3>1
    <3> QED
      BY <1>4, <3>1, <3>2
  <2> QED
    BY <2>1, <2>2 DEF Away
<1>6. ASSUME Alternate(q, e) PROVE Alternate(p, e2)
  <2>1. ASSUME NEW j \in DOMAIN p, e2, HasEnter(p, j) PROVE \E k \in DOMAIN p : k < j /\ HasLeave(p, k)
    <3>1. \E k \in DOMAIN q : 1 < k /\ k < j + 1 /\ HasLeave(q, k)
      <4>1. CASE m.type = "enter"
        BY <1>1, <1>2, <1>3, <1>6, <2>1, <4>1 DEF Alternate
      <4>2. CASE m.type # "enter"
        <5>1. e /\ ~HasLeave(q, 1)
          BY <1>3, <2>1, <4>2
        <5>2. PICK k \in DOMAIN q : k < j + 1 /\ HasLeave(q, k)
          BY <1>1, <1>2, <1>6, <2>1, <5>1 DEF Alternate
        <5>3. k # 1 /\ k \in Nat /\ k >= 1
          BY <1>1, <5>1, <5>2
        <5> QED
          BY <5>2, <5>3
      <4> QED
        BY <4>1, <4>2
    <3>2. PICK k \in DOMAIN q : 1 < k /\ k < j + 1 /\ HasLeave(q, k)
      BY <3>1
    <3>3. k - 1 < j
      BY <1>1, <3>2
    <3> QED
      BY <1>4, <3>2, <3>3
  <2>2. ASSUME NEW i \in DOMAIN p, NEW j \in DOMAIN p, i < j, HasEnter(p, i), HasEnter(p, j)
        PROVE  \E k \in DOMAIN p : i < k /\ k < j /\ HasLeave(p, k)
    <3>1. i \in Nat /\ j \in Nat /\ i >= 1 /\ i + 1 < j + 1
      BY <1>1, <2>2
    <3>2. PICK k \in DOMAIN q : i + 1 < k /\ k < j + 1 /\ HasLeave(q, k)
      BY <1>1, <1>2, <1>6, <2>2, <3>1 DEF Alternate
    <3>3. k \in Nat /\ k > 1 /\ i < k - 1 /\ k - 1 < j
      BY <1>1, <3>1, <3>2
    <3> QED
      BY <1>4, <3>2, <3>3
  <2> QED
    BY <2>1, <2>2 DEF Alternate
<1> QED
  BY <1>5, <1>6

\* A client that connects for the first time is told that it is entered and left
\* as often as it believes that it is active.
Fresh(c) ==
    /\ client[c].entered => client[c].active
    /\ connections[c] = 0 => c \notin linked /\ ~client[c].active /\ ~client[c].own
    /\ connections[c] = 1 /\ c \in linked =>
           /\ client[c].active = client[c].entered
           /\ client[c].own /\ ~client[c].sent => client[c].active

Crosses(c) ==
    c \in linked => /\ active # c => Away(toClient[c], client[c].entered)
                    /\ Alternate(toClient[c], client[c].entered)

Crossing == \A c \in Client : Fresh(c) /\ Crosses(c)

LEMMA NothingCrosses == ASSUME NEW e, ~e PROVE Away(<<>>, e) /\ Alternate(<<>>, e)
<1>1. DOMAIN <<>> = {}
  BY NothingIn
<1> QED
  BY <1>1 DEF Away, Alternate

LEMMA FreshStep ==
    ASSUME TypeOK, Linkage, Crossing, Next, NEW c \in Client
    PROVE  Fresh(c)'
<1> USE TypesAre DEF Types
<1>0. Fresh(c) /\ (c \notin linked => toClient[c] = <<>> /\ ~client[c].grabbed)
  BY DEF Crossing, Linkage
<1>r. client[c] \in ClientSet /\ connections[c] \in Nat
  OBVIOUS
<1>k. ASSUME client'[c] = client[c], UNCHANGED <<linked, connections>> PROVE Fresh(c)'
  BY <1>0, <1>k DEF Fresh
<1>1. ASSUME NEW s \in Screen, NEW v \in Value, Copy(s, v) PROVE Fresh(c)'
  <2>1. SameOwner(client[c], client'[c]) /\ SamePlace(client[c], client'[c]) /\ UNCHANGED <<linked, connections>>
    BY <1>1, CopyDoes
  <2> QED
    BY <1>0, <2>1 DEF Fresh, SameOwner, SamePlace
<1>2. ASSUME NEW s \in Screen, NEW v \in Value, UserCopies(s, v) \/ ProgramCopies(s, v)
      PROVE  Fresh(c)'
  BY <1>1, <1>2 DEF UserCopies, ProgramCopies
<1>3. ASSUME NEW d \in Client, d # c,
             ClientGrabbed(d) \/ ClientEnters(d) \/ ClientLeaves(d) \/ ClientLosesClipboard(d)
                 \/ ServerReceives(d)
      PROVE  Fresh(c)'
  <2>1. CASE ClientGrabbed(d)
    BY <1>k, <1>3, <2>1, ClientGrabbedDoes DEF OthersStay
  <2>2. CASE ClientEnters(d)
    BY <1>k, <1>3, <2>2, ClientEntersDoes DEF OthersStay
  <2>3. CASE ClientLeaves(d)
    BY <1>k, <1>3, <2>3, ClientLeavesDoes DEF OthersStay
  <2>4. CASE ClientLosesClipboard(d)
    BY <1>k, <1>3, <2>4, ClientLosesDoes DEF OthersStay
  <2>5. CASE ServerReceives(d)
    BY <1>k, <2>5, ServerReceivesDoes
  <2> QED
    BY <1>3, <2>1, <2>2, <2>3, <2>4, <2>5
<1>4. ASSUME ClientGrabbed(c) PROVE Fresh(c)'
  <2>1. /\ c \in linked /\ UNCHANGED <<linked, connections>> /\ SamePlace(client[c], client'[c])
        /\ client'[c].sent \/ client[c].active
    BY <1>0, <1>4, ClientGrabbedDoes
  <2> QED
    BY <1>0, <2>1 DEF Fresh, SamePlace
<1>5. ASSUME ClientEnters(c) PROVE Fresh(c)'
  <2>1. /\ c \in linked /\ UNCHANGED <<linked, connections>> /\ SameOwner(client[c], client'[c])
        /\ client'[c].active /\ client'[c].entered
    BY <1>0, <1>5, ClientEntersDoes DEF Reads
  <2>2. client'[c].active = TRUE /\ client'[c].entered = TRUE
    BY <1>5, <2>1, ClientEntersDoes DEF ClientSet
  <2> QED
    BY <1>0, <2>1, <2>2 DEF Fresh
<1>6. ASSUME ClientLeaves(c) PROVE Fresh(c)'
  <2>1. /\ c \in linked /\ UNCHANGED <<linked, connections>> /\ client'[c].own = client[c].own
        /\ ~client'[c].active /\ ~client'[c].entered
        /\ client'[c].own => client'[c].sent
    BY <1>0, <1>6, ClientLeavesDoes DEF Reads, MustSend, SameOwner
  <2>2. client'[c].active = FALSE /\ client'[c].entered = FALSE
    BY <1>6, <2>1, ClientLeavesDoes DEF ClientSet
  <2> QED
    BY <1>0, <2>1, <2>2 DEF Fresh
<1>7. ASSUME ClientLosesClipboard(c) PROVE Fresh(c)'
  <2>1. /\ UNCHANGED <<linked, connections>> /\ SamePlace(client[c], client'[c]) /\ ~client'[c].own
    BY <1>7, ClientLosesDoes
  <2> QED
    BY <1>0, <2>1 DEF Fresh, SamePlace
<1>8. ASSUME ServerReceives(c) PROVE Fresh(c)'
  BY <1>k, <1>8, ServerReceivesDoes
<1>9. ASSUME NEW d \in Client, Connect(d) PROVE Fresh(c)'
  <2>1. CASE c # d
    <3>1. client'[c] = client[c] /\ connections'[c] = connections[c] /\ (c \in linked' <=> c \in linked)
      BY <1>9, <2>1, ConnectDoes DEF OthersStay
    <3> QED
      BY <1>0, <3>1 DEF Fresh
  <2>2. CASE c = d
    <3>1. /\ connections'[c] = connections[c] + 1 /\ client'[c].active = client[c].active
          /\ ~client'[c].entered /\ ~client'[c].own
      BY <1>9, <2>2, ConnectDoes
    <3>2. client'[c] \in ClientSet
      BY <1>9, ConnectDoes
    <3>3. connections'[c] = 1 => ~client'[c].active
      BY <1>0, <1>r, <3>1 DEF Fresh
    <3>4. connections'[c] # 0
      BY <1>r, <3>1
    <3>5. connections'[c] = 1 => client'[c].active = client'[c].entered
      BY <3>1, <3>2, <3>3 DEF ClientSet
    <3> QED
      BY <3>1, <3>4, <3>5 DEF Fresh
  <2> QED
    BY <2>1, <2>2
<1>10. ASSUME NEW d \in Client, Disconnect(d) PROVE Fresh(c)'
  <2>1. CASE c # d
    <3>1. client'[c] = client[c] /\ connections' = connections /\ (c \in linked' <=> c \in linked)
      BY <1>10, <2>1, DisconnectDoes DEF OthersStay
    <3> QED
      BY <1>0, <3>1 DEF Fresh
  <2>2. CASE c = d
    <3>1. /\ connections' = connections /\ c \in linked /\ c \notin linked'
          /\ ~client'[c].entered
      BY <1>10, <2>2, DisconnectDoes
    <3> QED
      BY <1>0, <3>1 DEF Fresh
  <2> QED
    BY <2>1, <2>2
<1>11. ASSUME ClipboardGrabbed PROVE Fresh(c)'
  BY <1>k, <1>11, ClipboardGrabbedDoes
<1>12. ASSUME ClipboardChanged PROVE Fresh(c)'
  BY <1>k, <1>12, ClipboardChangedDoes
<1>13. ASSUME Dropped PROVE Fresh(c)'
  BY <1>k, <1>13, DroppedDoes
<1>14. ASSUME NEW dst \in Screen, SwitchScreen(dst) PROVE Fresh(c)'
  BY <1>k, <1>14, SwitchScreenDoes
<1> QED
  BY <1>2, <1>3, <1>4, <1>5, <1>6, <1>7, <1>8, <1>9, <1>10, <1>11, <1>12, <1>13, <1>14 DEF Next

LEMMA CrossesStep ==
    ASSUME TypeOK, Linkage, Crossing, Next, NEW c \in Client
    PROVE  Crosses(c)'
<1> USE TypesAre DEF Types
<1>0. Crosses(c) /\ (c \notin linked => toClient[c] = <<>> /\ ~client[c].grabbed)
  BY DEF Crossing, Linkage
<1>k. ASSUME client'[c].entered = client[c].entered, UNCHANGED <<linked, active>>,
             \/ toClient'[c] = toClient[c]
             \/ \E m : Grown(toClient[c], toClient'[c], m) /\ m.type # "enter"
      PROVE  Crosses(c)'
  <2>1. CASE toClient'[c] = toClient[c]
    BY <1>0, <1>k, <2>1 DEF Crosses
  <2>2. ASSUME NEW m, Grown(toClient[c], toClient'[c], m), m.type # "enter" PROVE Crosses(c)'
    BY <1>0, <1>k, <2>2, GrownCrosses DEF Crosses
  <2> QED
    BY <1>k, <2>1, <2>2
<1>r. ASSUME Reads(c), UNCHANGED <<linked, active>>, client'[c].entered \in BOOLEAN,
             Head(toClient[c]).type = "enter" => client'[c].entered,
             Head(toClient[c]).type = "leave" => ~client'[c].entered,
             Head(toClient[c]).type \notin {"enter", "leave"} => client'[c].entered = client[c].entered
      PROVE  Crosses(c)'
  <2> DEFINE m == Head(toClient[c])
             q == toClient[c]
             p == toClient'[c]
             e == client[c].entered
             e2 == client'[c].entered
  <2>1. /\ Shrunk(q, p, m)
        /\ m.type = "enter" => e2
        /\ m.type = "leave" => ~e2
        /\ m.type \notin {"enter", "leave"} => e2 = e
    BY <1>r DEF Reads
  <2> HIDE DEF m, q, p, e, e2
  <2>2. (Away(q, e) => Away(p, e2)) /\ (Alternate(q, e) => Alternate(p, e2))
    BY <2>1, ShrunkCrosses
  <2> QED
    BY <1>0, <1>r, <2>2 DEF Crosses, q, p, e, e2
<1>1. ASSUME NEW s \in Screen, NEW v \in Value, Copy(s, v) PROVE Crosses(c)'
  BY <1>k, <1>1, CopyDoes DEF SamePlace
<1>2. ASSUME NEW s \in Screen, NEW v \in Value, UserCopies(s, v) \/ ProgramCopies(s, v)
      PROVE  Crosses(c)'
  BY <1>1, <1>2 DEF UserCopies, ProgramCopies
<1>3. ASSUME NEW d \in Client, ClientGrabbed(d) PROVE Crosses(c)'
  BY <1>k, <1>3, ClientGrabbedDoes DEF OthersStay, SamePlace
<1>4. ASSUME NEW d \in Client, ServerReceives(d) PROVE Crosses(c)'
  BY <1>k, <1>4, ServerReceivesDoes
<1>5. ASSUME NEW d \in Client, ClientEnters(d) \/ ClientLeaves(d) \/ ClientLosesClipboard(d)
      PROVE  Crosses(c)'
  <2>1. /\ Reads(d) /\ OthersStay(d) /\ UNCHANGED <<linked, active>>
        /\ client' \in [Client -> ClientSet]
        /\ Head(toClient[d]).type = "enter" => client'[d].entered
        /\ Head(toClient[d]).type = "leave" => ~client'[d].entered
        /\ Head(toClient[d]).type \notin {"enter", "leave"} => client'[d].entered = client[d].entered
    <3>1. CASE ClientEnters(d)
      BY <3>1, ClientEntersDoes
    <3>2. CASE ClientLeaves(d)
      BY <3>2, ClientLeavesDoes
    <3>3. CASE ClientLosesClipboard(d)
      BY <3>3, ClientLosesDoes DEF SamePlace
    <3> QED
      BY <1>5, <3>1, <3>2, <3>3
  <2>2. client'[c].entered \in BOOLEAN
    BY <2>1 DEF ClientSet
  <2>3. CASE c = d
    BY <1>r, <2>1, <2>2, <2>3
  <2>4. CASE c # d
    BY <1>k, <2>1, <2>4 DEF Reads, OthersStay
  <2> QED
    BY <2>3, <2>4
<1>6. ASSUME ClipboardGrabbed PROVE Crosses(c)'
  <2>1. /\ UNCHANGED <<linked, active, client>>
        /\ toClient'[c] = toClient[c] \/ Grown(toClient[c], toClient'[c], Grab(0))
    BY <1>6, ClipboardGrabbedDoes
  <2>2. Grab(0).type # "enter"
    BY DEF Grab
  <2> QED
    BY <1>k, <2>1, <2>2
<1>7. ASSUME ClipboardChanged PROVE Crosses(c)'
  <2> DEFINE new == held[Head(events).from]
  <2>1. /\ UNCHANGED <<linked, active, client>>
        /\ toClient' = toClient \/ Given(active, new)
    BY <1>7, ClipboardChangedDoes
  <2>2. Data(0, new).type # "enter" /\ active \in Screen
    BY DEF Data
  <2> HIDE DEF new
  <2>3. toClient'[c] = toClient[c] \/ Grown(toClient[c], toClient'[c], Data(0, new))
    BY <2>1, <2>2 DEF Given, Screen
  <2> QED
    BY <1>k, <2>1, <2>2, <2>3
<1>8. ASSUME Dropped PROVE Crosses(c)'
  BY <1>k, <1>8, DroppedDoes
<1>9. ASSUME NEW dst \in Screen, SwitchScreen(dst) PROVE Crosses(c)'
  <2>1. /\ UNCHANGED <<linked, client>> /\ active' = dst /\ dst # active
        /\ \A d \in Client \ {active, dst} : toClient'[d] = toClient[d]
        /\ active \in Client => Grown(toClient[active], toClient'[active], Leave)
        /\ Entered(dst, NewData)
    BY <1>9, SwitchScreenDoes
  <2> DEFINE e == client[c].entered
             enter == Enter(seqNum + 1)
  <2>2. CASE c # active /\ c # dst
    BY <1>0, <2>1, <2>2 DEF Crosses
  <2>3. CASE c = active
    <3> DEFINE q == toClient[c]
               p == toClient'[c]
    <3>1. Grown(q, p, Leave) /\ Leave.type = "leave"
      BY <2>1, <2>3, KindsAre
    <3> HIDE DEF q, p, e
    <3>2. Away(p, e) /\ (Alternate(q, e) => Alternate(p, e))
      BY <3>1, GrownCrosses
    <3> QED
      BY <1>0, <2>1, <2>3, <3>2 DEF Crosses, p, q, e
  <2>4. CASE c = dst
    <3>1. ASSUME NEW q, NEW p, NEW m, NEW f, Grown(q, p, m), Away(q, f), Alternate(q, f)
          PROVE  Alternate(p, f)
      BY <3>1, GrownCrosses
    <3>2. ASSUME NEW q, NEW p, NEW v, NEW f, Grown(q, p, Data(0, v)), Alternate(q, f)
          PROVE  Alternate(p, f)
      <4>1. Data(0, v).type # "enter"
        BY DEF Data
      <4> QED
        BY <3>2, <4>1, GrownCrosses
    <3>3. Away(toClient[c], e) /\ Alternate(toClient[c], e) => Alternate(toClient'[c], e)
      <4>1. CASE NewDirty[dst]
        <5>1. PICK q : Grown(toClient[c], q, enter) /\ Grown(q, toClient'[c], Data(0, NewData))
          BY <2>1, <2>4, <4>1 DEF Entered
        <5> HIDE DEF enter, e
        <5> QED
          BY <3>1, <3>2, <5>1
      <4>2. CASE ~NewDirty[dst]
        BY <2>1, <2>4, <3>1, <4>2 DEF Entered
      <4> QED
        BY <4>1, <4>2
    <3> QED
      BY <1>0, <2>1, <2>4, <3>3 DEF Crosses
  <2> QED
    BY <2>2, <2>3, <2>4
<1>10. ASSUME NEW d \in Client, Connect(d) PROVE Crosses(c)'
  <2>1. /\ UNCHANGED <<active, toClient>> /\ d \notin linked /\ linked' = linked \cup {d}
        /\ OthersStay(d) /\ ~client'[d].entered
    BY <1>10, ConnectDoes
  <2>2. CASE c # d
    BY <1>0, <2>1, <2>2 DEF Crosses, OthersStay
  <2>3. CASE c = d
    BY <1>0, <2>1, <2>3, NothingCrosses DEF Crosses
  <2> QED
    BY <2>2, <2>3
<1>11. ASSUME NEW d \in Client, Disconnect(d) PROVE Crosses(c)'
  <2>1. /\ linked' = linked \ {d} /\ OthersStay(d)
        /\ \A b \in Client \ {d} : toClient'[b] = toClient[b]
        /\ active' = active \/ active = d
    BY <1>11, DisconnectDoes
  <2> QED
    BY <1>0, <2>1 DEF Crosses, OthersStay
<1> QED
  BY <1>2, <1>3, <1>4, <1>5, <1>6, <1>7, <1>8, <1>9, <1>10, <1>11 DEF Next

-----------------------------------------------------------------------------
(***************************************************************************)
(* Screens agree.                                                          *)
(***************************************************************************)
AgreeInv == TypeOK /\ Linkage /\ UpToDate /\ Crossing

LEMMA AgreeInit == Init => AgreeInv
<1> SUFFICES ASSUME Init PROVE AgreeInv
  OBVIOUS
<1>1. TypeOK /\ Linkage
  BY TypeInit
<1>2. UpToDate
  <2>1. Listed \ {clipboard.owner} = {}
    BY DEF Init, Listed
  <2> QED
    BY <2>1 DEF UpToDate
<1>3. Crossing
  BY DEF Init, Crossing, Fresh, Crosses, NewClient
<1> QED
  BY <1>1, <1>2, <1>3 DEF AgreeInv

LEMMA AgreeStep == AgreeInv /\ [Next]_vars => AgreeInv'
<1>1. ASSUME AgreeInv, Next PROVE AgreeInv'
  BY <1>1, TypeStep, LinkageStep, UpToDateStep, FreshStep, CrossesStep DEF AgreeInv, Crossing
<1>2. ASSUME AgreeInv, UNCHANGED vars PROVE AgreeInv'
  <2>1. UNCHANGED <<clipboard, active, seqNum, linked, dirty, held, events, toClient, toServer, client,
                    local, ours, primarySeq, copies, away, connections, fault>>
    BY <1>2 DEF vars, shared, proxies, wires, screens, bounds
  <2>2. TypeOK' /\ Linkage'
    BY <1>2, <2>1, TypesAre, SetsStay DEF AgreeInv, Types, Linkage, Listed
  <2>3. UpToDate'
    BY <1>2, <2>1 DEF AgreeInv, UpToDate, Clean, UntouchedBySomeone, OnTheWay, Listed
  <2>4. Crossing'
    BY <1>2, <2>1 DEF AgreeInv, Crossing, Fresh, Crosses
  <2> QED
    BY <2>2, <2>3, <2>4 DEF AgreeInv
<1> QED
  BY <1>1, <1>2

LEMMA AgreeEnough == AgreeInv => ScreensAgree
<1> SUFFICES ASSUME AgreeInv PROVE ScreensAgree
  OBVIOUS
<1>1. CleanScreensAgree
  BY DEF AgreeInv, UpToDate, Clean, CleanScreensAgree
<1>2. ASSUME NEW c \in Client, InactiveOwner(c), connections[c] = 1 PROVE client[c].sent
  <2>1. c \in linked /\ active # c /\ client[c].own /\ toClient[c] = <<>>
    BY <1>2 DEF InactiveOwner, Quiet
  <2>2. DOMAIN <<>> = {}
    BY NothingIn
  <2>3. ~client[c].entered
    BY <2>1, <2>2 DEF AgreeInv, Crossing, Crosses, Away
  <2> QED
    BY <1>2, <2>1, <2>3 DEF AgreeInv, Crossing, Fresh
<1> QED
  BY <1>1, <1>2 DEF AgreeInv, ScreensAgree, FirstConnectionHasSent

\* A screen whose flag is not dirty has, or is sent, what the server has, and a
\* client that has not lost a connection has sent what it owns when it is left:
\* for any clients, contents and bounds.
THEOREM ScreensAlwaysAgree == Spec => []ScreensAgree
<1>1. Init => AgreeInv
  BY AgreeInit
<1>2. AgreeInv /\ [Next]_vars => AgreeInv'
  BY AgreeStep
<1>3. AgreeInv => ScreensAgree
  BY AgreeEnough
<1> QED
  BY <1>1, <1>2, <1>3, PTL DEF Spec

-----------------------------------------------------------------------------
(***************************************************************************)
(* What a step means for one client.  Most steps leave it alone, but for   *)
(* events of others that are added or dispatched.                          *)
(***************************************************************************)
\* The events from c are the same in q and p, k places further on in q.
SameEvents(q, p, c, k) ==
    /\ \A i \in DOMAIN p : i \in Nat /\ (p[i].from = c => i + k \in DOMAIN q /\ q[i + k] = p[i])
    /\ \A j \in DOMAIN q : j \in Nat /\ (q[j].from = c /\ j > k => j - k \in DOMAIN p /\ p[j - k] = q[j])

LEMMA EventsAreTheSame ==
    ASSUME NEW q, NEW p, NEW m, NEW c
    PROVE  /\ Grown(q, p, m) /\ m.from # c => SameEvents(q, p, c, 0)
           /\ Shrunk(q, p, m) => SameEvents(q, p, c, 1)
           /\ c # Primary => \A d : Masked(q, p, d) /\ d # c => SameEvents(q, p, c, 0)
<1>1. ASSUME Grown(q, p, m), m.from # c PROVE SameEvents(q, p, c, 0)
  <2>1. \A i \in DOMAIN p : i \in Nat /\ i + 0 = i /\ ((i \in DOMAIN q /\ p[i] = q[i]) \/ p[i] = m)
    BY <1>1 DEF Grown
  <2>2. \A j \in DOMAIN q : j \in Nat /\ j - 0 = j /\ j \in DOMAIN p /\ p[j] = q[j]
    BY <1>1 DEF Grown
  <2> QED
    BY <1>1, <2>1, <2>2 DEF SameEvents
<1>2. ASSUME Shrunk(q, p, m) PROVE SameEvents(q, p, c, 1)
  <2>1. \A i \in DOMAIN p : i \in Nat /\ i + 1 \in DOMAIN q /\ q[i + 1] = p[i]
    BY <1>2 DEF Shrunk
  <2>2. \A j \in DOMAIN q : j \in Nat /\ (j > 1 => j - 1 \in DOMAIN p /\ (j - 1) + 1 = j)
    BY <1>2 DEF Shrunk
  <2> QED
    BY <2>1, <2>2 DEF SameEvents
<1>3. ASSUME c # Primary, NEW d, Masked(q, p, d), d # c PROVE SameEvents(q, p, c, 0)
  <2>1. Orphan.from = Primary
    BY DEF Orphan, Event
  <2>2. \A i \in DOMAIN p : /\ i \in Nat /\ i + 0 = i /\ i - 0 = i /\ i \in DOMAIN q
                            /\ p[i].from = c \/ q[i].from = c => p[i] = q[i]
    BY <1>3, <2>1 DEF Masked
  <2>3. DOMAIN q = DOMAIN p
    BY <1>3 DEF Masked
  <2> QED
    BY <2>2, <2>3 DEF SameEvents
<1> QED
  BY <1>1, <1>2, <1>3

\* c is not concerned.
Bystander(c) ==
    /\ c \in linked /\ UNCHANGED clipboard
    /\ dirty'[c] = dirty[c] /\ held'[c] = held[c]
    /\ toClient'[c] = toClient[c] /\ toServer'[c] = toServer[c]
    /\ SameOwner(client[c], client'[c]) /\ client'[c].seq = client[c].seq
    /\ \E k \in {0, 1} : /\ SameEvents(events, events', c, k)
                         /\ k = 1 => events[1].from # c

LEMMA StepsOfOne ==
    ASSUME TypeOK, Linkage, Next, NEW c \in Client, c \in linked'
    PROVE  \/ Bystander(c)
           \/ c \in linked /\ (ClientGrabbed(c) \/ ClientEnters(c) \/ ClientLeaves(c)
                                   \/ ClientLosesClipboard(c) \/ ServerReceives(c))
           \/ ClipboardGrabbed \/ ClipboardChanged
           \/ \E dst \in Screen : SwitchScreen(dst)
           \/ Connect(c)
<1> USE TypesAre DEF Types
<1>s. ASSUME events' = events PROVE SameEvents(events, events', c, 0)
  <2>1. \A i \in DOMAIN events : i \in Nat /\ i + 0 = i /\ i - 0 = i
    BY LenProperties
  <2> QED
    BY <1>s, <2>1 DEF SameEvents
<1>c. c # Primary /\ c \in Screen
  BY ClipboardAssumption DEF Screen
<1>1. ASSUME NEW s \in Screen, NEW v \in Value, Copy(s, v) PROVE Bystander(c)
  <2>1. UNCHANGED <<clipboard, linked, dirty, held, toClient, toServer>>
        /\ SameOwner(client[c], client'[c]) /\ SamePlace(client[c], client'[c])
    BY <1>1, CopyDoes
  <2>2. SameEvents(events, events', c, 0)
    <3>1. CASE events' = events
      BY <1>s, <3>1
    <3>2. CASE events' = Append(events, Event("grabbed", Primary, primarySeq))
      <4>1. Event("grabbed", Primary, primarySeq) \in EventSet
        BY MessagesAre
      <4>2. Event("grabbed", Primary, primarySeq).from = Primary
        BY DEF Event
      <4>3. Grown(events, events', Event("grabbed", Primary, primarySeq))
        BY <3>2, <4>1, AppendGrows
      <4> QED
        BY <1>c, <4>2, <4>3, EventsAreTheSame
    <3> QED
      BY <1>1, <3>1, <3>2, CopyDoes
  <2> QED
    BY <2>1, <2>2 DEF Bystander, SamePlace
<1>2. ASSUME NEW s \in Screen, NEW v \in Value, UserCopies(s, v) \/ ProgramCopies(s, v)
      PROVE  Bystander(c)
  BY <1>1, <1>2 DEF UserCopies, ProgramCopies
<1>b. ASSUME NEW d \in Client, d # c, OthersStay(d), events' = events, UNCHANGED <<clipboard, linked, dirty, held>>,
             toClient'[c] = toClient[c], toServer'[c] = toServer[c]
      PROVE  Bystander(c)
  <2>1. client'[c] = client[c]
    BY <1>b DEF OthersStay
  <2> QED
    BY <1>b, <1>s, <2>1 DEF Bystander, SameOwner
<1>3. ASSUME NEW d \in Client, d # c, ClientGrabbed(d) PROVE Bystander(c)
  BY <1>b, <1>3, ClientGrabbedDoes
<1>4. ASSUME NEW d \in Client, d # c, ClientEnters(d) PROVE Bystander(c)
  BY <1>b, <1>4, ClientEntersDoes DEF Reads
<1>5. ASSUME NEW d \in Client, d # c, ClientLeaves(d) PROVE Bystander(c)
  BY <1>b, <1>5, ClientLeavesDoes DEF Reads
<1>6. ASSUME NEW d \in Client, d # c, ClientLosesClipboard(d) PROVE Bystander(c)
  BY <1>b, <1>6, ClientLosesDoes DEF Reads
<1>7. ASSUME NEW d \in Client, d # c, ServerReceives(d) PROVE Bystander(c)
  <2> DEFINE e == Posted(d, Head(toServer[d]))
  <2>1. /\ UNCHANGED <<clipboard, linked, dirty, toClient, client>>
        /\ held'[c] = held[c] /\ toServer'[c] = toServer[c] /\ Grown(events, events', e)
    BY <1>7, ServerReceivesDoes
  <2>2. e.from # c
    BY <1>7 DEF Posted, Event
  <2> HIDE DEF e
  <2>3. SameEvents(events, events', c, 0)
    BY <2>1, <2>2, EventsAreTheSame
  <2> QED
    BY <2>1, <2>3 DEF Bystander, SameOwner
<1>8. ASSUME NEW d \in Client, d # c, Connect(d) PROVE Bystander(c)
  <2>1. /\ UNCHANGED <<clipboard, events, toClient, toServer>> /\ c \in linked /\ OthersStay(d)
        /\ dirty'[c] = dirty[c] /\ held'[c] = held[c]
    BY <1>8, <1>c, ConnectDoes
  <2> QED
    BY <1>s, <1>8, <2>1 DEF Bystander, OthersStay, SameOwner
<1>9. ASSUME NEW d \in Client, Disconnect(d) PROVE Bystander(c)
  <2>1. /\ UNCHANGED <<clipboard, dirty, held>> /\ c \in linked /\ c # d
        /\ toServer'[c] = toServer[c] /\ toClient'[c] = toClient[c]
        /\ Masked(events, events', d) /\ OthersStay(d)
    BY <1>9, DisconnectDoes
  <2>2. SameEvents(events, events', c, 0)
    BY <1>c, <2>1, EventsAreTheSame
  <2> QED
    BY <2>1, <2>2 DEF Bystander, OthersStay, SameOwner
<1>10. ASSUME Dropped PROVE Bystander(c)
  <2>1. /\ UNCHANGED <<clipboard, linked, dirty, held, toClient, toServer, client>>
        /\ Handles(Head(events)) /\ Head(events).type = "orphan"
    BY <1>10, DroppedDoes
  <2>2. events[1].from = Primary
    BY <2>1 DEF Handles, Linkage, Orphan, Event
  <2>3. SameEvents(events, events', c, 1)
    BY <2>1, EventsAreTheSame DEF Handles
  <2> QED
    BY <1>c, <2>1, <2>2, <2>3 DEF Bystander, SameOwner
<1>11. ASSUME NEW d \in Client,
              ClientGrabbed(d) \/ ClientEnters(d) \/ ClientLeaves(d) \/ ClientLosesClipboard(d)
                  \/ ServerReceives(d)
       PROVE  linked' = linked
  <2>1. CASE ClientGrabbed(d)
    BY <2>1, ClientGrabbedDoes
  <2>2. CASE ClientEnters(d)
    BY <2>2, ClientEntersDoes
  <2>3. CASE ClientLeaves(d)
    BY <2>3, ClientLeavesDoes
  <2>4. CASE ClientLosesClipboard(d)
    BY <2>4, ClientLosesDoes
  <2>5. CASE ServerReceives(d)
    BY <2>5, ServerReceivesDoes
  <2> QED
    BY <1>11, <2>1, <2>2, <2>3, <2>4, <2>5
<1> QED
  BY <1>2, <1>3, <1>4, <1>5, <1>6, <1>7, <1>8, <1>9, <1>10, <1>11 DEF Next

\* What a client that connects starts with.
LEMMA NewcomersAreFresh ==
    ASSUME TypeOK, Linkage, NEW c \in Client, Connect(c)
    PROVE  /\ toClient'[c] = <<>> /\ toServer'[c] = <<>> /\ dirty'[c]
           /\ \A i \in DOMAIN events' : events'[i].from # c
           /\ ~client'[c].own /\ client'[c].seq = 0 /\ ~client'[c].grabbed /\ ~client'[c].sent
<1>1. /\ UNCHANGED <<events, toClient, toServer>> /\ c \notin linked
      /\ dirty' = [dirty EXCEPT ![c] = TRUE]
      /\ ~client'[c].own /\ client'[c].seq = 0 /\ ~client'[c].grabbed /\ ~client'[c].sent
  BY ConnectDoes
<1>2. c \in Screen /\ c # Primary /\ dirty \in [Screen -> BOOLEAN]
  BY TypesAre, ClipboardAssumption DEF Screen, Types
<1>3. toClient[c] = <<>> /\ toServer[c] = <<>> /\ \A i \in DOMAIN events : events[i].from # c
  BY <1>1, <1>2 DEF Linkage, Listed
<1> QED
  BY <1>1, <1>2, <1>3

-----------------------------------------------------------------------------
(***************************************************************************)
(* The sequence numbers that concern a client never go back, from the      *)
(* events at the head of the queue to the enters it has not read.          *)
(***************************************************************************)
NumbersIn(q) == \A i \in DOMAIN q : q[i].seq \in Nat

EventsOrdered(q, c) ==
    \A i, j \in DOMAIN q : i < j /\ q[i].from = c /\ q[j].from = c => q[i].seq =< q[j].seq
EventsBelow(q, c, n) == \A i \in DOMAIN q : q[i].from = c => q[i].seq =< n
EventsBefore(q, c, s) == \A j \in DOMAIN s : EventsBelow(q, c, s[j].seq)

MessagesOrdered(s) == \A i, j \in DOMAIN s : i < j => s[i].seq =< s[j].seq
MessagesBelow(s, n) == \A i \in DOMAIN s : s[i].seq =< n

EntersAbove(t, n) == \A i \in DOMAIN t : HasEnter(t, i) => n =< t[i].seq
EntersBelow(t, n) == \A i \in DOMAIN t : HasEnter(t, i) => t[i].seq =< n
EntersOrdered(t) ==
    \A i, j \in DOMAIN t : i < j /\ HasEnter(t, i) /\ HasEnter(t, j) => t[i].seq =< t[j].seq

Ordered(c) ==
    /\ EventsOrdered(events, c) /\ EventsBefore(events, c, toServer[c])
    /\ EventsBelow(events, c, client[c].seq)
    /\ MessagesOrdered(toServer[c]) /\ MessagesBelow(toServer[c], client[c].seq)
    /\ EntersAbove(toClient[c], client[c].seq) /\ EntersOrdered(toClient[c])
    /\ c = clipboard.owner => EntersAbove(toClient[c], clipboard.seq)

LEMMA NumbersAre ==
    ASSUME TypeOK, NEW c \in Client
    PROVE  /\ NumbersIn(events) /\ NumbersIn(toServer[c]) /\ client[c].seq \in Nat
           /\ clipboard.seq \in Nat /\ seqNum \in Nat
           /\ \A i \in DOMAIN toClient[c] :
                  HasEnter(toClient[c], i) => toClient[c][i].seq \in Nat /\ toClient[c][i].seq =< seqNum
           /\ client[c].seq =< seqNum /\ clipboard.seq =< seqNum
           /\ EntersBelow(toClient[c], seqNum)
<1> USE TypesAre DEF Types
<1>1. seqNum \in Nat /\ \A n \in Seqs : n \in Nat /\ n =< seqNum
  BY ClipboardAssumption DEF Seqs
<1>2. /\ \A i \in DOMAIN events : events[i] \in EventSet
      /\ \A i \in DOMAIN toServer[c] : toServer[c][i] \in ToServer
      /\ \A i \in DOMAIN toClient[c] : toClient[c][i] \in ToClient
  BY ElementsAre
<1>3. NumbersIn(events)
  BY <1>1, <1>2 DEF NumbersIn, EventSet
<1>4. NumbersIn(toServer[c])
  BY <1>1, <1>2, MessagesAre DEF NumbersIn
<1>5. \A i \in DOMAIN toClient[c] :
          HasEnter(toClient[c], i) => toClient[c][i].seq \in Nat /\ toClient[c][i].seq =< seqNum
  BY <1>1, <1>2, MessagesAre DEF HasEnter
<1>6. client[c].seq \in Seqs /\ clipboard.seq \in Seqs
  BY DEF ClientSet
<1> QED
  BY <1>1, <1>3, <1>4, <1>5, <1>6 DEF EntersBelow

\* The numbers of enters on a channel after a step.
LEMMA EntersAreNumbers ==
    ASSUME TypeOK', NEW c \in Client
    PROVE  \A i \in DOMAIN toClient'[c] : HasEnter(toClient'[c], i) => toClient'[c][i].seq \in Nat
<1>1. toClient'[c] \in Seq(ToClient')
  BY TypesAre DEF Types
<1> DEFINE t == toClient'[c]
<1>2. \A i \in DOMAIN t : t[i] \in ToClient'
  BY <1>1, ElementsAre
<1>3. \A m \in ToClient' : m.type = "enter" => m.seq \in Seqs'
  BY DEF ToClient
<1>4. \A n \in Seqs' : n \in Nat
  BY TypesAre, ClipboardAssumption DEF Types, Seqs
<1> QED
  BY <1>2, <1>3, <1>4 DEF HasEnter

\* Events.
LEMMA SameEventsOrdered ==
    ASSUME NEW q, NEW p, NEW c, NEW k \in {0, 1}, SameEvents(q, p, c, k)
    PROVE  /\ EventsOrdered(q, c) => EventsOrdered(p, c)
           /\ \A n : EventsBelow(q, c, n) => EventsBelow(p, c, n)
           /\ \A s : EventsBefore(q, c, s) => EventsBefore(p, c, s)
<1>1. ASSUME EventsOrdered(q, c) PROVE EventsOrdered(p, c)
  <2> SUFFICES ASSUME NEW i \in DOMAIN p, NEW j \in DOMAIN p, i < j, p[i].from = c, p[j].from = c
               PROVE  p[i].seq =< p[j].seq
    BY DEF EventsOrdered
  <2>1. /\ i + k \in DOMAIN q /\ q[i + k] = p[i] /\ j + k \in DOMAIN q /\ q[j + k] = p[j]
        /\ i \in Nat /\ j \in Nat
    BY DEF SameEvents
  <2>2. i + k < j + k
    BY <2>1
  <2> QED
    BY <1>1, <2>1, <2>2 DEF EventsOrdered
<1>2. \A n : EventsBelow(q, c, n) => EventsBelow(p, c, n)
  BY DEF EventsBelow, SameEvents
<1> QED
  BY <1>1, <1>2 DEF EventsBefore

LEMMA GrownEventsOrdered ==
    ASSUME NEW q, NEW p, NEW e, Grown(q, p, e), e.seq \in Nat, NumbersIn(q)
    PROVE  /\ EventsOrdered(q, e.from) /\ EventsBelow(q, e.from, e.seq) => EventsOrdered(p, e.from)
           /\ \A n : EventsBelow(q, e.from, n) /\ e.seq =< n => EventsBelow(p, e.from, n)
<1>1. /\ \A i \in DOMAIN p : i \in Nat /\ ((i \in DOMAIN q /\ p[i] = q[i]) \/ (i = Len(q) + 1 /\ p[i] = e))
      /\ \A i \in DOMAIN q : i < Len(q) + 1
      /\ Len(q) + 1 \in Nat /\ \A i \in DOMAIN p : i =< Len(q) + 1
  BY DEF Grown
<1>2. ASSUME EventsOrdered(q, e.from), EventsBelow(q, e.from, e.seq) PROVE EventsOrdered(p, e.from)
  <2> SUFFICES ASSUME NEW i \in DOMAIN p, NEW j \in DOMAIN p, i < j, p[i].from = e.from, p[j].from = e.from
               PROVE  p[i].seq =< p[j].seq
    BY DEF EventsOrdered
  <2>1. i \in DOMAIN q /\ p[i] = q[i]
    BY <1>1
  <2>2. CASE j \in DOMAIN q /\ p[j] = q[j]
    BY <1>2, <2>1, <2>2 DEF EventsOrdered
  <2>3. CASE p[j] = e
    BY <1>2, <2>1, <2>3 DEF EventsBelow
  <2> QED
    BY <1>1, <2>2, <2>3
<1>3. \A n : EventsBelow(q, e.from, n) /\ e.seq =< n => EventsBelow(p, e.from, n)
  BY <1>1 DEF EventsBelow
<1> QED
  BY <1>2, <1>3

LEMMA BelowIsTransitive ==
    ASSUME NEW q, NEW c, NEW s, NEW m \in Nat, NEW n \in Nat, m =< n, NumbersIn(q), NumbersIn(s)
    PROVE  /\ EventsBelow(q, c, m) => EventsBelow(q, c, n)
           /\ MessagesBelow(s, m) => MessagesBelow(s, n)
BY DEF EventsBelow, MessagesBelow, NumbersIn

\* Messages to the server.
LEMMA GrownMessagesOrdered ==
    ASSUME NEW q, NEW c, NEW s, NEW s2, NEW m, Grown(s, s2, m), m.seq \in Nat
    PROVE  /\ MessagesOrdered(s) /\ MessagesBelow(s, m.seq) => MessagesOrdered(s2)
           /\ \A n : MessagesBelow(s, n) /\ m.seq =< n => MessagesBelow(s2, n)
           /\ EventsBefore(q, c, s) /\ EventsBelow(q, c, m.seq) => EventsBefore(q, c, s2)
<1>1. /\ \A i \in DOMAIN s2 : i \in Nat /\ ((i \in DOMAIN s /\ s2[i] = s[i]) \/ (i = Len(s) + 1 /\ s2[i] = m))
      /\ Len(s) + 1 \in Nat /\ \A i \in DOMAIN s2 : i =< Len(s) + 1
  BY DEF Grown
<1>2. ASSUME MessagesOrdered(s), MessagesBelow(s, m.seq) PROVE MessagesOrdered(s2)
  <2> SUFFICES ASSUME NEW i \in DOMAIN s2, NEW j \in DOMAIN s2, i < j
               PROVE  s2[i].seq =< s2[j].seq
    BY DEF MessagesOrdered
  <2>1. i \in DOMAIN s /\ s2[i] = s[i]
    BY <1>1
  <2>2. CASE j \in DOMAIN s /\ s2[j] = s[j]
    BY <1>2, <2>1, <2>2 DEF MessagesOrdered
  <2>3. CASE s2[j] = m
    BY <1>2, <2>1, <2>3 DEF MessagesBelow
  <2> QED
    BY <1>1, <2>2, <2>3
<1>3. \A n : MessagesBelow(s, n) /\ m.seq =< n => MessagesBelow(s2, n)
  BY <1>1 DEF MessagesBelow
<1>4. ASSUME EventsBefore(q, c, s), EventsBelow(q, c, m.seq) PROVE EventsBefore(q, c, s2)
  BY <1>1, <1>4 DEF EventsBefore
<1> QED
  BY <1>2, <1>3, <1>4

LEMMA ShrunkMessagesOrdered ==
    ASSUME NEW q, NEW c, NEW s, NEW s2, NEW m, Shrunk(s, s2, m)
    PROVE  /\ MessagesOrdered(s) => MessagesOrdered(s2) /\ \A j \in DOMAIN s2 : m.seq =< s2[j].seq
           /\ \A n : MessagesBelow(s, n) => MessagesBelow(s2, n) /\ m.seq =< n
           /\ EventsBefore(q, c, s) => EventsBefore(q, c, s2) /\ EventsBelow(q, c, m.seq)
<1>1. /\ \A i \in DOMAIN s2 : i \in Nat /\ i + 1 \in DOMAIN s /\ 1 < i + 1 /\ s2[i] = s[i + 1]
      /\ 1 \in DOMAIN s /\ s[1] = m
  BY DEF Shrunk
<1>2. \A i, j \in DOMAIN s2 : i < j => i + 1 < j + 1
  BY <1>1
<1>3. ASSUME MessagesOrdered(s) PROVE MessagesOrdered(s2) /\ \A j \in DOMAIN s2 : m.seq =< s2[j].seq
  BY <1>1, <1>2, <1>3 DEF MessagesOrdered
<1>4. \A n : MessagesBelow(s, n) => MessagesBelow(s2, n) /\ m.seq =< n
  BY <1>1 DEF MessagesBelow
<1>5. EventsBefore(q, c, s) => EventsBefore(q, c, s2) /\ EventsBelow(q, c, m.seq)
  BY <1>1 DEF EventsBefore
<1> QED
  BY <1>3, <1>4, <1>5

\* Messages to the client.
LEMMA GrownEntersOrdered ==
    ASSUME NEW t, NEW t2, NEW m, Grown(t, t2, m)
    PROVE  /\ m.type # "enter" =>
                  /\ EntersOrdered(t) => EntersOrdered(t2)
                  /\ \A n : EntersAbove(t, n) => EntersAbove(t2, n)
           /\ EntersOrdered(t) /\ EntersBelow(t, m.seq) => EntersOrdered(t2)
           /\ \A n : EntersAbove(t, n) /\ n =< m.seq => EntersAbove(t2, n)
<1>1. /\ \A i \in DOMAIN t2 : /\ i \in Nat
                              /\ \/ i \in DOMAIN t /\ t2[i] = t[i] /\ (HasEnter(t2, i) <=> HasEnter(t, i))
                                 \/ i = Len(t) + 1 /\ t2[i] = m /\ (HasEnter(t2, i) <=> m.type = "enter")
      /\ Len(t) + 1 \in Nat /\ \A i \in DOMAIN t2 : i =< Len(t) + 1
  BY DEF Grown, HasEnter
<1>2. ASSUME EntersOrdered(t), m.type # "enter" \/ EntersBelow(t, m.seq) PROVE EntersOrdered(t2)
  <2> SUFFICES ASSUME NEW i \in DOMAIN t2, NEW j \in DOMAIN t2, i < j, HasEnter(t2, i), HasEnter(t2, j)
               PROVE  t2[i].seq =< t2[j].seq
    BY DEF EntersOrdered
  <2>1. i \in DOMAIN t /\ t2[i] = t[i] /\ HasEnter(t, i)
    BY <1>1
  <2>2. CASE j \in DOMAIN t /\ t2[j] = t[j] /\ HasEnter(t, j)
    BY <1>2, <2>1, <2>2 DEF EntersOrdered
  <2>3. CASE t2[j] = m /\ m.type = "enter"
    BY <1>2, <2>1, <2>3 DEF EntersBelow
  <2> QED
    BY <1>1, <2>2, <2>3
<1>3. \A n : EntersAbove(t, n) /\ (m.type # "enter" \/ n =< m.seq) => EntersAbove(t2, n)
  BY <1>1 DEF EntersAbove
<1> QED
  BY <1>2, <1>3

LEMMA ShrunkEntersOrdered ==
    ASSUME NEW t, NEW t2, NEW m, Shrunk(t, t2, m)
    PROVE  /\ EntersOrdered(t) => EntersOrdered(t2)
           /\ \A n : EntersAbove(t, n) => EntersAbove(t2, n)
           /\ m.type = "enter" =>
                  /\ EntersOrdered(t) => EntersAbove(t2, m.seq)
                  /\ \A n : EntersAbove(t, n) => n =< m.seq
<1>1. /\ \A i \in DOMAIN t2 : /\ i \in Nat /\ i + 1 \in DOMAIN t /\ 1 < i + 1 /\ t2[i] = t[i + 1]
                              /\ HasEnter(t2, i) <=> HasEnter(t, i + 1)
      /\ 1 \in DOMAIN t /\ t[1] = m /\ (HasEnter(t, 1) <=> m.type = "enter")
  BY DEF Shrunk, HasEnter
<1>2. \A i, j \in DOMAIN t2 : i < j => i + 1 < j + 1
  BY <1>1
<1>3. EntersOrdered(t) => EntersOrdered(t2)
  BY <1>1, <1>2 DEF EntersOrdered
<1>4. \A n : EntersAbove(t, n) => EntersAbove(t2, n)
  BY <1>1 DEF EntersAbove
<1>5. m.type = "enter" /\ EntersOrdered(t) => EntersAbove(t2, m.seq)
  BY <1>1 DEF EntersOrdered, EntersAbove
<1>6. m.type = "enter" => \A n : EntersAbove(t, n) => n =< m.seq
  BY <1>1 DEF EntersAbove
<1> QED
  BY <1>3, <1>4, <1>5, <1>6

LEMMA OrderedStep ==
    ASSUME TypeOK, Linkage, Next, NEW c \in Client, c \in linked', c \in linked => Ordered(c)
    PROVE  Ordered(c)'
<1> USE TypesAre DEF Types
<1>n. /\ NumbersIn(events) /\ NumbersIn(toServer[c]) /\ client[c].seq \in Nat
      /\ clipboard.seq \in Nat /\ seqNum \in Nat
      /\ client[c].seq =< seqNum /\ clipboard.seq =< seqNum
      /\ EntersBelow(toClient[c], seqNum)
  BY NumbersAre
<1>o. ASSUME c \in linked
      PROVE  /\ EventsOrdered(events, c) /\ EventsBefore(events, c, toServer[c])
             /\ EventsBelow(events, c, client[c].seq)
             /\ MessagesOrdered(toServer[c]) /\ MessagesBelow(toServer[c], client[c].seq)
             /\ EntersAbove(toClient[c], client[c].seq) /\ EntersOrdered(toClient[c])
             /\ c = clipboard.owner => EntersAbove(toClient[c], clipboard.seq)
  BY <1>o DEF Ordered
<1>1. CASE Bystander(c)
  <2>1. PICK k \in {0, 1} : SameEvents(events, events', c, k)
    BY <1>1 DEF Bystander
  <2>2. EventsOrdered(events', c) /\ EventsBefore(events', c, toServer[c]) /\ EventsBelow(events', c, client[c].seq)
    BY <1>1, <1>o, <2>1, SameEventsOrdered DEF Bystander
  <2> QED
    BY <1>1, <1>o, <2>2 DEF Bystander, Ordered
\* c sends what it has to send with its number.
<1>s. ASSUME c \in linked, NEW s, NEW s2, NEW m, Grown(s, s2, m), m.seq = client[c].seq,
             MessagesOrdered(s), MessagesBelow(s, client[c].seq), EventsBefore(events, c, s)
      PROVE  /\ MessagesOrdered(s2) /\ MessagesBelow(s2, client[c].seq) /\ EventsBefore(events, c, s2)
  <2>1. /\ m.seq \in Nat /\ m.seq =< client[c].seq /\ EventsBelow(events, c, m.seq)
        /\ MessagesBelow(s, m.seq)
    BY <1>n, <1>o, <1>s
  <2>2. MessagesOrdered(s2) /\ EventsBefore(events, c, s2)
    BY <1>s, <2>1, GrownMessagesOrdered
  <2>3. MessagesBelow(s2, client[c].seq)
    BY <1>s, <2>1, GrownMessagesOrdered
  <2> QED
    BY <2>2, <2>3
<1>2. CASE c \in linked /\ ClientGrabbed(c)
  <2> DEFINE grab == Grab(client[c].seq)
             data == Data(client[c].seq, local[c])
             one == Append(toServer[c], grab)
  <2>1. /\ UNCHANGED <<clipboard, events, toClient>> /\ SamePlace(client[c], client'[c])
        /\ toServer'[c] = one \/ toServer'[c] = Append(one, data)
    BY <1>2, ClientGrabbedDoes
  <2>2. /\ grab.seq = client[c].seq /\ data.seq = client[c].seq
        /\ grab \in ToServer /\ data \in ToServer
    <3>1. client[c].seq \in Seqs /\ local[c] \in Content
      BY DEF ClientSet, Screen
    <3> QED
      BY <3>1, MessagesAre DEF Grab, Data
  <2>3. /\ Grown(toServer[c], one, grab) /\ Grown(one, Append(one, data), data)
    BY <2>2, AppendGrows
  <2> HIDE DEF grab, data, one
  <2>4. MessagesOrdered(one) /\ MessagesBelow(one, client[c].seq) /\ EventsBefore(events, c, one)
    BY <1>2, <1>o, <1>s, <2>2, <2>3
  <2>5. /\ MessagesOrdered(Append(one, data)) /\ MessagesBelow(Append(one, data), client[c].seq)
        /\ EventsBefore(events, c, Append(one, data))
    BY <1>2, <1>s, <2>2, <2>3, <2>4
  <2>6. /\ MessagesOrdered(toServer'[c]) /\ MessagesBelow(toServer'[c], client[c].seq)
        /\ EventsBefore(events, c, toServer'[c])
    BY <2>1, <2>4, <2>5
  <2> QED
    BY <1>2, <1>o, <2>1, <2>6 DEF Ordered, SamePlace
<1>3. CASE c \in linked /\ ClientEnters(c)
  <2> DEFINE n == Head(toClient[c]).seq
             m == Head(toClient[c])
  <2>1. /\ UNCHANGED <<clipboard, events, toServer>> /\ client'[c].seq = n
        /\ Shrunk(toClient[c], toClient'[c], m) /\ m.type = "enter" /\ m \in ToClient
    BY <1>3, ClientEntersDoes DEF Reads
  <2>2. client[c].seq =< n /\ n \in Nat
    <3>1. n \in Seqs
      BY <2>1, MessagesAre
    <3> QED
      BY <1>3, <1>o, <1>n, <2>1, <3>1, ShrunkEntersOrdered DEF Seqs
  <2>3. /\ EntersOrdered(toClient'[c]) /\ EntersAbove(toClient'[c], n)
        /\ c = clipboard.owner => EntersAbove(toClient'[c], clipboard.seq)
    BY <1>3, <1>o, <2>1, ShrunkEntersOrdered
  <2>4. EventsBelow(events, c, n) /\ MessagesBelow(toServer[c], n)
    BY <1>3, <1>o, <1>n, <2>2, BelowIsTransitive
  <2> QED
    BY <1>3, <1>o, <2>1, <2>3, <2>4 DEF Ordered
\* c reads something else.
<1>r. ASSUME c \in linked, Reads(c)
      PROVE  /\ EntersAbove(toClient'[c], client[c].seq) /\ EntersOrdered(toClient'[c])
             /\ c = clipboard.owner => EntersAbove(toClient'[c], clipboard.seq)
  BY <1>o, <1>r, ShrunkEntersOrdered DEF Reads
<1>4. CASE c \in linked /\ ClientLeaves(c)
  <2> DEFINE data == Data(client[c].seq, local[c])
  <2>1. /\ UNCHANGED <<clipboard, events>> /\ Reads(c) /\ client'[c].seq = client[c].seq
        /\ toServer'[c] = toServer[c] \/ toServer'[c] = Append(toServer[c], data)
    BY <1>4, ClientLeavesDoes
  <2>2. data.seq = client[c].seq /\ data \in ToServer
    <3>1. client[c].seq \in Seqs /\ local[c] \in Content
      BY DEF ClientSet, Screen
    <3> QED
      BY <3>1, MessagesAre DEF Data
  <2>3. Grown(toServer[c], Append(toServer[c], data), data)
    BY <2>2, AppendGrows
  <2> HIDE DEF data
  <2>4. /\ MessagesOrdered(toServer'[c]) /\ MessagesBelow(toServer'[c], client[c].seq)
        /\ EventsBefore(events, c, toServer'[c])
    BY <1>4, <1>o, <1>s, <2>1, <2>2, <2>3
  <2> QED
    BY <1>4, <1>o, <1>r, <2>1, <2>4 DEF Ordered
<1>5. CASE c \in linked /\ ClientLosesClipboard(c)
  <2>1. UNCHANGED <<clipboard, events, toServer>> /\ Reads(c) /\ SamePlace(client[c], client'[c])
    BY <1>5, ClientLosesDoes
  <2> QED
    BY <1>5, <1>o, <1>r, <2>1 DEF Ordered, SamePlace
<1>6. CASE c \in linked /\ ServerReceives(c)
  <2> DEFINE m == Head(toServer[c])
             e == Posted(c, m)
  <2>1. /\ UNCHANGED <<clipboard, client, toClient>>
        /\ Shrunk(toServer[c], toServer'[c], m) /\ m \in ToServer /\ Grown(events, events', e)
    BY <1>6, ServerReceivesDoes
  <2>2. e.from = c /\ e.seq = m.seq /\ m.seq \in Nat
    <3>1. m.seq \in Seqs
      BY <2>1, MessagesAre
    <3> QED
      BY <3>1 DEF Posted, Event, Seqs
  <2> HIDE DEF e, m
  <2>3. /\ MessagesOrdered(toServer'[c]) /\ \A j \in DOMAIN toServer'[c] : m.seq =< toServer'[c][j].seq
        /\ MessagesBelow(toServer'[c], client[c].seq) /\ m.seq =< client[c].seq
        /\ EventsBefore(events, c, toServer'[c]) /\ EventsBelow(events, c, m.seq)
    BY <1>6, <1>o, <2>1, ShrunkMessagesOrdered
  <2>4. /\ EventsOrdered(events', c)
        /\ \A n : EventsBelow(events, c, n) /\ m.seq =< n => EventsBelow(events', c, n)
    BY <1>6, <1>o, <1>n, <2>1, <2>2, <2>3, GrownEventsOrdered
  <2>5. EventsBelow(events', c, client[c].seq) /\ EventsBefore(events', c, toServer'[c])
    BY <1>6, <1>o, <2>3, <2>4 DEF EventsBefore
  <2> QED
    BY <1>6, <1>o, <2>1, <2>3, <2>4, <2>5 DEF Ordered
\* An event is dispatched.
<1>h. ASSUME c \in linked, NEW e, Handles(e)
      PROVE  /\ EventsOrdered(events', c) /\ EventsBefore(events', c, toServer[c])
             /\ EventsBelow(events', c, client[c].seq)
             /\ e.from = c => e.seq =< client[c].seq
  <2>1. SameEvents(events, events', c, 1)
    BY <1>h, EventsAreTheSame DEF Handles
  <2>2. e.from = c => e.seq =< client[c].seq
    BY <1>h, <1>o DEF Handles, EventsBelow
  <2> QED
    BY <1>h, <1>o, <2>1, <2>2, SameEventsOrdered
<1>g. ASSUME c \in linked, toClient'[c] = toClient[c] \/ \E m : m.type # "enter" /\ Grown(toClient[c], toClient'[c], m)
      PROVE  /\ EntersOrdered(toClient'[c]) /\ EntersAbove(toClient'[c], client[c].seq)
             /\ c = clipboard.owner => EntersAbove(toClient'[c], clipboard.seq)
  BY <1>o, <1>g, GrownEntersOrdered
<1>7. CASE ClipboardGrabbed
  <2> DEFINE e == Head(events)
  <2>1. /\ Handles(e) /\ UNCHANGED <<linked, toServer, client>> /\ c \in linked
        /\ toClient'[c] = toClient[c] \/ Grown(toClient[c], toClient'[c], Grab(0))
        /\ clipboard' = clipboard \/ clipboard' = [owner |-> e.from, seq |-> e.seq, data |-> Nothing]
    BY <1>7, ClipboardGrabbedDoes
  <2>2. Grab(0).type # "enter"
    BY DEF Grab
  <2> HIDE DEF e
  <2>3. /\ EntersOrdered(toClient'[c]) /\ EntersAbove(toClient'[c], client[c].seq)
        /\ c = clipboard.owner => EntersAbove(toClient'[c], clipboard.seq)
    BY <1>g, <2>1, <2>2
  <2>4. c = clipboard'.owner => EntersAbove(toClient'[c], clipboard'.seq)
    <3>1. CASE clipboard' = clipboard
      BY <2>3, <3>1
    <3>2. CASE clipboard' = [owner |-> e.from, seq |-> e.seq, data |-> Nothing] /\ c = e.from
      <4>1. e.seq =< client[c].seq /\ e.seq \in Nat
        BY <1>h, <1>n, <2>1, <3>2 DEF Handles, Seqs
      <4>2. \A i \in DOMAIN toClient'[c] : HasEnter(toClient'[c], i) => toClient'[c][i].seq \in Nat
        <5>1. TypeOK'
          BY TypeStep
        <5> QED
          BY <5>1, TypesAre, EntersAreNumbers
      <4>3. EntersAbove(toClient'[c], e.seq)
        BY <1>n, <2>3, <4>1, <4>2 DEF EntersAbove
      <4> QED
        BY <3>2, <4>3
    <3> QED
      BY <2>1, <3>1, <3>2
  <2> QED
    BY <1>h, <1>o, <2>1, <2>3, <2>4 DEF Ordered
<1>8. CASE ClipboardChanged
  <2> DEFINE e == Head(events)
             new == held[e.from]
  <2>1. /\ Handles(e) /\ UNCHANGED <<linked, toServer, client>> /\ c \in linked
        /\ toClient' = toClient \/ Given(active, new)
        /\ clipboard' = clipboard \/ clipboard' = [clipboard EXCEPT !.data = new]
    BY <1>8, ClipboardChangedDoes
  <2>2. Data(0, new).type # "enter" /\ active \in Screen
    BY DEF Data
  <2> HIDE DEF e, new
  <2>3. toClient'[c] = toClient[c] \/ Grown(toClient[c], toClient'[c], Data(0, new))
    BY <2>1, <2>2 DEF Given, Screen
  <2>4. /\ EntersOrdered(toClient'[c]) /\ EntersAbove(toClient'[c], client[c].seq)
        /\ c = clipboard.owner => EntersAbove(toClient'[c], clipboard.seq)
    BY <1>g, <2>1, <2>2, <2>3
  <2>5. clipboard'.owner = clipboard.owner /\ clipboard'.seq = clipboard.seq
    BY <2>1
  <2> QED
    BY <1>h, <1>o, <2>1, <2>4, <2>5 DEF Ordered
<1>9. ASSUME NEW dst \in Screen, SwitchScreen(dst) PROVE Ordered(c)'
  <2>1. /\ UNCHANGED <<linked, events, toServer, client>> /\ dst # active /\ c \in linked
        /\ \A d \in Client \ {active, dst} : toClient'[d] = toClient[d]
        /\ active \in Client => Grown(toClient[active], toClient'[active], Leave)
        /\ Entered(dst, NewData) /\ clipboard' = [clipboard EXCEPT !.data = NewData]
    BY <1>9, SwitchScreenDoes
  <2>2. clipboard'.owner = clipboard.owner /\ clipboard'.seq = clipboard.seq
    BY <2>1
  <2> DEFINE Fine(t) == /\ EntersOrdered(t) /\ EntersAbove(t, client[c].seq)
                        /\ c = clipboard.owner => EntersAbove(t, clipboard.seq)
             enter == Enter(seqNum + 1)
  <2>3. Fine(toClient'[c])
    <3>1. CASE c # dst
      BY <1>g, <2>1, <3>1, KindsAre
    <3>2. CASE c = dst
      <4>1. ASSUME NEW q, Grown(toClient[c], q, enter) PROVE Fine(q)
        <5>1. enter.seq = seqNum + 1
          BY DEF Enter
        <5>2. EntersBelow(toClient[c], enter.seq)
          BY <1>n, <5>1, NumbersAre DEF EntersBelow
        <5>3. client[c].seq =< enter.seq /\ clipboard.seq =< enter.seq
          BY <1>n, <5>1
        <5> HIDE DEF enter
        <5> QED
          BY <1>o, <2>1, <4>1, <5>2, <5>3, GrownEntersOrdered
      <4>2. ASSUME NEW q, Fine(q), Grown(q, toClient'[c], Data(0, NewData)) PROVE Fine(toClient'[c])
        <5>1. Data(0, NewData).type # "enter"
          BY DEF Data
        <5> QED
          BY <4>2, <5>1, GrownEntersOrdered
      <4> HIDE DEF Fine, enter
      <4> QED
        BY <2>1, <3>2, <4>1, <4>2 DEF Entered, enter
    <3> QED
      BY <3>1, <3>2
  <2> QED
    BY <1>o, <2>1, <2>2, <2>3 DEF Ordered
<1>10. CASE Connect(c)
  <2>1. /\ toClient'[c] = <<>> /\ toServer'[c] = <<>>
        /\ \A i \in DOMAIN events' : events'[i].from # c
    BY <1>10, NewcomersAreFresh
  <2>2. DOMAIN <<>> = {}
    BY NothingIn
  <2>3. /\ EventsOrdered(events', c) /\ EventsBefore(events', c, <<>>)
        /\ EventsBelow(events', c, client'[c].seq)
    BY <2>1, <2>2 DEF EventsOrdered, EventsBefore, EventsBelow
  <2>4. /\ MessagesOrdered(<<>>) /\ MessagesBelow(<<>>, client'[c].seq)
        /\ EntersOrdered(<<>>) /\ \A n : EntersAbove(<<>>, n)
    BY <2>2 DEF MessagesOrdered, MessagesBelow, EntersOrdered, EntersAbove
  <2> QED
    BY <2>1, <2>3, <2>4 DEF Ordered
<1> QED
  BY <1>1, <1>2, <1>3, <1>4, <1>5, <1>6, <1>7, <1>8, <1>9, <1>10, StepsOfOne

-----------------------------------------------------------------------------
(***************************************************************************)
(* A client that owns the clipboard since an earlier connection counts     *)
(* with number 0 until it is entered, and is given the contents then.      *)
(***************************************************************************)
Stale(c) == c = clipboard.owner /\ client[c].seq < clipboard.seq

NoEnter(t) == \A i \in DOMAIN t : ~HasEnter(t, i)
Told(t) == \E i \in DOMAIN t : \E j \in Contents(t) : i < j /\ HasEnter(t, i)

StaleIsTold(c) == Stale(c) => (dirty[c] /\ NoEnter(toClient[c])) \/ Told(toClient[c])

LEMMA GrownTold ==
    ASSUME NEW t, NEW t2, NEW m, Grown(t, t2, m)
    PROVE  /\ Told(t) => Told(t2)
           /\ NoEnter(t) /\ m.type # "enter" => NoEnter(t2)
           /\ m.type = "enter" => \E i \in DOMAIN t2 : HasEnter(t2, i)
           /\ Brought(m) /\ (\E i \in DOMAIN t : HasEnter(t, i)) => Told(t2)
<1>1. /\ \A i \in DOMAIN t2 : \/ i \in DOMAIN t /\ t2[i] = t[i]
                              \/ i = Len(t) + 1 /\ t2[i] = m
      /\ \A i \in DOMAIN t : i \in DOMAIN t2 /\ t2[i] = t[i] /\ i < Len(t) + 1
      /\ Len(t) + 1 \in DOMAIN t2 /\ t2[Len(t) + 1] = m
  BY DEF Grown
<1>2. /\ \A i \in DOMAIN t : HasEnter(t, i) => HasEnter(t2, i)
      /\ Contents(t) \subseteq Contents(t2)
      /\ Brought(m) => Len(t) + 1 \in Contents(t2)
      /\ m.type = "enter" => HasEnter(t2, Len(t) + 1)
  BY <1>1 DEF HasEnter, Contents, Brought
<1>3. Told(t) => Told(t2)
  BY <1>1, <1>2 DEF Told
<1>4. NoEnter(t) /\ m.type # "enter" => NoEnter(t2)
  BY <1>1 DEF NoEnter, HasEnter
<1>5. Brought(m) /\ (\E i \in DOMAIN t : HasEnter(t, i)) => Told(t2)
  BY <1>1, <1>2 DEF Told
<1> QED
  BY <1>1, <1>2, <1>3, <1>4, <1>5

LEMMA ShrunkTold ==
    ASSUME NEW t, NEW t2, NEW m, Shrunk(t, t2, m)
    PROVE  /\ m.type # "enter" /\ Told(t) => Told(t2)
           /\ NoEnter(t) => NoEnter(t2) /\ m.type # "enter"
           /\ m.type = "enter" /\ Told(t) => Contents(t2) # {}
<1>1. /\ 1 \in DOMAIN t /\ t[1] = m
      /\ \A i \in DOMAIN t2 : i \in Nat /\ i + 1 \in DOMAIN t /\ t2[i] = t[i + 1]
      /\ \A i \in DOMAIN t : i \in Nat /\ i >= 1 /\ (i > 1 => i - 1 \in DOMAIN t2 /\ t2[i - 1] = t[i])
  <2>1. /\ 1 \in DOMAIN t /\ t[1] = m
        /\ \A i \in DOMAIN t2 : i \in Nat /\ i + 1 \in DOMAIN t /\ t2[i] = t[i + 1]
        /\ \A i \in DOMAIN t : i \in Nat /\ i >= 1 /\ (i > 1 => i - 1 \in DOMAIN t2 /\ (i - 1) + 1 = i)
    BY DEF Shrunk
  <2> QED
    BY <2>1
<1>2. /\ HasEnter(t, 1) <=> m.type = "enter"
      /\ \A i \in DOMAIN t : i > 1 /\ HasEnter(t, i) => HasEnter(t2, i - 1)
      /\ \A i \in Contents(t) : i \in DOMAIN t /\ (i > 1 => i - 1 \in Contents(t2))
      /\ \A i \in DOMAIN t2 : HasEnter(t2, i) => HasEnter(t, i + 1)
  BY <1>1 DEF HasEnter, Contents
<1>3. ASSUME Told(t), m.type # "enter" PROVE Told(t2)
  <2>1. PICK i \in DOMAIN t, j \in Contents(t) : i < j /\ HasEnter(t, i)
    BY <1>3 DEF Told
  <2>2. i > 1 /\ j > 1 /\ i - 1 < j - 1
    BY <1>1, <1>2, <1>3, <2>1
  <2> QED
    BY <1>1, <1>2, <2>1, <2>2 DEF Told
<1>4. NoEnter(t) => NoEnter(t2) /\ m.type # "enter"
  BY <1>1, <1>2 DEF NoEnter
<1>5. ASSUME Told(t), m.type = "enter" PROVE Contents(t2) # {}
  <2>1. PICK i \in DOMAIN t, j \in Contents(t) : i < j
    BY <1>5 DEF Told
  <2>2. j > 1
    BY <1>1, <1>2, <2>1
  <2> QED
    BY <1>2, <2>1, <2>2
<1> QED
  BY <1>3, <1>4, <1>5

LEMMA StaleIsToldStep ==
    ASSUME TypeOK, Linkage, Next, NEW c \in Client, c \in linked',
           c \in linked => Ordered(c) /\ StaleIsTold(c)
    PROVE  StaleIsTold(c)'
<1> USE TypesAre DEF Types
<1>n. client[c].seq \in Nat /\ clipboard.seq \in Nat
  BY NumbersAre
<1> DEFINE t == toClient[c]
           t2 == toClient'[c]
\* Neither the owner nor the numbers nor the flag have changed.
<1>k. ASSUME c \in linked, Stale(c)' => Stale(c) /\ (dirty[c] => dirty'[c]),
             \/ t2 = t
             \/ \E m : m.type # "enter" /\ Grown(t, t2, m)
             \/ \E m : m.type # "enter" /\ Shrunk(t, t2, m)
      PROVE  StaleIsTold(c)'
  <2> HIDE DEF t, t2
  <2>1. Told(t) => Told(t2)
    BY <1>k, GrownTold, ShrunkTold
  <2>2. NoEnter(t) => NoEnter(t2)
    BY <1>k, GrownTold, ShrunkTold
  <2> QED
    BY <1>k, <2>1, <2>2 DEF StaleIsTold, t, t2
<1>1. CASE Bystander(c)
  <2>1. c \in linked /\ t2 = t /\ (Stale(c)' => Stale(c) /\ (dirty[c] => dirty'[c]))
    BY <1>1 DEF Bystander, Stale
  <2> HIDE DEF t, t2
  <2> QED
    BY <1>k, <2>1
<1>2. CASE c \in linked /\ ClientGrabbed(c)
  <2>1. t2 = t /\ (Stale(c)' => Stale(c) /\ (dirty[c] => dirty'[c]))
    BY <1>2, ClientGrabbedDoes DEF Stale, SamePlace
  <2> HIDE DEF t, t2
  <2> QED
    BY <1>2, <1>k, <2>1
<1>3. CASE c \in linked /\ ClientEnters(c)
  <2> DEFINE m == Head(toClient[c])
  <2>1. /\ UNCHANGED clipboard /\ client'[c].seq = m.seq /\ Shrunk(t, t2, m) /\ m.type = "enter"
        /\ m \in ToClient
    BY <1>3, ClientEntersDoes DEF Reads
  <2>2. c = clipboard.owner => clipboard.seq =< m.seq
    BY <1>3, <2>1, ShrunkEntersOrdered DEF Ordered
  <2>3. m.seq \in Nat
    BY <2>1, MessagesAre DEF Seqs
  <2>4. ~Stale(c)'
    BY <1>n, <2>1, <2>2, <2>3 DEF Stale
  <2> QED
    BY <2>4 DEF StaleIsTold
<1>4. CASE c \in linked /\ ClientLeaves(c)
  <2>1. /\ Shrunk(t, t2, Head(toClient[c])) /\ Head(toClient[c]).type # "enter"
        /\ Stale(c)' => Stale(c) /\ (dirty[c] => dirty'[c])
    BY <1>4, ClientLeavesDoes DEF Reads, Stale
  <2> HIDE DEF t, t2
  <2> QED
    BY <1>4, <1>k, <2>1
<1>5. CASE c \in linked /\ ClientLosesClipboard(c)
  <2>1. /\ Shrunk(t, t2, Head(toClient[c])) /\ Head(toClient[c]).type # "enter"
        /\ Stale(c)' => Stale(c) /\ (dirty[c] => dirty'[c])
    BY <1>5, ClientLosesDoes DEF Reads, Stale, SamePlace
  <2> HIDE DEF t, t2
  <2> QED
    BY <1>5, <1>k, <2>1
<1>6. CASE c \in linked /\ ServerReceives(c)
  <2>1. t2 = t /\ (Stale(c)' => Stale(c) /\ (dirty[c] => dirty'[c]))
    BY <1>6, ServerReceivesDoes DEF Stale
  <2> HIDE DEF t, t2
  <2> QED
    BY <1>6, <1>k, <2>1
\* The number of an event of c is not beyond that of c.
<1>h. ASSUME c \in linked, NEW e, Handles(e), e.from = c PROVE e.seq =< client[c].seq /\ e.seq \in Nat
  BY <1>h DEF Handles, Ordered, EventsBelow, Seqs
<1>7. CASE ClipboardGrabbed
  <2> DEFINE e == Head(events)
  <2>1. /\ Handles(e) /\ UNCHANGED <<linked, client>> /\ c \in linked
        /\ t2 = t \/ Grown(t, t2, Grab(0))
        /\ \/ UNCHANGED <<clipboard, dirty>>
           \/ clipboard' = [owner |-> e.from, seq |-> e.seq, data |-> Nothing]
    BY <1>7, ClipboardGrabbedDoes
  <2>2. Grab(0).type # "enter"
    BY DEF Grab
  <2> HIDE DEF e, t, t2
  <2>3. CASE UNCHANGED <<clipboard, dirty>>
    <3>1. Stale(c)' => Stale(c) /\ (dirty[c] => dirty'[c])
      BY <2>1, <2>3 DEF Stale
    <3> QED
      BY <1>k, <2>1, <2>2, <3>1
  <2>4. CASE clipboard' = [owner |-> e.from, seq |-> e.seq, data |-> Nothing]
    <3>1. ~Stale(c)'
      BY <1>h, <1>n, <2>1, <2>4 DEF Stale
    <3> QED
      BY <3>1 DEF StaleIsTold
  <2> QED
    BY <2>1, <2>3, <2>4
<1>8. CASE ClipboardChanged
  <2> DEFINE e == Head(events)
             new == held[e.from]
  <2>1. /\ Handles(e) /\ UNCHANGED <<linked, client>> /\ c \in linked
        /\ \/ UNCHANGED <<clipboard, dirty, toClient>>
           \/ /\ e.seq >= clipboard.seq /\ clipboard.owner = e.from
              /\ clipboard' = [clipboard EXCEPT !.data = new]
    BY <1>8, ClipboardChangedDoes
  <2>2. CASE UNCHANGED <<clipboard, dirty, toClient>>
    <3>1. t2 = t /\ (Stale(c)' => Stale(c) /\ (dirty[c] => dirty'[c]))
      BY <2>1, <2>2 DEF Stale
    <3> HIDE DEF t, t2
    <3> QED
      BY <1>k, <2>1, <3>1
  <2>3. CASE /\ e.seq >= clipboard.seq /\ clipboard.owner = e.from
             /\ clipboard' = [clipboard EXCEPT !.data = new]
    <3>1. clipboard'.owner = clipboard.owner /\ clipboard'.seq = clipboard.seq
      BY <2>3
    <3>2. ~Stale(c)'
      BY <1>h, <1>n, <2>1, <2>3, <3>1 DEF Stale
    <3> QED
      BY <3>2 DEF StaleIsTold
  <2> QED
    BY <2>1, <2>2, <2>3
<1>9. ASSUME NEW dst \in Screen, SwitchScreen(dst) PROVE StaleIsTold(c)'
  <2>1. /\ UNCHANGED <<linked, client>> /\ dst # active /\ c \in linked
        /\ clipboard' = [clipboard EXCEPT !.data = NewData]
        /\ dirty' = [NewDirty EXCEPT ![dst] = FALSE] /\ NewDirty \in [Screen -> BOOLEAN]
        /\ \A d \in Client \ {active, dst} : toClient'[d] = toClient[d]
        /\ active \in Client => Grown(toClient[active], toClient'[active], Leave)
        /\ Entered(dst, NewData)
    BY <1>9, SwitchScreenDoes
  <2>2. (Stale(c)' <=> Stale(c)) /\ (Stale(c) => NewDirty = dirty) /\ c \in Screen
    BY <2>1, ClipboardAssumption DEF Stale, NewDirty, PrimaryUpdates, Screen
  <2>3. CASE c # dst
    <3>1. Stale(c)' => Stale(c) /\ (dirty[c] => dirty'[c])
      BY <2>1, <2>2, <2>3
    <3>2. t2 = t \/ Grown(t, t2, Leave)
      BY <2>1, <2>3
    <3>3. Leave.type # "enter"
      BY KindsAre
    <3> HIDE DEF t, t2
    <3> QED
      BY <1>k, <2>1, <3>1, <3>2, <3>3
  <2>4. CASE c = dst
    <3> SUFFICES ASSUME Stale(c) PROVE Told(t2)
      BY <2>2 DEF StaleIsTold
    <3>1. CASE NewDirty[dst]
      <4>1. PICK q : Grown(t, q, Enter(seqNum + 1)) /\ Grown(q, t2, Data(0, NewData))
        BY <2>1, <2>4, <3>1 DEF Entered
      <4> HIDE DEF t, t2
      <4>2. \E i \in DOMAIN q : HasEnter(q, i)
        BY <4>1, GrownTold, KindsAre
      <4> QED
        BY <4>1, <4>2, GrownTold, KindsAre
    <3>2. CASE ~NewDirty[dst]
      <4>1. Grown(t, t2, Enter(seqNum + 1)) /\ Told(t)
        BY <2>1, <2>2, <2>4, <3>2 DEF Entered, StaleIsTold
      <4> HIDE DEF t, t2
      <4> QED
        BY <4>1, GrownTold
    <3> QED
      BY <3>1, <3>2
  <2> QED
    BY <2>3, <2>4
<1>10. CASE Connect(c)
  <2>1. dirty'[c] /\ t2 = <<>>
    BY <1>10, NewcomersAreFresh
  <2>2. NoEnter(t2)
    BY <2>1, NothingIn DEF NoEnter
  <2> QED
    BY <2>1, <2>2 DEF StaleIsTold
<1> QED
  BY <1>1, <1>2, <1>3, <1>4, <1>5, <1>6, <1>7, <1>8, <1>9, <1>10, StepsOfOne

-----------------------------------------------------------------------------
(***************************************************************************)
(* What a client has sent last is the last of what is on its way, and, if  *)
(* the client owns the clipboard, it will not be refused.                  *)
(***************************************************************************)
IsLast(q, c, i) == i \in DOMAIN q /\ q[i].from = c /\ \A j \in DOMAIN q : i < j => q[j].from # c
NoneFrom(q, c) == \A i \in DOMAIN q : q[i].from # c
LastOf(s) == s[Len(s)]

LEMMA SameLast ==
    ASSUME NEW q, NEW p, NEW c, NEW k \in {0, 1}, SameEvents(q, p, c, k)
    PROVE  /\ \A i \in DOMAIN p : IsLast(p, c, i) => IsLast(q, c, i + k) /\ q[i + k] = p[i]
           /\ NoneFrom(p, c) => \A i \in DOMAIN q : q[i].from = c => ~(i > k)
<1>1. ASSUME NEW i \in DOMAIN p, IsLast(p, c, i) PROVE IsLast(q, c, i + k) /\ q[i + k] = p[i]
  <2>1. i \in Nat /\ i + k \in DOMAIN q /\ q[i + k] = p[i] /\ q[i + k].from = c
    BY <1>1 DEF SameEvents, IsLast
  <2>2. ASSUME NEW j \in DOMAIN q, i + k < j, q[j].from = c PROVE FALSE
    <3>1. j \in Nat /\ j > k /\ j - k \in DOMAIN p /\ p[j - k] = q[j] /\ i < j - k
      BY <2>1, <2>2 DEF SameEvents
    <3> QED
      BY <1>1, <2>2, <3>1 DEF IsLast
  <2> QED
    BY <2>1, <2>2 DEF IsLast
<1>2. ASSUME NoneFrom(p, c), NEW i \in DOMAIN q, q[i].from = c, i > k PROVE FALSE
  BY <1>2 DEF SameEvents, NoneFrom
<1> QED
  BY <1>1, <1>2

LEMMA GrownLast ==
    ASSUME NEW q, NEW p, NEW e, Grown(q, p, e)
    PROVE  /\ \A i \in DOMAIN p : IsLast(p, e.from, i) => p[i] = e
           /\ ~NoneFrom(p, e.from)
<1>1. /\ Len(q) + 1 \in DOMAIN p /\ p[Len(q) + 1] = e
      /\ \A i \in DOMAIN p : i = Len(q) + 1 \/ i < Len(q) + 1
  BY DEF Grown
<1> QED
  BY <1>1 DEF IsLast, NoneFrom

\* The events of c when the first of them is dispatched.
LEMMA ShrunkLast ==
    ASSUME NEW q, NEW p, NEW e, NEW c, Shrunk(q, p, e)
    PROVE  /\ \A i \in DOMAIN p : IsLast(p, c, i) => IsLast(q, c, i + 1) /\ q[i + 1] = p[i]
           /\ NoneFrom(p, c) => /\ e.from = c => IsLast(q, c, 1) /\ q[1] = e
                                /\ e.from # c => NoneFrom(q, c)
<1>1. SameEvents(q, p, c, 1)
  BY EventsAreTheSame
<1>2. 1 \in DOMAIN q /\ q[1] = e /\ \A i \in DOMAIN q : i \in Nat /\ i >= 1
  BY DEF Shrunk
<1>3. ASSUME NoneFrom(p, c) PROVE \A i \in DOMAIN q : q[i].from = c => i = 1
  BY <1>1, <1>2, <1>3, SameLast
<1>4. ASSUME NoneFrom(p, c) PROVE /\ e.from = c => IsLast(q, c, 1) /\ q[1] = e
                                  /\ e.from # c => NoneFrom(q, c)
  BY <1>2, <1>3, <1>4 DEF IsLast, NoneFrom
<1> QED
  BY <1>1, <1>4, SameLast

LEMMA GrownMessages ==
    ASSUME NEW s, NEW s2, NEW m, Grown(s, s2, m)
    PROVE  s2 # <<>> /\ LastOf(s2) = m
BY NothingIn DEF Grown, LastOf

LEMMA ShrunkMessages ==
    ASSUME NEW A, NEW s, NEW s2 \in Seq(A), NEW m, Shrunk(s, s2, m)
    PROVE  /\ s2 # <<>> => LastOf(s2) = LastOf(s)
           /\ s2 = <<>> => LastOf(s) = m
<1>1. s2 # <<>> => Len(s2) # 0
  BY EmptySeq
<1>2. s2 # <<>> => Len(s2) \in DOMAIN s2 /\ Len(s2) + 1 = Len(s)
  BY <1>1 DEF Shrunk
<1>3. s2 = <<>> => Len(s) = 1
  BY NothingIn DEF Shrunk
<1> QED
  BY <1>2, <1>3 DEF Shrunk, LastOf

Sent(c) == client[c].own /\ client[c].sent

SentIs(c) ==
    Sent(c) =>
        /\ toServer[c] # <<>> =>
               LastOf(toServer[c]).type = "data" /\ LastOf(toServer[c]).data = client[c].last
        /\ toServer[c] = <<>> =>
               /\ Contents(toClient[c]) = {} => held[c] = client[c].last
               /\ \A i \in DOMAIN events : IsLast(events, c, i) => events[i].type = "changed"

\* A switch of the screen takes nothing from a channel.
LEMMA SwitchedBrings ==
    ASSUME TypeOK, Linkage, NEW c \in Client, NEW dst \in Screen, SwitchScreen(dst)
    PROVE  Contents(toClient'[c]) = {} => Contents(toClient[c]) = {}
<1> DEFINE t == toClient[c]
           t2 == toClient'[c]
<1>1. /\ \A d \in Client \ {active, dst} : toClient'[d] = toClient[d]
      /\ active \in Client => Grown(toClient[active], toClient'[active], Leave)
      /\ Entered(dst, NewData)
  BY SwitchScreenDoes
<1> SUFFICES ASSUME Contents(t2) = {} PROVE Contents(t) = {}
  OBVIOUS
<1>2. CASE c # dst
  <2>1. t2 = t \/ Grown(t, t2, Leave)
    BY <1>1, <1>2
  <2> HIDE DEF t, t2
  <2> QED
    BY <2>1, GrownBrings, KindsAre
<1>3. CASE c = dst /\ NewDirty[dst]
  <2>1. PICK q : Grown(q, t2, Data(0, NewData))
    BY <1>1, <1>3 DEF Entered
  <2> HIDE DEF t, t2
  <2> QED
    BY <2>1, GrownBrings, KindsAre
<1>4. CASE c = dst /\ ~NewDirty[dst]
  <2>1. Grown(t, t2, Enter(seqNum + 1))
    BY <1>1, <1>4 DEF Entered
  <2> HIDE DEF t, t2
  <2> QED
    BY <2>1, GrownBrings, KindsAre
<1> QED
  BY <1>2, <1>3, <1>4

LEMMA SentIsStep ==
    ASSUME TypeOK, Linkage, Next, NEW c \in Client, c \in linked', c \in linked => SentIs(c)
    PROVE  SentIs(c)'
<1> USE TypesAre DEF Types
\* Nothing was sent and no event was added.
<1>k. ASSUME c \in linked, Sent(c)' => Sent(c) /\ client'[c].last = client[c].last,
             toServer'[c] = toServer[c],
             Contents(toClient'[c]) = {} => Contents(toClient[c]) = {} /\ held'[c] = held[c],
             NEW k \in {0, 1}, SameEvents(events, events', c, k)
      PROVE  SentIs(c)'
  <2> SUFFICES ASSUME Sent(c)' PROVE SentIs(c)'
    BY DEF SentIs
  <2>1. /\ Sent(c) /\ SentIs(c)
        /\ client'[c].last = client[c].last /\ toServer'[c] = toServer[c]
        /\ Contents(toClient'[c]) = {} => Contents(toClient[c]) = {} /\ held'[c] = held[c]
    BY <1>k
  <2>2. \A i \in DOMAIN events' : IsLast(events', c, i) => IsLast(events, c, i + k) /\ events[i + k] = events'[i]
    BY <1>k, SameLast
  <2>3. \A j : IsLast(events, c, j) => j \in DOMAIN events
    BY DEF IsLast
  <2>4. ASSUME toServer'[c] = <<>>, NEW i \in DOMAIN events', IsLast(events', c, i)
        PROVE  events'[i].type = "changed"
    <3>1. IsLast(events, c, i + k) /\ events[i + k] = events'[i] /\ i + k \in DOMAIN events
      BY <2>2, <2>3, <2>4
    <3>2. \A j \in DOMAIN events : IsLast(events, c, j) => events[j].type = "changed"
      BY <2>1, <2>4 DEF SentIs
    <3> QED
      BY <3>1, <3>2
  <2> QED
    BY <2>1, <2>4 DEF SentIs
<1>0. SameEvents(events, events, c, 0)
  <2>1. \A i \in DOMAIN events : i \in Nat /\ i + 0 = i /\ i - 0 = i
    BY LenProperties
  <2> QED
    BY <2>1 DEF SameEvents
\* A message that is no contents was read.
<1>r. ASSUME NEW m, Shrunk(toClient[c], toClient'[c], m), m.type \in {"enter", "leave"}
      PROVE  Contents(toClient'[c]) = {} => Contents(toClient[c]) = {}
  BY <1>r, ShrunkBrings DEF Brought
\* The data were sent.
<1>s. ASSUME NEW s, NEW n, Grown(s, toServer'[c], Data(n, local[c])), client'[c].last = local[c]
      PROVE  SentIs(c)'
  <2>1. toServer'[c] # <<>> /\ LastOf(toServer'[c]) = Data(n, local[c])
    BY <1>s, GrownMessages
  <2>2. Data(n, local[c]).type = "data" /\ Data(n, local[c]).data = local[c]
    BY DEF Data
  <2> QED
    BY <1>s, <2>1, <2>2 DEF SentIs
<1>1. CASE Bystander(c)
  BY <1>1, <1>k DEF Bystander, Sent, SameOwner
<1>2. CASE c \in linked /\ ClientGrabbed(c)
  <2> DEFINE grab == Grab(client[c].seq)
             data == Data(client[c].seq, local[c])
             one == Append(toServer[c], grab)
  <2>1. \/ ~client'[c].sent
        \/ client'[c].last = local[c] /\ toServer'[c] = Append(one, data)
    BY <1>2, ClientGrabbedDoes
  <2>2. grab \in ToServer /\ data \in ToServer
    BY MessagesAre DEF ClientSet, Screen
  <2>3. Grown(one, Append(one, data), data)
    BY <2>2, AppendGrows
  <2>4. CASE ~client'[c].sent
    BY <2>4 DEF SentIs, Sent
  <2>5. CASE client'[c].last = local[c] /\ toServer'[c] = Append(one, data)
    <3>1. Grown(one, toServer'[c], Data(client[c].seq, local[c]))
      BY <2>3, <2>5
    <3> HIDE DEF one, data, grab
    <3> QED
      BY <1>s, <2>5, <3>1
  <2> QED
    BY <2>1, <2>4, <2>5
<1>3. CASE c \in linked /\ ClientEnters(c)
  <2>1. UNCHANGED <<events, toServer, held>> /\ SameOwner(client[c], client'[c])
    BY <1>3, ClientEntersDoes
  <2>2. Contents(toClient'[c]) = {} => Contents(toClient[c]) = {}
    BY <1>3, <1>r, ClientEntersDoes DEF Reads
  <2> QED
    BY <1>3, <1>k, <1>0, <2>1, <2>2 DEF Sent, SameOwner
<1>4. CASE c \in linked /\ ClientLeaves(c)
  <2> DEFINE data == Data(client[c].seq, local[c])
  <2>1. /\ UNCHANGED <<events, held>>
        /\ \/ client'[c].last = local[c] /\ toServer'[c] = Append(toServer[c], data)
           \/ SameOwner(client[c], client'[c]) /\ toServer' = toServer
    BY <1>4, ClientLeavesDoes
  <2>2. data \in ToServer
    BY MessagesAre DEF ClientSet, Screen
  <2>3. Grown(toServer[c], Append(toServer[c], data), data)
    BY <2>2, AppendGrows
  <2>4. CASE client'[c].last = local[c] /\ toServer'[c] = Append(toServer[c], data)
    BY <1>s, <2>3, <2>4
  <2>5. CASE SameOwner(client[c], client'[c]) /\ toServer' = toServer
    <3>1. Contents(toClient'[c]) = {} => Contents(toClient[c]) = {}
      BY <1>4, <1>r, ClientLeavesDoes DEF Reads
    <3> QED
      BY <1>4, <1>k, <1>0, <2>1, <2>5, <3>1 DEF Sent, SameOwner
  <2> QED
    BY <2>1, <2>4, <2>5
<1>5. CASE c \in linked /\ ClientLosesClipboard(c)
  BY <1>5, ClientLosesDoes DEF SentIs, Sent
<1>6. CASE c \in linked /\ ServerReceives(c)
  <2> DEFINE m == Head(toServer[c])
             e == Posted(c, m)
             s == toServer[c]
             s2 == toServer'[c]
  <2>1. /\ client' = client
        /\ Shrunk(s, s2, m) /\ Grown(events, events', e)
        /\ s # <<>> /\ s2 \in Seq(ToServer)
        /\ m.type = "data" => held'[c] = m.data
    BY <1>6, ServerReceivesDoes
  <2>2. e.from = c /\ (m.type = "data" => e.type = "changed")
    BY DEF Posted, Event
  <2> HIDE DEF m, e, s, s2
  <2> SUFFICES ASSUME Sent(c)
               PROVE  /\ s2 # <<>> => LastOf(s2).type = "data" /\ LastOf(s2).data = client[c].last
                      /\ s2 = <<>> =>
                             /\ held'[c] = client[c].last
                             /\ \A i \in DOMAIN events' : IsLast(events', c, i) => events'[i].type = "changed"
    BY <2>1 DEF SentIs, Sent, s2
  <2>3. LastOf(s).type = "data" /\ LastOf(s).data = client[c].last
    BY <1>6, <2>1 DEF SentIs, s
  <2>4. CASE s2 # <<>>
    BY <2>1, <2>3, <2>4, ShrunkMessages
  <2>5. CASE s2 = <<>>
    <3>1. m.type = "data" /\ m.data = client[c].last
      BY <2>1, <2>3, <2>5, ShrunkMessages
    <3>2. \A i \in DOMAIN events' : IsLast(events', c, i) => events'[i] = e
      BY <2>1, <2>2, GrownLast
    <3> QED
      BY <2>1, <2>2, <2>5, <3>1, <3>2
  <2> QED
    BY <2>4, <2>5
<1>h. ASSUME NEW e, Handles(e) PROVE SameEvents(events, events', c, 1)
  BY <1>h, EventsAreTheSame DEF Handles
<1>7. CASE ClipboardGrabbed
  <2>1. /\ UNCHANGED <<linked, toServer, client, held>> /\ Handles(Head(events))
        /\ toClient'[c] = toClient[c] \/ Grown(toClient[c], toClient'[c], Grab(0))
    BY <1>7, ClipboardGrabbedDoes
  <2>2. Contents(toClient'[c]) = {} => Contents(toClient[c]) = {}
    BY <2>1, GrownBrings, KindsAre
  <2>3. SameEvents(events, events', c, 1) /\ c \in linked
    BY <1>h, <2>1
  <2>4. /\ Sent(c)' => Sent(c) /\ client'[c].last = client[c].last
        /\ Contents(toClient'[c]) = {} => Contents(toClient[c]) = {} /\ held'[c] = held[c]
    BY <2>1, <2>2 DEF Sent
  <2> QED
    BY <1>k, <2>1, <2>3, <2>4
<1>8. CASE ClipboardChanged
  <2>1. /\ UNCHANGED <<linked, toServer, client>> /\ Handles(Head(events))
        /\ toClient' = toClient \/ \E v : Given(active, v)
    BY <1>8, ClipboardChangedDoes
  <2>2. ASSUME Contents(toClient'[c]) = {} PROVE Contents(toClient[c]) = {} /\ held'[c] = held[c]
    <3>1. ASSUME NEW v, Given(active, v) PROVE Contents(toClient[c]) = {}
      <4>1. c # active \/ Grown(toClient[c], toClient'[c], Data(0, v))
        BY <3>1 DEF Given
      <4>2. c # active
        BY <2>2, <4>1, GrownBrings, KindsAre
      <4> QED
        BY <2>2, <3>1, <4>2, ClipboardAssumption DEF Given, Screen
    <3> QED
      BY <1>8, <2>1, <2>2, <3>1, HeldOrTold
  <2>3. SameEvents(events, events', c, 1) /\ c \in linked
    BY <1>h, <2>1
  <2>4. /\ Sent(c)' => Sent(c) /\ client'[c].last = client[c].last
        /\ Contents(toClient'[c]) = {} => Contents(toClient[c]) = {} /\ held'[c] = held[c]
    BY <2>1, <2>2 DEF Sent
  <2> QED
    BY <1>k, <2>1, <2>3, <2>4
<1>9. ASSUME NEW dst \in Screen, SwitchScreen(dst) PROVE SentIs(c)'
  <2>1. UNCHANGED <<linked, events, toServer, client>>
    BY <1>9, SwitchScreenDoes
  <2>2. Contents(toClient'[c]) = {} => Contents(toClient[c]) = {}
    BY <1>9, SwitchedBrings
  <2>3. Contents(toClient'[c]) = {} => held'[c] = held[c]
    BY <1>9, HeldOrTold
  <2> QED
    BY <1>0, <1>k, <2>1, <2>2, <2>3 DEF Sent
<1>10. CASE Connect(c)
  BY <1>10, NewcomersAreFresh DEF SentIs, Sent
<1> QED
  BY <1>1, <1>2, <1>3, <1>4, <1>5, <1>6, <1>7, <1>8, <1>9, <1>10, StepsOfOne

Takeable(c) == c = clipboard.owner /\ Sent(c) /\ ~Stale(c) /\ Contents(toClient[c]) = {}

TakenIs(c) ==
    Takeable(c) =>
        /\ toServer[c] # <<>> => clipboard.seq =< LastOf(toServer[c]).seq
        /\ toServer[c] = <<>> =>
               /\ \A i \in DOMAIN events : IsLast(events, c, i) => clipboard.seq =< events[i].seq
               /\ NoneFrom(events, c) => clipboard.data = held[c]

LEMMA TakenIsStep ==
    ASSUME TypeOK, Linkage, Next, NEW c \in Client, c \in linked',
           c \in linked => Ordered(c) /\ StaleIsTold(c) /\ SentIs(c) /\ TakenIs(c)
    PROVE  TakenIs(c)'
<1> USE TypesAre DEF Types
<1>n. client[c].seq \in Nat /\ clipboard.seq \in Nat
  BY NumbersAre
<1>0. SameEvents(events, events, c, 0)
  <2>1. \A i \in DOMAIN events : i \in Nat /\ i + 0 = i /\ i - 0 = i
    BY LenProperties
  <2> QED
    BY <2>1 DEF SameEvents
\* Nothing was sent, no event of c was added or dispatched.
<1>k. ASSUME c \in linked, Takeable(c)' => Takeable(c),
             c = clipboard.owner => clipboard'.seq = clipboard.seq /\ clipboard'.data = clipboard.data,
             toServer'[c] = toServer[c], Takeable(c)' => held'[c] = held[c],
             NEW k \in {0, 1}, SameEvents(events, events', c, k), k = 1 => events[1].from # c
      PROVE  TakenIs(c)'
  <2> SUFFICES ASSUME Takeable(c)'
               PROVE  /\ toServer[c] # <<>> => clipboard.seq =< LastOf(toServer[c]).seq
                      /\ toServer[c] = <<>> =>
                             /\ \A i \in DOMAIN events' : IsLast(events', c, i) => clipboard.seq =< events'[i].seq
                             /\ NoneFrom(events', c) => clipboard.data = held[c]
    BY <1>k DEF TakenIs, Takeable
  <2>1. Takeable(c)
    BY <1>k
  <2>2. ASSUME NoneFrom(events', c) PROVE NoneFrom(events, c)
    <3>1. \A i \in DOMAIN events : events[i].from = c => ~(i > k)
      BY <1>k, <2>2, SameLast
    <3>2. \A i \in DOMAIN events : i \in Nat /\ i >= 1
      BY LenProperties
    <3> QED
      BY <1>k, <3>1, <3>2 DEF NoneFrom
  <2>3. \A i \in DOMAIN events' : IsLast(events', c, i) => IsLast(events, c, i + k) /\ events[i + k] = events'[i]
    BY <1>k, SameLast
  <2>4. \A j : IsLast(events, c, j) => j \in DOMAIN events
    BY DEF IsLast
  <2> QED
    BY <1>k, <2>1, <2>2, <2>3, <2>4 DEF TakenIs
\* The data were sent.
<1>s. ASSUME c \in linked, NEW s, Grown(s, toServer'[c], Data(client[c].seq, local[c])),
             UNCHANGED clipboard, client'[c].seq = client[c].seq
      PROVE  TakenIs(c)'
  <2>1. toServer'[c] # <<>> /\ LastOf(toServer'[c]) = Data(client[c].seq, local[c])
    BY <1>s, GrownMessages
  <2>2. Data(client[c].seq, local[c]).seq = client[c].seq
    BY DEF Data
  <2>3. Takeable(c)' => clipboard.seq =< client[c].seq
    BY <1>n, <1>s DEF Takeable, Stale
  <2> QED
    BY <1>s, <2>1, <2>2, <2>3 DEF TakenIs
<1>1. CASE Bystander(c)
  <2>1. Takeable(c)' => Takeable(c)
    BY <1>1 DEF Bystander, Takeable, Sent, SameOwner, Stale
  <2> QED
    BY <1>1, <1>k, <2>1 DEF Bystander
<1>2. CASE c \in linked /\ ClientGrabbed(c)
  <2> DEFINE grab == Grab(client[c].seq)
             data == Data(client[c].seq, local[c])
             one == Append(toServer[c], grab)
  <2>1. /\ \/ ~client'[c].sent
           \/ client'[c].last = local[c] /\ toServer'[c] = Append(one, data)
        /\ UNCHANGED clipboard /\ client'[c].seq = client[c].seq
    BY <1>2, ClientGrabbedDoes DEF SamePlace
  <2>2. grab \in ToServer /\ data \in ToServer
    BY MessagesAre DEF ClientSet, Screen
  <2>3. Grown(one, Append(one, data), data)
    BY <2>2, AppendGrows
  <2> HIDE DEF one
  <2> QED
    BY <1>2, <1>s, <2>1, <2>3 DEF TakenIs, Takeable, Sent
<1>3. CASE c \in linked /\ ClientEnters(c)
  <2> DEFINE m == Head(toClient[c])
             t == toClient[c]
             t2 == toClient'[c]
  <2>1. UNCHANGED <<events, toServer, held, clipboard, dirty>> /\ SameOwner(client[c], client'[c])
        /\ Shrunk(t, t2, m) /\ m.type = "enter"
    BY <1>3, ClientEntersDoes DEF Reads
  <2> HIDE DEF t, t2, m
  <2>2. ~Brought(m)
    BY <2>1 DEF Brought
  <2>3. Contents(t2) = {} => Contents(t) = {} /\ ~Told(t) /\ ~NoEnter(t)
    BY <2>1, <2>2, ShrunkBrings, ShrunkTold
  <2>4. Takeable(c)' => Takeable(c)
    BY <1>3, <2>1, <2>3 DEF Takeable, Sent, SameOwner, StaleIsTold, t, t2
  <2> QED
    BY <1>3, <1>0, <1>k, <2>1, <2>4
<1>4. CASE c \in linked /\ ClientLeaves(c)
  <2> DEFINE data == Data(client[c].seq, local[c])
             m == Head(toClient[c])
             t == toClient[c]
             t2 == toClient'[c]
  <2>1. /\ UNCHANGED <<events, held, clipboard>> /\ client'[c].seq = client[c].seq
        /\ Shrunk(t, t2, m) /\ m.type = "leave"
        /\ \/ client'[c].last = local[c] /\ toServer'[c] = Append(toServer[c], data)
           \/ SameOwner(client[c], client'[c]) /\ toServer' = toServer
    BY <1>4, ClientLeavesDoes DEF Reads
  <2>2. data \in ToServer
    BY MessagesAre DEF ClientSet, Screen
  <2>3. Grown(toServer[c], Append(toServer[c], data), data)
    BY <2>2, AppendGrows
  <2>4. CASE client'[c].last = local[c] /\ toServer'[c] = Append(toServer[c], data)
    BY <1>4, <1>s, <2>1, <2>3, <2>4
  <2>5. CASE SameOwner(client[c], client'[c]) /\ toServer' = toServer
    <3> HIDE DEF t, t2, m
    <3>1. Contents(t2) = {} => Contents(t) = {}
      BY <2>1, ShrunkBrings DEF Brought
    <3>2. Takeable(c)' => Takeable(c)
      BY <1>4, <2>1, <2>5, <3>1 DEF Takeable, Sent, SameOwner, Stale, t, t2
    <3> QED
      BY <1>4, <1>0, <1>k, <2>1, <2>5, <3>2
  <2> QED
    BY <2>1, <2>4, <2>5
<1>5. CASE c \in linked /\ ClientLosesClipboard(c)
  BY <1>5, ClientLosesDoes DEF TakenIs, Takeable, Sent
<1>6. CASE c \in linked /\ ServerReceives(c)
  <2> DEFINE m == Head(toServer[c])
             e == Posted(c, m)
             s == toServer[c]
             s2 == toServer'[c]
  <2>1. /\ UNCHANGED <<client, clipboard, toClient>>
        /\ Shrunk(s, s2, m) /\ Grown(events, events', e)
        /\ s # <<>> /\ s2 \in Seq(ToServer)
    BY <1>6, ServerReceivesDoes
  <2>2. e.from = c /\ e.seq = m.seq
    BY DEF Posted, Event
  <2> HIDE DEF m, e, s, s2
  <2> SUFFICES ASSUME Takeable(c)
               PROVE  /\ s2 # <<>> => clipboard.seq =< LastOf(s2).seq
                      /\ s2 = <<>> =>
                             /\ \A i \in DOMAIN events' : IsLast(events', c, i) => clipboard.seq =< events'[i].seq
                             /\ ~NoneFrom(events', c)
    BY <2>1 DEF TakenIs, Takeable, Sent, Stale, s2
  <2>3. clipboard.seq =< LastOf(s).seq
    BY <1>6, <2>1 DEF TakenIs, s
  <2>4. CASE s2 # <<>>
    BY <2>1, <2>3, <2>4, ShrunkMessages
  <2>5. CASE s2 = <<>>
    <3>1. clipboard.seq =< m.seq
      BY <2>1, <2>3, <2>5, ShrunkMessages
    <3>2. \A i \in DOMAIN events' : IsLast(events', c, i) => events'[i] = e
      BY <2>1, <2>2, GrownLast
    <3>3. ~NoneFrom(events', c)
      BY <2>1, <2>2, GrownLast
    <3> QED
      BY <2>2, <2>5, <3>1, <3>2, <3>3
  <2> QED
    BY <2>4, <2>5
\* An event of another is dispatched.
<1>h. ASSUME NEW e, Handles(e) PROVE SameEvents(events, events', c, 1) /\ events[1] = e
  BY <1>h, EventsAreTheSame DEF Handles
\* An event of c is dispatched, and the owner is c.
<1>e. ASSUME c \in linked, NEW e, Handles(e), e.from = c, UNCHANGED <<toServer, client>>,
             Sent(c)
      PROVE  /\ toServer[c] # <<>> => e.seq =< LastOf(toServer[c]).seq
             /\ toServer[c] = <<>> =>
                    /\ \A i \in DOMAIN events' : IsLast(events', c, i) =>
                           /\ e.seq =< events'[i].seq
                           /\ IsLast(events, c, i + 1) /\ events[i + 1] = events'[i]
                    /\ NoneFrom(events', c) => IsLast(events, c, 1) /\ e.type = "changed"
  <2>1. ASSUME toServer[c] # <<>> PROVE e.seq =< LastOf(toServer[c]).seq
    <3>1. Len(toServer[c]) \in DOMAIN toServer[c]
      BY <2>1, EmptySeq, LenProperties
    <3> QED
      BY <1>e, <3>1 DEF Handles, Ordered, EventsBefore, EventsBelow, LastOf
  <2>2. ASSUME NEW i \in DOMAIN events', IsLast(events', c, i)
        PROVE  IsLast(events, c, i + 1) /\ events[i + 1] = events'[i] /\ e.seq =< events'[i].seq
    <3>0. Shrunk(events, events', e)
      BY <1>e DEF Handles
    <3>1. IsLast(events, c, i + 1) /\ events[i + 1] = events'[i]
      BY <2>2, <3>0, ShrunkLast
    <3>2. i \in Nat /\ i >= 1 /\ 1 < i + 1
      BY <1>e, <2>2 DEF Handles, Shrunk
    <3>3. i + 1 \in DOMAIN events /\ events[i + 1].from = c
      BY <3>1 DEF IsLast
    <3> QED
      BY <1>e, <3>1, <3>2, <3>3 DEF Handles, Ordered, EventsOrdered
  <2>3. ASSUME toServer[c] = <<>>, NoneFrom(events', c) PROVE IsLast(events, c, 1) /\ e.type = "changed"
    <3>1. IsLast(events, c, 1) /\ events[1] = e
      BY <1>e, <2>3, ShrunkLast DEF Handles
    <3> QED
      BY <1>e, <2>3, <3>1 DEF SentIs, Handles
  <2> QED
    BY <2>1, <2>2, <2>3
<1>7. CASE ClipboardGrabbed
  <2> DEFINE e == Head(events)
  <2>1. /\ UNCHANGED <<linked, toServer, client, held>> /\ Handles(e) /\ c \in linked /\ e.type = "grabbed"
        /\ \/ UNCHANGED <<clipboard, toClient>>
           \/ /\ clipboard' = [owner |-> e.from, seq |-> e.seq, data |-> Nothing]
              /\ e.from = c => toClient'[c] = toClient[c]
    BY <1>7, ClipboardGrabbedDoes
  <2> HIDE DEF e
  <2>2. CASE UNCHANGED <<clipboard, toClient>>
    <3>1. Takeable(c)' => Takeable(c)
      BY <2>1, <2>2 DEF Takeable, Sent, Stale
    <3>2. CASE e.from # c
      BY <1>h, <1>k, <2>1, <2>2, <3>1, <3>2
    <3>3. CASE e.from = c
      <4> SUFFICES ASSUME Takeable(c) PROVE TakenIs(c)'
        BY <3>1 DEF TakenIs
      <4>1. /\ toServer[c] = <<>> => ~NoneFrom(events', c)
            /\ toServer[c] = <<>> => \A i \in DOMAIN events' : IsLast(events', c, i) =>
                   IsLast(events, c, i + 1) /\ events[i + 1] = events'[i]
        BY <1>e, <2>1, <3>3 DEF Takeable
      <4>2. \A j : IsLast(events, c, j) => j \in DOMAIN events
        BY DEF IsLast
      <4> QED
        BY <2>1, <2>2, <4>1, <4>2 DEF TakenIs
    <3> QED
      BY <3>2, <3>3
  <2>3. CASE /\ clipboard' = [owner |-> e.from, seq |-> e.seq, data |-> Nothing]
             /\ e.from = c => toClient'[c] = toClient[c]
    <3> SUFFICES ASSUME Takeable(c)' PROVE TakenIs(c)'
      BY DEF TakenIs
    <3>1. e.from = c /\ Sent(c) /\ clipboard'.seq = e.seq
      BY <2>1, <2>3 DEF Takeable, Sent
    <3>2. /\ toServer[c] # <<>> => e.seq =< LastOf(toServer[c]).seq
          /\ toServer[c] = <<>> =>
                 /\ \A i \in DOMAIN events' : IsLast(events', c, i) => e.seq =< events'[i].seq
                 /\ ~NoneFrom(events', c)
      BY <1>e, <2>1, <3>1
    <3> QED
      BY <2>1, <3>1, <3>2 DEF TakenIs
  <2> QED
    BY <2>1, <2>2, <2>3
<1>8. CASE ClipboardChanged
  <2> DEFINE e == Head(events)
             new == held[e.from]
  <2>1. /\ UNCHANGED <<linked, toServer, client>> /\ Handles(e) /\ c \in linked
        /\ \/ UNCHANGED <<clipboard, toClient>>
           \/ /\ clipboard.owner = e.from /\ clipboard' = [clipboard EXCEPT !.data = new]
              /\ UNCHANGED toClient \/ (active # clipboard.owner /\ Given(active, new))
        /\ \/ e.seq >= clipboard.seq /\ clipboard.owner # e.from
           \/ e.seq < clipboard.seq
           \/ clipboard'.data = new
    BY <1>8, ClipboardChangedDoes
  <2>2. clipboard'.owner = clipboard.owner /\ clipboard'.seq = clipboard.seq
    BY <2>1
  <2>3. (Takeable(c)' => Takeable(c))
    <3> SUFFICES ASSUME Takeable(c)' PROVE Contents(toClient[c]) = {}
      BY <2>1, <2>2 DEF Takeable, Sent, Stale
    <3>1. CASE UNCHANGED toClient
      BY <3>1 DEF Takeable
    <3>2. CASE active # clipboard.owner /\ Given(active, new)
      <4>1. c # active
        BY <2>2, <3>2 DEF Takeable
      <4>2. toClient'[c] = toClient[c]
        BY <3>2, <4>1 DEF Given, Screen
      <4> QED
        BY <4>2 DEF Takeable
    <3> QED
      BY <2>1, <3>1, <3>2
  <2>3a. Takeable(c)' => held'[c] = held[c]
    BY <1>8, HeldOrTold DEF Takeable
  <2> HIDE DEF e, new
  <2>4. CASE e.from # c
    <3>1. c = clipboard.owner => clipboard'.data = clipboard.data
      BY <2>1, <2>4
    <3> QED
      BY <1>h, <1>k, <2>1, <2>2, <2>3, <2>3a, <2>4, <3>1
  <2>5. CASE e.from = c
    <3> SUFFICES ASSUME Takeable(c), c = clipboard.owner, held'[c] = held[c] PROVE TakenIs(c)'
      BY <2>3, <2>3a DEF TakenIs, Takeable
    <3>1. ASSUME toServer[c] = <<>> PROVE \A i \in DOMAIN events' : IsLast(events', c, i) => clipboard.seq =< events'[i].seq
      <4>1. \A i \in DOMAIN events' : IsLast(events', c, i) =>
                   IsLast(events, c, i + 1) /\ events[i + 1] = events'[i]
        BY <1>e, <2>1, <2>5, <3>1 DEF Takeable
      <4>2. \A j : IsLast(events, c, j) => j \in DOMAIN events
        BY DEF IsLast
      <4> QED
        BY <2>1, <3>1, <4>1, <4>2 DEF TakenIs
    <3>2. ASSUME toServer[c] = <<>>, NoneFrom(events', c) PROVE clipboard'.data = held[c]
      <4>1. IsLast(events, c, 1) /\ events[1] = e /\ 1 \in DOMAIN events
        BY <1>e, <2>1, <2>5, <3>2 DEF Takeable, Handles
      <4>2. clipboard.seq =< e.seq /\ e.seq \in Nat
        BY <2>1, <3>2, <4>1 DEF TakenIs, Handles, Seqs
      <4>3. clipboard'.data = new
        BY <1>n, <2>1, <2>5, <4>2
      <4> QED
        BY <2>5, <4>3 DEF new
    <3>3. toServer[c] # <<>> => clipboard.seq =< LastOf(toServer[c]).seq
      BY <2>1 DEF TakenIs
    <3> QED
      BY <2>1, <2>2, <3>1, <3>2, <3>3 DEF TakenIs
  <2> QED
    BY <2>4, <2>5
<1>9. ASSUME NEW dst \in Screen, SwitchScreen(dst) PROVE TakenIs(c)'
  <2>1. /\ UNCHANGED <<linked, events, toServer, client>> /\ dst # active /\ c \in linked
        /\ clipboard' = [clipboard EXCEPT !.data = NewData]
        /\ \A d \in Client \ {active, dst} : toClient'[d] = toClient[d]
        /\ active \in Client => Grown(toClient[active], toClient'[active], Leave)
        /\ Entered(dst, NewData)
    BY <1>9, SwitchScreenDoes
  <2>2. /\ clipboard'.owner = clipboard.owner /\ clipboard'.seq = clipboard.seq
        /\ clipboard'.data = NewData /\ (clipboard.owner # Primary => NewData = clipboard.data)
    BY <2>1 DEF NewData, PrimaryUpdates
  <2>3. Contents(toClient'[c]) = {} => Contents(toClient[c]) = {}
    BY <1>9, SwitchedBrings
  <2>4. Takeable(c)' => Takeable(c)
    BY <2>1, <2>2, <2>3 DEF Takeable, Sent, Stale
  <2>5. Takeable(c)' => held'[c] = held[c]
    BY <1>9, HeldOrTold DEF Takeable
  <2> QED
    BY <1>0, <1>k, <2>1, <2>2, <2>4, <2>5, ClipboardAssumption
<1>10. CASE Connect(c)
  BY <1>10, NewcomersAreFresh DEF TakenIs, Takeable, Sent
<1> QED
  BY <1>1, <1>2, <1>3, <1>4, <1>5, <1>6, <1>7, <1>8, <1>9, <1>10, StepsOfOne

-----------------------------------------------------------------------------
(***************************************************************************)
(* A paste gets the latest.                                                *)
(***************************************************************************)
Delivery == \A c \in linked : Ordered(c) /\ StaleIsTold(c) /\ SentIs(c) /\ TakenIs(c)

PasteInv == AgreeInv /\ Delivery

LEMMA PasteStep == PasteInv /\ [Next]_vars => PasteInv'
<1>1. ASSUME PasteInv, Next PROVE PasteInv'
  <2>1. AgreeInv'
    BY <1>1, AgreeStep DEF PasteInv
  <2>2. linked' \subseteq Client
    BY <2>1, TypesAre DEF AgreeInv, Types
  <2>3. ASSUME NEW c \in linked' PROVE (Ordered(c) /\ StaleIsTold(c) /\ SentIs(c) /\ TakenIs(c))'
    BY <1>1, <2>2, <2>3, OrderedStep, StaleIsToldStep, SentIsStep, TakenIsStep DEF PasteInv, AgreeInv, Delivery
  <2> QED
    BY <2>1, <2>3 DEF PasteInv, Delivery
<1>2. ASSUME PasteInv, UNCHANGED vars PROVE PasteInv'
  <2>1. AgreeInv'
    BY <1>2, AgreeStep DEF PasteInv
  <2>2. UNCHANGED <<clipboard, linked, dirty, held, events, toClient, toServer, client>>
    BY <1>2 DEF vars, shared, proxies, wires
  <2>3. ASSUME NEW c \in linked PROVE (Ordered(c) /\ StaleIsTold(c) /\ SentIs(c) /\ TakenIs(c))'
    <3>1. Ordered(c) /\ StaleIsTold(c) /\ SentIs(c) /\ TakenIs(c)
      BY <1>2, <2>3 DEF PasteInv, Delivery
    <3>2. Ordered(c)' /\ StaleIsTold(c)'
      BY <2>2, <3>1 DEF Ordered, StaleIsTold, Stale
    <3>3. SentIs(c)' /\ TakenIs(c)'
      BY <2>2, <3>1 DEF SentIs, TakenIs, Takeable, Sent, Stale
    <3> QED
      BY <3>2, <3>3
  <2> QED
    BY <2>1, <2>2, <2>3 DEF PasteInv, Delivery
<1> QED
  BY <1>1, <1>2

LEMMA PasteEnough == PasteInv => PasteGetsLatest
<1> SUFFICES ASSUME PasteInv,
                    LET o == clipboard.owner
                    IN  /\ Quiet /\ ~fault
                        /\ o \in linked \ {active} /\ client[o].own /\ client[o].sent
                        /\ client[o].seq >= clipboard.seq
                        /\ ours[active]
                        /\ active = Primary => ~dirty[Primary]
             PROVE  local[active] = client[clipboard.owner].last
  BY DEF PasteGetsLatest
<1> DEFINE o == clipboard.owner
<1>1. /\ TypeOK /\ Linkage /\ UpToDate /\ o \in linked /\ o \in Client
      /\ Ordered(o) /\ SentIs(o) /\ TakenIs(o)
  BY TypesAre DEF PasteInv, AgreeInv, Delivery, Types
<1>2. /\ events = <<>> /\ toServer[o] = <<>> /\ toClient[o] = <<>>
      /\ active \in linked => toClient[active] = <<>>
  BY DEF Quiet
<1>3. DOMAIN events = {} /\ Contents(toClient[o]) = {}
  BY <1>2, NothingIn, NothingBrings
<1>4. client[o].seq \in Nat /\ clipboard.seq \in Nat
  BY <1>1, NumbersAre
<1>5. ~Stale(o)
  BY <1>4 DEF Stale
<1>6. held[o] = client[o].last
  BY <1>1, <1>2, <1>3 DEF SentIs, Sent
<1>7. clipboard.data = held[o]
  BY <1>1, <1>2, <1>3, <1>5 DEF TakenIs, Takeable, Sent, NoneFrom
<1>8. OnTheWay(active) = <<>>
  BY <1>1, <1>2 DEF OnTheWay, Linkage, Listed
<1>9. Brings(OnTheWay(active), local[active], clipboard.data)
  BY <1>1 DEF UpToDate, Clean, UntouchedBySomeone, Linkage
<1>10. local[active] = clipboard.data
  BY <1>8, <1>9, NothingBrings
<1> QED
  BY <1>6, <1>7, <1>10

\* When everything has arrived, pasting on the active screen gives what the
\* owner of the clipboard sent last, for any clients, contents and bounds.
THEOREM PasteAlwaysGetsLatest == Spec => []PasteGetsLatest
<1>1. Init => PasteInv
  BY AgreeInit DEF PasteInv, Delivery, Init
<1>2. PasteInv /\ [Next]_vars => PasteInv'
  BY PasteStep
<1>3. PasteInv => PasteGetsLatest
  BY PasteEnough
<1> QED
  BY <1>1, <1>2, <1>3, PTL DEF Spec

-----------------------------------------------------------------------------
(***************************************************************************)
(* A sequence number belongs to one screen: to the one that had the cursor *)
(* then.  Claims are the numbers that a client has, will get with an enter *)
(* or has sent.                                                            *)
(***************************************************************************)
EventWith(q, s, n) == \E i \in DOMAIN q : q[i].from = s /\ q[i].seq = n
MessageWith(s, n) == \E i \in DOMAIN s : s[i].seq = n
EnterWith(t, n) == \E i \in DOMAIN t : HasEnter(t, i) /\ t[i].seq = n

Claims(c, n) ==
    /\ n > 0
    /\ \/ n = client[c].seq \/ EnterWith(toClient[c], n)
       \/ MessageWith(toServer[c], n) \/ EventWith(events, c, n)

PrimaryClaims(n) == n > 0 /\ (n = primarySeq \/ EventWith(events, Primary, n))

Tenure ==
    /\ \A c, d \in linked : \A n \in Nat : Claims(c, n) /\ Claims(d, n) => c = d
    /\ \A c \in linked : \A n \in Nat : ~(Claims(c, n) /\ PrimaryClaims(n))
    /\ \A c \in linked : \A n \in Nat : Claims(c, n) /\ c # active => n < seqNum
    /\ \A c \in linked : \A n \in Nat : Claims(c, n) /\ n = clipboard.seq => c = clipboard.owner
    /\ active = Primary => primarySeq = seqNum

LEMMA ClaimsAreNumbers ==
    ASSUME TypeOK, NEW n
    PROVE  /\ \A c \in Client : Claims(c, n) => n \in Nat /\ n =< seqNum
           /\ PrimaryClaims(n) => n \in Nat /\ n =< seqNum
<1> USE TypesAre DEF Types
<1>1. \A m \in Seqs : m \in Nat /\ m =< seqNum
  BY ClipboardAssumption DEF Seqs
<1>2. ASSUME NEW s, EventWith(events, s, n) PROVE n \in Seqs
  <2>1. \A i \in DOMAIN events : events[i] \in EventSet
    BY ElementsAre
  <2> QED
    BY <1>2, <2>1 DEF EventWith, EventSet
<1>3. ASSUME NEW c \in Client, MessageWith(toServer[c], n) PROVE n \in Seqs
  <2>1. \A i \in DOMAIN toServer[c] : toServer[c][i] \in ToServer
    BY ElementsAre
  <2> QED
    BY <1>3, <2>1, MessagesAre DEF MessageWith
<1>4. ASSUME NEW c \in Client, EnterWith(toClient[c], n) PROVE n \in Nat /\ n =< seqNum
  BY <1>4, NumbersAre DEF EnterWith
<1>5. ASSUME NEW c \in Client PROVE client[c].seq \in Nat /\ client[c].seq =< seqNum
  BY NumbersAre
<1>6. primarySeq \in Seqs
  OBVIOUS
<1> QED
  BY <1>1, <1>2, <1>3, <1>4, <1>5, <1>6 DEF Claims, PrimaryClaims

\* What is in a sequence that has grown or shrunk was there before.
LEMMA GrownWith ==
    ASSUME NEW q, NEW p, NEW m, NEW n, Grown(q, p, m)
    PROVE  /\ MessageWith(p, n) => MessageWith(q, n) \/ m.seq = n
           /\ EnterWith(p, n) => EnterWith(q, n) \/ (m.type = "enter" /\ m.seq = n)
           /\ \A s : EventWith(p, s, n) => EventWith(q, s, n) \/ (m.from = s /\ m.seq = n)
<1>1. \A i \in DOMAIN p : (i \in DOMAIN q /\ p[i] = q[i]) \/ p[i] = m
  BY DEF Grown
<1> QED
  BY <1>1 DEF MessageWith, EnterWith, HasEnter, EventWith

LEMMA ShrunkWith ==
    ASSUME NEW q, NEW p, NEW m, NEW n, Shrunk(q, p, m)
    PROVE  /\ MessageWith(p, n) \/ m.seq = n => MessageWith(q, n)
           /\ EnterWith(p, n) \/ (m.type = "enter" /\ m.seq = n) => EnterWith(q, n)
           /\ \A s : EventWith(p, s, n) \/ (m.from = s /\ m.seq = n) => EventWith(q, s, n)
<1>1. /\ \A i \in DOMAIN p : i + 1 \in DOMAIN q /\ q[i + 1] = p[i]
      /\ 1 \in DOMAIN q /\ q[1] = m
  BY DEF Shrunk
<1> QED
  BY <1>1 DEF MessageWith, EnterWith, HasEnter, EventWith

LEMMA SameWith ==
    ASSUME NEW q, NEW p, NEW c, NEW k, NEW n, SameEvents(q, p, c, k)
    PROVE  EventWith(p, c, n) => EventWith(q, c, n)
BY DEF SameEvents, EventWith

\* A client gets a number when the cursor is sent to it, and in no other way.
LEMMA ClaimsStep ==
    ASSUME TypeOK, Linkage, Next, NEW c \in Client, c \in linked', NEW n, Claims(c, n)'
    PROVE  /\ c \in linked
           /\ Claims(c, n) \/ (n = seqNum + 1 /\ seqNum' = n /\ active' = c)
<1> USE TypesAre DEF Types
<1>n. /\ n > 0
      /\ \/ n = client'[c].seq \/ EnterWith(toClient'[c], n)
         \/ MessageWith(toServer'[c], n) \/ EventWith(events', c, n)
  BY DEF Claims
<1>w. ASSUME NEW q, NEW p, NEW m, Grown(q, p, m), MessageWith(p, n) PROVE MessageWith(q, n) \/ m.seq = n
  BY <1>w, GrownWith
<1>1. CASE Bystander(c)
  <2>1. EventWith(events', c, n) => EventWith(events, c, n)
    BY <1>1, SameWith DEF Bystander
  <2> QED
    BY <1>1, <1>n, <2>1 DEF Bystander, Claims
<1>2. CASE c \in linked /\ ClientGrabbed(c)
  <2> DEFINE grab == Grab(client[c].seq)
             data == Data(client[c].seq, local[c])
             one == Append(toServer[c], grab)
  <2>1. /\ UNCHANGED <<events, toClient>> /\ client'[c].seq = client[c].seq
        /\ toServer'[c] = one \/ toServer'[c] = Append(one, data)
    BY <1>2, ClientGrabbedDoes DEF SamePlace
  <2>2. /\ grab.seq = client[c].seq /\ data.seq = client[c].seq
        /\ grab \in ToServer /\ data \in ToServer
    BY MessagesAre DEF ClientSet, Screen, Grab, Data
  <2>3. Grown(toServer[c], one, grab) /\ Grown(one, Append(one, data), data)
    BY <2>2, AppendGrows
  <2> HIDE DEF grab, data, one
  <2>4. MessageWith(one, n) => MessageWith(toServer[c], n) \/ n = client[c].seq
    BY <1>w, <2>2, <2>3
  <2>5. MessageWith(Append(one, data), n) => MessageWith(one, n) \/ n = client[c].seq
    BY <1>w, <2>2, <2>3
  <2>6. MessageWith(toServer'[c], n) => MessageWith(toServer[c], n) \/ n = client[c].seq
    BY <2>1, <2>4, <2>5
  <2> QED
    BY <1>2, <1>n, <2>1, <2>6 DEF Claims
<1>3. CASE c \in linked /\ ClientEnters(c)
  <2>1. /\ UNCHANGED <<events, toServer>> /\ client'[c].seq = Head(toClient[c]).seq
        /\ Shrunk(toClient[c], toClient'[c], Head(toClient[c])) /\ Head(toClient[c]).type = "enter"
    BY <1>3, ClientEntersDoes DEF Reads
  <2>2. ASSUME NEW q, NEW p, NEW m, Shrunk(q, p, m), m.type = "enter", EnterWith(p, n) \/ m.seq = n
        PROVE  EnterWith(q, n)
    BY <2>2, ShrunkWith
  <2> QED
    BY <1>3, <1>n, <2>1, <2>2 DEF Claims
\* c reads something else.
<1>r. ASSUME Reads(c) PROVE EnterWith(toClient'[c], n) => EnterWith(toClient[c], n)
  BY <1>r, ShrunkWith DEF Reads
<1>4. CASE c \in linked /\ ClientLeaves(c)
  <2> DEFINE data == Data(client[c].seq, local[c])
  <2>1. /\ UNCHANGED events /\ Reads(c) /\ client'[c].seq = client[c].seq
        /\ toServer'[c] = toServer[c] \/ toServer'[c] = Append(toServer[c], data)
    BY <1>4, ClientLeavesDoes
  <2>2. data.seq = client[c].seq /\ data \in ToServer
    BY MessagesAre DEF ClientSet, Screen, Data
  <2>3. Grown(toServer[c], Append(toServer[c], data), data)
    BY <2>2, AppendGrows
  <2> HIDE DEF data
  <2>4. MessageWith(toServer'[c], n) => MessageWith(toServer[c], n) \/ n = client[c].seq
    BY <1>w, <2>1, <2>2, <2>3
  <2> QED
    BY <1>4, <1>n, <1>r, <2>1, <2>4 DEF Claims
<1>5. CASE c \in linked /\ ClientLosesClipboard(c)
  <2>1. UNCHANGED <<events, toServer>> /\ Reads(c) /\ client'[c].seq = client[c].seq
    BY <1>5, ClientLosesDoes DEF SamePlace
  <2> QED
    BY <1>5, <1>n, <1>r, <2>1 DEF Claims
<1>6. CASE c \in linked /\ ServerReceives(c)
  <2> DEFINE m == Head(toServer[c])
             e == Posted(c, m)
  <2>1. /\ UNCHANGED <<client, toClient>>
        /\ Shrunk(toServer[c], toServer'[c], m) /\ Grown(events, events', e)
    BY <1>6, ServerReceivesDoes
  <2>2. e.seq = m.seq
    BY DEF Posted, Event
  <2> HIDE DEF e, m
  <2>3. EventWith(events', c, n) => EventWith(events, c, n) \/ MessageWith(toServer[c], n)
    <3>1. EventWith(events', c, n) => EventWith(events, c, n) \/ e.seq = n
      BY <2>1, GrownWith
    <3>2. m.seq = n => MessageWith(toServer[c], n)
      BY <2>1, ShrunkWith
    <3> QED
      BY <2>2, <3>1, <3>2
  <2>4. MessageWith(toServer'[c], n) => MessageWith(toServer[c], n)
    BY <2>1, ShrunkWith
  <2> QED
    BY <1>6, <1>n, <2>1, <2>3, <2>4 DEF Claims
<1>h. ASSUME NEW e, Handles(e) PROVE EventWith(events', c, n) => EventWith(events, c, n)
  BY <1>h, ShrunkWith DEF Handles
<1>g. ASSUME NEW m, m.type # "enter", toClient'[c] = toClient[c] \/ Grown(toClient[c], toClient'[c], m)
      PROVE  EnterWith(toClient'[c], n) => EnterWith(toClient[c], n)
  BY <1>g, GrownWith
<1>7. CASE ClipboardGrabbed
  <2>1. /\ Handles(Head(events)) /\ UNCHANGED <<linked, toServer, client>> /\ c \in linked
        /\ toClient'[c] = toClient[c] \/ Grown(toClient[c], toClient'[c], Grab(0))
    BY <1>7, ClipboardGrabbedDoes
  <2>2. Grab(0).type # "enter"
    BY DEF Grab
  <2> QED
    BY <1>n, <1>h, <1>g, <2>1, <2>2 DEF Claims
<1>8. CASE ClipboardChanged
  <2> DEFINE new == held[Head(events).from]
  <2>1. /\ Handles(Head(events)) /\ UNCHANGED <<linked, toServer, client>> /\ c \in linked
        /\ toClient' = toClient \/ Given(active, new)
    BY <1>8, ClipboardChangedDoes
  <2>2. Data(0, new).type # "enter" /\ active \in Screen
    BY DEF Data
  <2> HIDE DEF new
  <2>3. toClient'[c] = toClient[c] \/ Grown(toClient[c], toClient'[c], Data(0, new))
    BY <2>1, <2>2 DEF Given, Screen
  <2> QED
    BY <1>n, <1>h, <1>g, <2>1, <2>2, <2>3 DEF Claims
<1>9. ASSUME NEW dst \in Screen, SwitchScreen(dst)
      PROVE  c \in linked /\ (Claims(c, n) \/ (n = seqNum + 1 /\ seqNum' = n /\ active' = c))
  <2> DEFINE enter == Enter(seqNum + 1)
  <2>1. /\ UNCHANGED <<linked, events, toServer, client>> /\ dst # active /\ c \in linked
        /\ active' = dst /\ seqNum' = seqNum + 1
        /\ \A d \in Client \ {active, dst} : toClient'[d] = toClient[d]
        /\ active \in Client => Grown(toClient[active], toClient'[active], Leave)
        /\ Entered(dst, NewData)
    BY <1>9, SwitchScreenDoes
  <2>2. EnterWith(toClient'[c], n) => EnterWith(toClient[c], n) \/ (c = dst /\ n = seqNum + 1)
    <3>1. CASE c # dst
      BY <1>g, <2>1, <3>1, KindsAre
    <3>2. CASE c = dst
      <4>1. enter.seq = seqNum + 1 /\ Data(0, NewData).type # "enter"
        BY DEF Enter, Data
      <4>2. ASSUME NEW q, Grown(toClient[c], q, enter), EnterWith(q, n)
            PROVE  EnterWith(toClient[c], n) \/ n = seqNum + 1
        BY <4>1, <4>2, GrownWith
      <4>3. ASSUME NEW q, Grown(q, toClient'[c], Data(0, NewData)), EnterWith(toClient'[c], n) PROVE EnterWith(q, n)
        BY <4>1, <4>3, GrownWith
      <4> HIDE DEF enter
      <4> QED
        BY <2>1, <3>2, <4>2, <4>3 DEF Entered, enter
    <3> QED
      BY <3>1, <3>2
  <2> QED
    BY <1>n, <2>1, <2>2 DEF Claims
<1>10. CASE Connect(c)
  <2>1. /\ toClient'[c] = <<>> /\ toServer'[c] = <<>> /\ client'[c].seq = 0
        /\ \A i \in DOMAIN events' : events'[i].from # c
    BY <1>10, NewcomersAreFresh
  <2>2. DOMAIN <<>> = {}
    BY NothingIn
  <2>3. n # 0
    BY <1>n
  <2> QED
    BY <1>n, <2>1, <2>2, <2>3 DEF EnterWith, MessageWith, EventWith
<1> QED
  BY <1>1, <1>2, <1>3, <1>4, <1>5, <1>6, <1>7, <1>8, <1>9, <1>10, StepsOfOne

\* The primary gets a number when the cursor comes home.
LEMMA PrimaryClaimsStep ==
    ASSUME TypeOK, Linkage, Next, NEW n, PrimaryClaims(n)'
    PROVE  PrimaryClaims(n) \/ (active' = Primary /\ primarySeq' = n)
<1> USE TypesAre DEF Types
<1>n. n > 0 /\ (n = primarySeq' \/ EventWith(events', Primary, n))
  BY DEF PrimaryClaims
<1>p. \A c \in Client : c # Primary
  BY ClipboardAssumption
<1>s. ASSUME primarySeq' = primarySeq, EventWith(events', Primary, n) => EventWith(events, Primary, n) \/ n = primarySeq
      PROVE  PrimaryClaims(n)
  BY <1>n, <1>s DEF PrimaryClaims
<1>h. ASSUME NEW e, Handles(e), primarySeq' = primarySeq PROVE PrimaryClaims(n)
  BY <1>h, <1>s, ShrunkWith DEF Handles
<1>1. ASSUME NEW s \in Screen, NEW v \in Value, Copy(s, v) PROVE PrimaryClaims(n)
  <2> DEFINE e == Event("grabbed", Primary, primarySeq)
  <2>1. primarySeq' = primarySeq /\ (events' = events \/ events' = Append(events, e))
    BY <1>1, CopyDoes
  <2>2. e \in EventSet /\ e.seq = primarySeq
    BY MessagesAre DEF Event
  <2>3. Grown(events, Append(events, e), e)
    BY <2>2, AppendGrows
  <2> HIDE DEF e
  <2>4. ASSUME NEW p, Grown(events, p, e), EventWith(p, Primary, n) PROVE EventWith(events, Primary, n) \/ n = primarySeq
    BY <2>2, <2>4, GrownWith
  <2> QED
    BY <1>s, <2>1, <2>3, <2>4
<1>2. ASSUME NEW s \in Screen, NEW v \in Value, UserCopies(s, v) \/ ProgramCopies(s, v) PROVE PrimaryClaims(n)
  BY <1>1, <1>2 DEF UserCopies, ProgramCopies
<1>3. ASSUME NEW c \in Client, ClientGrabbed(c) PROVE PrimaryClaims(n)
  BY <1>3, <1>s, ClientGrabbedDoes
<1>4. ASSUME NEW c \in Client, ClientEnters(c) PROVE PrimaryClaims(n)
  BY <1>4, <1>s, ClientEntersDoes
<1>5. ASSUME NEW c \in Client, ClientLeaves(c) PROVE PrimaryClaims(n)
  BY <1>5, <1>s, ClientLeavesDoes
<1>6. ASSUME NEW c \in Client, ClientLosesClipboard(c) PROVE PrimaryClaims(n)
  BY <1>6, <1>s, ClientLosesDoes
<1>7. ASSUME NEW c \in Client, ServerReceives(c) PROVE PrimaryClaims(n)
  <2> DEFINE e == Posted(c, Head(toServer[c]))
  <2>1. primarySeq' = primarySeq /\ Grown(events, events', e)
    BY <1>7, ServerReceivesDoes
  <2>2. e.from # Primary
    BY <1>p DEF Posted, Event
  <2> HIDE DEF e
  <2>3. EventWith(events', Primary, n) => EventWith(events, Primary, n)
    BY <2>1, <2>2, GrownWith
  <2> QED
    BY <1>s, <2>1, <2>3
<1>8. ASSUME NEW c \in Client, Connect(c) PROVE PrimaryClaims(n)
  BY <1>8, <1>s, ConnectDoes
<1>9. ASSUME NEW c \in Client, Disconnect(c)
      PROVE  PrimaryClaims(n) \/ (active' = Primary /\ primarySeq' = n)
  <2>1. /\ Masked(events, events', c)
        /\ (active' = Primary /\ primarySeq' = seqNum) \/ primarySeq' = primarySeq
    BY <1>9, DisconnectDoes
  <2>2. EventWith(events', Primary, n) => EventWith(events, Primary, n)
    <3>1. Orphan.seq # n
      BY <1>n DEF Orphan, Event
    <3>2. ASSUME NEW i \in DOMAIN events', events'[i].seq = n PROVE i \in DOMAIN events /\ events'[i] = events[i]
      BY <2>1, <3>1, <3>2 DEF Masked
    <3> QED
      BY <3>2 DEF EventWith
  <2> QED
    BY <1>n, <2>1, <2>2 DEF PrimaryClaims
<1>10. CASE ClipboardGrabbed
  BY <1>10, <1>h, ClipboardGrabbedDoes
<1>11. CASE ClipboardChanged
  BY <1>11, <1>h, ClipboardChangedDoes
<1>12. CASE Dropped
  BY <1>12, <1>h, DroppedDoes
<1>13. ASSUME NEW dst \in Screen, SwitchScreen(dst)
       PROVE  PrimaryClaims(n) \/ (active' = Primary /\ primarySeq' = n)
  <2>1. /\ events' = events /\ active' = dst
        /\ (dst # Primary /\ primarySeq' = primarySeq) \/ dst = Primary
    BY <1>13, SwitchScreenDoes
  <2> QED
    BY <1>n, <2>1 DEF PrimaryClaims
<1> QED
  BY <1>2, <1>3, <1>4, <1>5, <1>6, <1>7, <1>8, <1>9, <1>10, <1>11, <1>12, <1>13 DEF Next

\* The cursor moves with a new number, or comes home without one from a client
\* that has gone.
LEMMA CursorMoves ==
    ASSUME TypeOK, Linkage, Next
    PROVE  \/ UNCHANGED <<active, seqNum, primarySeq>>
           \/ /\ active' # active /\ active' \in Listed /\ seqNum' = seqNum + 1 /\ linked' = linked
              /\ primarySeq' = IF active' = Primary THEN seqNum + 1 ELSE primarySeq
           \/ /\ active \notin linked' /\ active # Primary /\ active' = Primary
              /\ primarySeq' = seqNum /\ seqNum' = seqNum
<1> DEFINE Stays == UNCHANGED <<active, seqNum, primarySeq>>
<1>1. ASSUME NEW s \in Screen, NEW v \in Value, UserCopies(s, v) \/ ProgramCopies(s, v) PROVE Stays
  <2>1. Copy(s, v)
    BY <1>1 DEF UserCopies, ProgramCopies
  <2> QED
    BY <2>1, CopyDoes
<1>2. ASSUME NEW c \in Client, ClientGrabbed(c) PROVE Stays
  BY <1>2, ClientGrabbedDoes
<1>3. ASSUME NEW c \in Client, ClientEnters(c) PROVE Stays
  BY <1>3, ClientEntersDoes
<1>4. ASSUME NEW c \in Client, ClientLeaves(c) PROVE Stays
  BY <1>4, ClientLeavesDoes
<1>5. ASSUME NEW c \in Client, ClientLosesClipboard(c) PROVE Stays
  BY <1>5, ClientLosesDoes
<1>6. ASSUME NEW c \in Client, ServerReceives(c) PROVE Stays
  BY <1>6, ServerReceivesDoes
<1>7. ASSUME NEW c \in Client, Connect(c) PROVE Stays
  BY <1>7, ConnectDoes
<1>8. ASSUME NEW c \in Client, Disconnect(c)
      PROVE  \/ Stays
             \/ /\ active \notin linked' /\ active # Primary /\ active' = Primary
                /\ primarySeq' = seqNum /\ seqNum' = seqNum
  BY <1>8, DisconnectDoes, ClipboardAssumption
<1>9. CASE ClipboardGrabbed
  BY <1>9, ClipboardGrabbedDoes
<1>10. CASE ClipboardChanged
  BY <1>10, ClipboardChangedDoes
<1>11. CASE Dropped
  BY <1>11, DroppedDoes
<1>12. ASSUME NEW dst \in Screen, SwitchScreen(dst)
       PROVE  /\ active' # active /\ active' \in Listed /\ seqNum' = seqNum + 1 /\ linked' = linked
              /\ primarySeq' = IF active' = Primary THEN seqNum + 1 ELSE primarySeq
  BY <1>12, SwitchScreenDoes
<1> QED
  BY <1>1, <1>2, <1>3, <1>4, <1>5, <1>6, <1>7, <1>8, <1>9, <1>10, <1>11, <1>12 DEF Next

\* The clipboard gets another owner only by a grab that counts.
Taken(e) ==
    /\ ClipboardGrabbed /\ Handles(e) /\ AcceptsGrab(e) /\ e.type = "grabbed"
    /\ clipboard'.owner = e.from /\ clipboard'.seq = e.seq
    /\ UNCHANGED <<active, seqNum, linked, client, toServer, away>>

LEMMA OwnerStep ==
    ASSUME TypeOK, Linkage, Next
    PROVE  \/ clipboard'.owner = clipboard.owner /\ clipboard'.seq = clipboard.seq
           \/ Taken(Head(events))
<1> USE TypesAre DEF Types
<1> DEFINE Same == clipboard'.owner = clipboard.owner /\ clipboard'.seq = clipboard.seq
<1>1. ASSUME NEW s \in Screen, NEW v \in Value, UserCopies(s, v) \/ ProgramCopies(s, v) PROVE Same
  <2>1. Copy(s, v)
    BY <1>1 DEF UserCopies, ProgramCopies
  <2> QED
    BY <2>1, CopyDoes
<1>2. ASSUME NEW c \in Client, ClientGrabbed(c) PROVE Same
  BY <1>2, ClientGrabbedDoes
<1>3. ASSUME NEW c \in Client, ClientEnters(c) PROVE Same
  BY <1>3, ClientEntersDoes
<1>4. ASSUME NEW c \in Client, ClientLeaves(c) PROVE Same
  BY <1>4, ClientLeavesDoes
<1>5. ASSUME NEW c \in Client, ClientLosesClipboard(c) PROVE Same
  BY <1>5, ClientLosesDoes
<1>6. ASSUME NEW c \in Client, ServerReceives(c) PROVE Same
  BY <1>6, ServerReceivesDoes
<1>7. ASSUME NEW c \in Client, Connect(c) PROVE Same
  BY <1>7, ConnectDoes
<1>8. ASSUME NEW c \in Client, Disconnect(c) PROVE Same
  BY <1>8, DisconnectDoes
<1>9. CASE ClipboardGrabbed
  BY <1>9, ClipboardGrabbedDoes DEF Taken
<1>10. CASE ClipboardChanged
  BY <1>10, ClipboardChangedDoes
<1>11. CASE Dropped
  BY <1>11, DroppedDoes
<1>12. ASSUME NEW dst \in Screen, SwitchScreen(dst) PROVE Same
  BY <1>12, SwitchScreenDoes
<1> QED
  BY <1>1, <1>2, <1>3, <1>4, <1>5, <1>6, <1>7, <1>8, <1>9, <1>10, <1>11, <1>12 DEF Next

LEMMA TenureStep ==
    ASSUME TypeOK, Linkage, Tenure, Next
    PROVE  Tenure'
<1>t. /\ linked \subseteq Client /\ linked' \subseteq Client /\ seqNum \in Nat /\ clipboard.seq \in Nat
      /\ clipboard.seq =< seqNum /\ Primary \notin Client
  <2>1. TypeOK'
    BY TypeStep
  <2>2. seqNum \in Nat /\ clipboard.seq \in Seqs /\ linked \subseteq Client /\ linked' \subseteq Client
    BY <2>1, TypesAre, ClipboardAssumption DEF Types, Seqs
  <2> QED
    BY <2>2, ClipboardAssumption DEF Seqs
\* A client that has got a number now.
<1> DEFINE New(c, n) == n = seqNum + 1 /\ seqNum' = n /\ active' = c
<1>1. \A c \in linked', n \in Nat : Claims(c, n)' => c \in linked /\ (Claims(c, n) \/ New(c, n))
  BY <1>t, ClaimsStep
<1>2. \A c \in linked, n \in Nat : Claims(c, n) => n =< seqNum
  BY <1>t, ClaimsAreNumbers
<1>3. ASSUME NEW c \in linked', NEW d \in linked', NEW n \in Nat, Claims(c, n)', Claims(d, n)'
      PROVE  c = d
  <2>1. n = seqNum + 1 => ~Claims(c, n) /\ ~Claims(d, n)
    BY <1>1, <1>2, <1>3, <1>t
  <2> QED
    BY <1>1, <1>3, <2>1 DEF Tenure
<1>4. ASSUME NEW c \in linked', NEW n \in Nat, Claims(c, n)', PrimaryClaims(n)' PROVE FALSE
  <2>1. PrimaryClaims(n) \/ (active' = Primary /\ primarySeq' = n)
    BY <1>4, PrimaryClaimsStep
  <2>2. c \in linked /\ (Claims(c, n) \/ New(c, n)) /\ c # Primary
    BY <1>1, <1>4, <1>t
  <2>3. CASE New(c, n)
    <3>1. ~PrimaryClaims(n)
      BY <2>3, <1>t, ClaimsAreNumbers
    <3> QED
      BY <2>1, <2>2, <2>3, <3>1
  <2>4. CASE Claims(c, n)
    <3>1. ~PrimaryClaims(n)
      BY <2>2, <2>4 DEF Tenure
    <3>2. active' = Primary /\ primarySeq' = n /\ n =< seqNum
      BY <1>2, <2>1, <2>2, <2>4, <3>1
    <3>3. n > 0
      BY <2>4 DEF Claims
    <3>4. primarySeq # n
      BY <3>1, <3>3 DEF PrimaryClaims
    <3>5. active \notin linked' /\ n = seqNum
      BY <3>2, <3>4, <1>t, CursorMoves
    <3>6. c # active
      BY <1>4, <3>5
    <3> QED
      BY <1>t, <2>2, <2>4, <3>5, <3>6 DEF Tenure
  <2> QED
    BY <2>2, <2>3, <2>4
<1>5. ASSUME NEW c \in linked', NEW n \in Nat, Claims(c, n)', c # active' PROVE n < seqNum'
  <2>1. c \in linked /\ Claims(c, n) /\ n =< seqNum /\ c # Primary
    BY <1>1, <1>2, <1>5, <1>t
  <2>2. c # active => n < seqNum
    BY <2>1 DEF Tenure
  <2> QED
    BY <1>t, <1>5, <2>1, <2>2, CursorMoves
<1>6. ASSUME NEW c \in linked', NEW n \in Nat, Claims(c, n)', n = clipboard'.seq PROVE c = clipboard'.owner
  <2>1. c \in linked /\ (Claims(c, n) \/ New(c, n)) /\ c # Primary
    BY <1>1, <1>6, <1>t
  <2>2. CASE clipboard'.owner = clipboard.owner /\ clipboard'.seq = clipboard.seq
    <3>1. Claims(c, n)
      BY <1>6, <1>t, <2>1, <2>2
    <3> QED
      BY <1>6, <2>1, <2>2, <3>1 DEF Tenure
  <2>3. CASE Taken(Head(events))
    <3> DEFINE e == Head(events)
    <3>1. Handles(e) /\ e.from = clipboard'.owner /\ e.seq = n /\ seqNum' = seqNum
      BY <1>6, <2>3 DEF Taken
    <3> HIDE DEF e
    <3>2. EventWith(events, e.from, n) /\ e.from \in Listed
      BY <3>1 DEF Handles, EventWith, Linkage
    <3>3. Claims(c, n) /\ n > 0
      BY <1>t, <2>1, <3>1 DEF Claims
    <3>4. CASE e.from = Primary
      <4>1. PrimaryClaims(n)
        BY <3>2, <3>3, <3>4 DEF PrimaryClaims
      <4> QED
        BY <2>1, <3>3, <4>1 DEF Tenure
    <3>5. CASE e.from \in linked
      <4>1. Claims(e.from, n)
        BY <3>2, <3>3 DEF Claims
      <4>2. c = e.from
        BY <2>1, <3>3, <3>5, <4>1 DEF Tenure
      <4> QED
        BY <3>1, <4>2
    <3> QED
      BY <3>2, <3>4, <3>5 DEF Listed
  <2> QED
    BY <2>2, <2>3, OwnerStep
<1>7. active' = Primary => primarySeq' = seqNum'
  BY CursorMoves DEF Tenure
<1> QED
  BY <1>3, <1>4, <1>5, <1>6, <1>7 DEF Tenure

-----------------------------------------------------------------------------
(***************************************************************************)
(* As long as programs copy nothing, a grab of the primary is newer than   *)
(* all that was posted or handled before it.                               *)
(***************************************************************************)
Newest(q, n) ==
    \A i \in DOMAIN q : q[i].from = Primary /\ q[i].type = "grabbed" =>
        /\ n =< q[i].seq
        /\ \A j \in DOMAIN q : j < i => q[j].seq =< q[i].seq

PrimaryIsNewest == away = 0 => Newest(events, clipboard.seq)

LEMMA GrownNewest ==
    ASSUME NEW q, NEW p, NEW m, NEW n, Grown(q, p, m), Newest(q, n),
           \/ m.from # Primary
           \/ n =< m.seq /\ \A i \in DOMAIN q : q[i].seq =< m.seq
    PROVE  Newest(p, n)
<1>1. \A i \in DOMAIN p : \/ i \in DOMAIN q /\ p[i] = q[i] /\ \A j \in DOMAIN p : j < i => j \in DOMAIN q /\ p[j] = q[j]
                          \/ p[i] = m /\ \A j \in DOMAIN p : j < i => j \in DOMAIN q /\ p[j] = q[j]
  BY DEF Grown
<1> QED
  BY <1>1 DEF Newest

LEMMA ShrunkNewest ==
    ASSUME NEW q, NEW p, NEW m, NEW n, Shrunk(q, p, m), Newest(q, n)
    PROVE  Newest(p, n) /\ Newest(p, m.seq)
<1>1. \A i \in DOMAIN p : /\ i + 1 \in DOMAIN q /\ q[i + 1] = p[i] /\ 1 < i + 1
                          /\ \A j \in DOMAIN p : j < i => j + 1 < i + 1
  BY DEF Shrunk
<1>2. 1 \in DOMAIN q /\ q[1] = m
  BY DEF Shrunk
<1> QED
  BY <1>1, <1>2 DEF Newest

LEMMA MaskedNewest ==
    ASSUME NEW q, NEW p, NEW c, NEW n, Masked(q, p, c), Newest(q, n), NumbersIn(q)
    PROVE  Newest(p, n)
<1>1. Orphan.type = "orphan" /\ Orphan.seq = 0
  BY DEF Orphan, Event
<1>2. DOMAIN p = DOMAIN q /\ \A i \in DOMAIN q : p[i] = q[i] \/ p[i] = Orphan
  BY DEF Masked
<1>3. \A i \in DOMAIN q : p[i].type = "grabbed" => p[i] = q[i]
  BY <1>1, <1>2
<1>4. \A i \in DOMAIN q : q[i].seq \in Nat
  BY DEF NumbersIn
<1>5. \A i, j \in DOMAIN q : q[j].seq =< q[i].seq => p[j].seq =< q[i].seq
  BY <1>1, <1>2, <1>4
<1> QED
  BY <1>2, <1>3, <1>5 DEF Newest

\* How the queue of events changes.
LEMMA EventsStep ==
    ASSUME TypeOK, Linkage, Next, away' = 0
    PROVE  /\ away = 0
           /\ \/ events' = events
              \/ \E m : m.from # Primary /\ Grown(events, events', m)
              \/ /\ active = Primary /\ Grown(events, events', Event("grabbed", Primary, primarySeq))
                 /\ UNCHANGED clipboard
              \/ Handles(Head(events))
              \/ \E c : Masked(events, events', c)
<1> USE TypesAre DEF Types
<1> DEFINE Goal == /\ away = 0
                   /\ \/ events' = events
                      \/ \E m : m.from # Primary /\ Grown(events, events', m)
                      \/ /\ active = Primary /\ Grown(events, events', Event("grabbed", Primary, primarySeq))
                         /\ UNCHANGED clipboard
                      \/ Handles(Head(events))
                      \/ \E c : Masked(events, events', c)
<1>1. ASSUME NEW s \in Screen, NEW v \in Value, UserCopies(s, v) PROVE Goal
  <2> DEFINE e == Event("grabbed", Primary, primarySeq)
  <2>1. Copy(s, v) /\ away' = away /\ HasCursor(s)
    BY <1>1 DEF UserCopies
  <2>2. clipboard' = clipboard /\ (events' = events \/ (s = Primary /\ events' = Append(events, e)))
    BY <2>1, CopyDoes
  <2>3. e \in EventSet
    BY MessagesAre
  <2>4. Grown(events, Append(events, e), e)
    BY <2>3, AppendGrows
  <2>5. s = Primary => active = Primary
    BY <2>1 DEF HasCursor
  <2> QED
    BY <2>1, <2>2, <2>4, <2>5
<1>2. ASSUME NEW s \in Screen, NEW v \in Value, ProgramCopies(s, v) PROVE Goal
  <2>1. away' = away + 1 /\ away \in Nat
    BY <1>2 DEF ProgramCopies
  <2> QED
    BY <2>1
<1>3. ASSUME NEW c \in Client, ClientGrabbed(c) PROVE Goal
  BY <1>3, ClientGrabbedDoes
<1>4. ASSUME NEW c \in Client, ClientEnters(c) PROVE Goal
  BY <1>4, ClientEntersDoes
<1>5. ASSUME NEW c \in Client, ClientLeaves(c) PROVE Goal
  BY <1>5, ClientLeavesDoes
<1>6. ASSUME NEW c \in Client, ClientLosesClipboard(c) PROVE Goal
  BY <1>6, ClientLosesDoes
<1>7. ASSUME NEW c \in Client, ServerReceives(c) PROVE Goal
  <2> DEFINE e == Posted(c, Head(toServer[c]))
  <2>1. away' = away /\ Grown(events, events', e)
    BY <1>7, ServerReceivesDoes
  <2>2. e.from # Primary
    BY ClipboardAssumption DEF Posted, Event
  <2> QED
    BY <2>1, <2>2
<1>8. ASSUME NEW c \in Client, Connect(c) PROVE Goal
  BY <1>8, ConnectDoes
<1>9. ASSUME NEW c \in Client, Disconnect(c) PROVE Goal
  BY <1>9, DisconnectDoes
<1>10. CASE ClipboardGrabbed
  BY <1>10, ClipboardGrabbedDoes
<1>11. CASE ClipboardChanged
  BY <1>11, ClipboardChangedDoes
<1>12. CASE Dropped
  BY <1>12, DroppedDoes
<1>13. ASSUME NEW dst \in Screen, SwitchScreen(dst) PROVE Goal
  BY <1>13, SwitchScreenDoes
<1> QED
  BY <1>1, <1>2, <1>3, <1>4, <1>5, <1>6, <1>7, <1>8, <1>9, <1>10, <1>11, <1>12, <1>13 DEF Next

LEMMA NewestStep ==
    ASSUME TypeOK, Linkage, Tenure, PrimaryIsNewest, Next
    PROVE  PrimaryIsNewest'
<1> SUFFICES ASSUME away' = 0 PROVE Newest(events', clipboard'.seq)
  BY DEF PrimaryIsNewest
<1>1. Newest(events, clipboard.seq) /\ NumbersIn(events)
  <2>1. NumbersIn(events)
    <3>1. \A i \in DOMAIN events : events[i] \in EventSet
      BY TypesAre, ElementsAre DEF Types
    <3> QED
      BY <3>1, TypesAre, ClipboardAssumption DEF Types, EventSet, Seqs, NumbersIn
  <2> QED
    BY <2>1, EventsStep DEF PrimaryIsNewest
<1>2. CASE clipboard'.owner = clipboard.owner /\ clipboard'.seq = clipboard.seq
  <2>1. CASE events' = events
    BY <1>1, <1>2, <2>1
  <2>2. ASSUME NEW m, m.from # Primary, Grown(events, events', m) PROVE Newest(events', clipboard.seq)
    BY <1>1, <2>2, GrownNewest
  <2>3. ASSUME active = Primary, Grown(events, events', Event("grabbed", Primary, primarySeq))
        PROVE  Newest(events', clipboard.seq)
    <3> DEFINE e == Event("grabbed", Primary, primarySeq)
    <3>1. e.seq = seqNum
      BY <2>3 DEF Event, Tenure
    <3>2. clipboard.seq \in Seqs /\ \A n \in Seqs : n =< seqNum
      BY TypesAre, ClipboardAssumption DEF Types, Seqs
    <3>3. \A i \in DOMAIN events : events[i] \in EventSet
      BY TypesAre, ElementsAre DEF Types
    <3>4. clipboard.seq =< e.seq /\ \A i \in DOMAIN events : events[i].seq =< e.seq
      BY <3>1, <3>2, <3>3 DEF EventSet
    <3> HIDE DEF e
    <3>5. Grown(events, events', e)
      BY <2>3 DEF e
    <3> QED
      BY <1>1, <3>4, <3>5, GrownNewest
  <2>4. CASE Handles(Head(events))
    <3>1. Shrunk(events, events', Head(events))
      BY <2>4 DEF Handles
    <3> QED
      BY <1>1, <1>2, <3>1, ShrunkNewest
  <2>5. ASSUME NEW c, Masked(events, events', c) PROVE Newest(events', clipboard.seq)
    BY <1>1, <2>5, MaskedNewest
  <2> QED
    BY <1>2, <2>1, <2>2, <2>3, <2>4, <2>5, EventsStep
<1>3. CASE Taken(Head(events))
  <2>1. Shrunk(events, events', Head(events)) /\ clipboard'.seq = Head(events).seq
    BY <1>3 DEF Taken, Handles
  <2> QED
    BY <1>1, <2>1, ShrunkNewest
<1> QED
  BY <1>2, <1>3, OwnerStep

-----------------------------------------------------------------------------
(***************************************************************************)
(* The number of a client is not 0 while it is entered.                    *)
(***************************************************************************)
Numbered(c) == (client[c].entered => client[c].seq > 0) /\ EntersAbove(toClient[c], 1)

\* What only a client's own steps change.
Untouched(c) == client'[c] = client[c] /\ local'[c] = local[c] /\ copies'[c] = copies[c]

LEMMA OnlyItsOwn ==
    ASSUME TypeOK, Linkage, Next, NEW c \in Client, c \in linked'
    PROVE  \/ \E v \in Value : UserCopies(c, v) \/ ProgramCopies(c, v)
           \/ ClientGrabbed(c) \/ ClientEnters(c) \/ ClientLeaves(c)
           \/ ClientLosesClipboard(c) \/ Connect(c)
           \/ Untouched(c)
<1> USE TypesAre DEF Types
<1>c. c # Primary /\ c \in Screen
  BY ClipboardAssumption DEF Screen
<1>b. ASSUME NEW d \in Client, d # c, OthersStay(d), copies' = copies,
             local' = local \/ \E v : local' = [local EXCEPT ![d] = v]
      PROVE  Untouched(c)
  <2>1. local'[c] = local[c]
    BY <1>b, <1>c
  <2>2. client'[c] = client[c]
    BY <1>b DEF OthersStay
  <2> QED
    BY <1>b, <2>1, <2>2 DEF Untouched
<1>1. ASSUME NEW s \in Screen, NEW v \in Value, UserCopies(s, v) \/ ProgramCopies(s, v), s # c PROVE Untouched(c)
  <2>1. /\ Copy(s, v)
        /\ copies' = [copies EXCEPT ![s] = copies[s] + 1] \/ copies' = copies
    BY <1>1 DEF UserCopies, ProgramCopies
  <2>2. copies'[c] = copies[c]
    BY <1>1, <1>c, <2>1
  <2>3. local' = [local EXCEPT ![s] = v] /\ client'[c] = client[c]
    BY <1>1, <2>1, CopyDoes
  <2>4. local'[c] = local[c]
    BY <1>1, <1>c, <2>3
  <2> QED
    BY <2>2, <2>3, <2>4 DEF Untouched
<1>3. ASSUME NEW d \in Client, d # c, ClientGrabbed(d) PROVE Untouched(c)
  BY <1>b, <1>3, ClientGrabbedDoes
<1>4. ASSUME NEW d \in Client, d # c, ClientEnters(d) PROVE Untouched(c)
  BY <1>b, <1>4, ClientEntersDoes
<1>5. ASSUME NEW d \in Client, d # c, ClientLeaves(d) PROVE Untouched(c)
  BY <1>b, <1>5, ClientLeavesDoes
<1>6. ASSUME NEW d \in Client, d # c, ClientLosesClipboard(d) PROVE Untouched(c)
  BY <1>b, <1>6, ClientLosesDoes
<1>7. ASSUME NEW d \in Client, ServerReceives(d) PROVE Untouched(c)
  BY <1>7, ServerReceivesDoes DEF Untouched
<1>8. ASSUME NEW d \in Client, d # c, Connect(d) PROVE Untouched(c)
  BY <1>b, <1>8, ConnectDoes
<1>9. ASSUME NEW d \in Client, Disconnect(d) PROVE Untouched(c)
  <2>1. d # c /\ OthersStay(d) /\ UNCHANGED <<local, copies>>
    BY <1>9, DisconnectDoes
  <2> QED
    BY <1>b, <2>1
<1>10. CASE ClipboardGrabbed
  <2>1. UNCHANGED <<client, copies>> /\ local'[c] = local[c]
    BY <1>10, ClipboardGrabbedDoes
  <2> QED
    BY <2>1 DEF Untouched
<1>11. CASE ClipboardChanged
  <2> DEFINE new == held[Head(events).from]
  <2>1. UNCHANGED <<client, copies>> /\ (local' = local \/ Given(active, new))
    BY <1>11, ClipboardChangedDoes
  <2> HIDE DEF new
  <2>2. local'[c] = local[c]
    BY <1>c, <2>1 DEF Given, Screen
  <2> QED
    BY <2>1, <2>2 DEF Untouched
<1>12. CASE Dropped
  BY <1>12, DroppedDoes DEF Untouched
<1>13. ASSUME NEW dst \in Screen, SwitchScreen(dst) PROVE Untouched(c)
  <2>1. UNCHANGED <<client, copies>> /\ Entered(dst, NewData)
    BY <1>13, SwitchScreenDoes
  <2>2. local'[c] = local[c]
    BY <1>c, <2>1 DEF Entered, Screen
  <2> QED
    BY <2>1, <2>2 DEF Untouched
<1>14. ASSUME NEW s \in Screen, NEW v \in Value, UserCopies(s, v) \/ ProgramCopies(s, v)
       PROVE  Untouched(c) \/ \E w \in Value : UserCopies(c, w) \/ ProgramCopies(c, w)
  BY <1>1, <1>14
<1> QED
  BY <1>3, <1>4, <1>5, <1>6, <1>7, <1>8, <1>9, <1>10, <1>11, <1>12, <1>13, <1>14 DEF Next

LEMMA NumberedStep ==
    ASSUME TypeOK, Linkage, Next, NEW c \in Client, c \in linked', c \in linked => Numbered(c)
    PROVE  Numbered(c)'
<1> USE TypesAre DEF Types
<1>n. seqNum \in Nat /\ 1 =< seqNum + 1
  BY ClipboardAssumption
<1>l. /\ client[c].entered => c \in linked
      /\ Reads(c) => c \in linked
  BY DEF Linkage, Reads
<1>p. client[c].entered => client[c].seq > 0
  BY <1>l DEF Numbered
<1>s. ASSUME SamePlace(client[c], client'[c]) PROVE client'[c].entered => client'[c].seq > 0
  BY <1>p, <1>s DEF SamePlace
<1>1. client'[c].entered => client'[c].seq > 0
  <2>1. ASSUME NEW v \in Value, UserCopies(c, v) \/ ProgramCopies(c, v) PROVE SamePlace(client[c], client'[c])
    <3>1. Copy(c, v) /\ c \in Screen
      BY <2>1 DEF UserCopies, ProgramCopies, Screen
    <3> QED
      BY <3>1, CopyDoes
  <2>2. CASE ClientGrabbed(c)
    BY <1>s, <2>2, ClientGrabbedDoes
  <2>3. CASE ClientEnters(c)
    <3>1. /\ Reads(c) /\ Head(toClient[c]).type = "enter" /\ client'[c].seq = Head(toClient[c]).seq
          /\ Head(toClient[c]) \in ToClient
      BY <2>3, ClientEntersDoes DEF Reads
    <3>2. EntersAbove(toClient[c], 1) /\ Shrunk(toClient[c], toClient'[c], Head(toClient[c]))
      BY <1>l, <3>1 DEF Numbered, Reads
    <3>3. 1 =< Head(toClient[c]).seq
      BY <3>1, <3>2, ShrunkEntersOrdered
    <3>4. Head(toClient[c]).seq \in Nat
      <4>1. Head(toClient[c]).seq \in Seqs
        BY <3>1, MessagesAre
      <4> QED
        BY <4>1, <1>n DEF Seqs
    <3> QED
      BY <3>1, <3>3, <3>4
  <2>4. CASE ClientLeaves(c)
    BY <2>4, ClientLeavesDoes
  <2>5. CASE ClientLosesClipboard(c)
    BY <1>s, <2>5, ClientLosesDoes
  <2>6. CASE Connect(c)
    BY <2>6, ConnectDoes
  <2>7. CASE Untouched(c)
    BY <1>p, <2>7 DEF Untouched
  <2> QED
    BY <1>s, <2>1, <2>2, <2>3, <2>4, <2>5, <2>6, <2>7, OnlyItsOwn
<1>g. ASSUME c \in linked, NEW m, Grown(toClient[c], toClient'[c], m), m.type # "enter"
      PROVE  EntersAbove(toClient'[c], 1)
  BY <1>g, GrownEntersOrdered DEF Numbered
<1>r. ASSUME Reads(c) PROVE EntersAbove(toClient'[c], 1)
  BY <1>r, <1>l, ShrunkEntersOrdered DEF Numbered, Reads
<1>k. ASSUME c \in linked, toClient'[c] = toClient[c] PROVE EntersAbove(toClient'[c], 1)
  BY <1>k DEF Numbered
<1>2. EntersAbove(toClient'[c], 1)
  <2>1. CASE Bystander(c)
    BY <1>k, <2>1 DEF Bystander
  <2>2. CASE c \in linked /\ ClientGrabbed(c)
    BY <1>k, <2>2, ClientGrabbedDoes
  <2>3. CASE c \in linked /\ ClientEnters(c)
    BY <1>r, <2>3, ClientEntersDoes
  <2>4. CASE c \in linked /\ ClientLeaves(c)
    BY <1>r, <2>4, ClientLeavesDoes
  <2>5. CASE c \in linked /\ ClientLosesClipboard(c)
    BY <1>r, <2>5, ClientLosesDoes
  <2>6. CASE c \in linked /\ ServerReceives(c)
    BY <1>k, <2>6, ServerReceivesDoes
  <2>7. CASE ClipboardGrabbed
    <3>1. /\ linked' = linked
          /\ toClient'[c] = toClient[c] \/ Grown(toClient[c], toClient'[c], Grab(0))
      BY <2>7, ClipboardGrabbedDoes
    <3>2. Grab(0).type # "enter"
      BY DEF Grab
    <3> QED
      BY <1>g, <1>k, <3>1, <3>2
  <2>8. CASE ClipboardChanged
    <3> DEFINE new == held[Head(events).from]
    <3>1. linked' = linked /\ (toClient' = toClient \/ Given(active, new))
      BY <2>8, ClipboardChangedDoes
    <3>2. Data(0, new).type # "enter" /\ active \in Screen
      BY DEF Data
    <3> HIDE DEF new
    <3>3. toClient'[c] = toClient[c] \/ Grown(toClient[c], toClient'[c], Data(0, new))
      BY <3>1, <3>2 DEF Given, Screen
    <3> QED
      BY <1>g, <1>k, <3>1, <3>2, <3>3
  <2>9. ASSUME NEW dst \in Screen, SwitchScreen(dst) PROVE EntersAbove(toClient'[c], 1)
    <3> DEFINE enter == Enter(seqNum + 1)
    <3>1. /\ linked' = linked /\ dst # active
          /\ \A d \in Client \ {active, dst} : toClient'[d] = toClient[d]
          /\ active \in Client => Grown(toClient[active], toClient'[active], Leave)
          /\ Entered(dst, NewData)
      BY <2>9, SwitchScreenDoes
    <3>2. CASE c # dst
      BY <1>g, <1>k, <3>1, <3>2, KindsAre
    <3>3. CASE c = dst
      <4>1. enter.seq = seqNum + 1 /\ Data(0, NewData).type # "enter" /\ EntersAbove(toClient[c], 1)
        BY <3>1 DEF Enter, Data, Numbered
      <4> HIDE DEF enter
      <4>2. ASSUME NEW q, Grown(toClient[c], q, enter) PROVE EntersAbove(q, 1)
        BY <4>1, <4>2, <1>n, GrownEntersOrdered
      <4>3. ASSUME NEW q, Grown(q, toClient'[c], Data(0, NewData)), EntersAbove(q, 1) PROVE EntersAbove(toClient'[c], 1)
        BY <4>1, <4>3, GrownEntersOrdered
      <4> QED
        BY <3>1, <3>3, <4>2, <4>3 DEF Entered, enter
    <3> QED
      BY <3>2, <3>3
  <2>10. CASE Connect(c)
    <3>1. toClient'[c] = <<>>
      BY <2>10, NewcomersAreFresh
    <3> QED
      BY <3>1, NothingIn DEF EntersAbove
  <2> QED
    BY <2>1, <2>2, <2>3, <2>4, <2>5, <2>6, <2>7, <2>8, <2>9, <2>10, StepsOfOne
<1> QED
  BY <1>1, <1>2 DEF Numbered

-----------------------------------------------------------------------------
(***************************************************************************)
(* A client whose user copied once sends a grab and data with one number.  *)
(* The data come after the grab, or the grab has been handled.             *)
(***************************************************************************)
SendsOnly(q, s, c, n) ==
    /\ \A i \in DOMAIN q : q[i].from = c => q[i].seq = n
    /\ \A i \in DOMAIN s : s[i].seq = n

GrabPosted(q, c) == \E i \in DOMAIN q : q[i].from = c /\ q[i].type = "grabbed"
GrabSent(s) == \E i \in DOMAIN s : s[i].type = "grab"
GrabComes(q, s, c) == GrabPosted(q, c) \/ GrabSent(s)

EventsAnnounced(q, c) ==
    \A i \in DOMAIN q : q[i].from = c /\ q[i].type = "changed" =>
        \E j \in DOMAIN q : j < i /\ q[j].from = c /\ q[j].type = "grabbed"
DataAnnounced(s) ==
    \A i \in DOMAIN s : s[i].type # "grab" => \E j \in DOMAIN s : j < i /\ s[j].type = "grab"
Announced(q, s, c) == EventsAnnounced(q, c) /\ (GrabPosted(q, c) \/ DataAnnounced(s))

LEMMA NothingSent ==
    ASSUME NEW q, NEW c, NoneFrom(q, c)
    PROVE  Announced(q, <<>>, c) /\ \A n : SendsOnly(q, <<>>, c, n)
BY NothingIn DEF NoneFrom, Announced, EventsAnnounced, DataAnnounced, SendsOnly

\* No event of c was added, and none is among the first k.
LEMMA SameSends ==
    ASSUME NEW q, NEW p, NEW c, NEW k \in {0, 1}, SameEvents(q, p, c, k),
           \A j \in DOMAIN q : q[j].from = c => j > k
    PROVE  /\ NoneFrom(q, c) => NoneFrom(p, c)
           /\ GrabPosted(q, c) => GrabPosted(p, c)
           /\ EventsAnnounced(q, c) => EventsAnnounced(p, c)
           /\ \A s, n : SendsOnly(q, s, c, n) => SendsOnly(p, s, c, n)
<1>1. \A i \in DOMAIN p : p[i].from = c => i + k \in DOMAIN q /\ q[i + k] = p[i]
  BY DEF SameEvents
<1>2. \A j \in DOMAIN q : q[j].from = c => j - k \in DOMAIN p /\ p[j - k] = q[j]
  BY DEF SameEvents
<1>3. NoneFrom(q, c) => NoneFrom(p, c)
  BY <1>1 DEF NoneFrom
<1>4. GrabPosted(q, c) => GrabPosted(p, c)
  BY <1>2 DEF GrabPosted
<1>5. ASSUME EventsAnnounced(q, c), NEW i \in DOMAIN p, p[i].from = c, p[i].type = "changed"
      PROVE  \E j \in DOMAIN p : j < i /\ p[j].from = c /\ p[j].type = "grabbed"
  <2>1. PICK j \in DOMAIN q : j < i + k /\ q[j].from = c /\ q[j].type = "grabbed"
    BY <1>1, <1>5 DEF EventsAnnounced
  <2>2. j - k \in DOMAIN p /\ p[j - k] = q[j]
    BY <1>2, <2>1
  <2>3. i \in Nat /\ j \in Nat
    BY DEF SameEvents
  <2>4. j - k < i
    BY <2>1, <2>3
  <2> QED
    BY <2>1, <2>2, <2>4
<1>6. \A s, n : SendsOnly(q, s, c, n) => SendsOnly(p, s, c, n)
  BY <1>1 DEF SendsOnly
<1>7. EventsAnnounced(q, c) => EventsAnnounced(p, c)
  BY <1>5 DEF EventsAnnounced
<1> QED
  BY <1>3, <1>4, <1>6, <1>7

\* A message is sent: a grab, or data after one.
LEMMA GrownSends ==
    ASSUME NEW q, NEW c, NEW s, NEW s2, NEW m, Grown(s, s2, m)
    PROVE  /\ \A n : SendsOnly(q, s, c, n) /\ m.seq = n => SendsOnly(q, s2, c, n)
           /\ GrabSent(s) \/ m.type = "grab" => GrabSent(s2)
           /\ Announced(q, s, c) /\ (m.type = "grab" \/ GrabComes(q, s, c)) => Announced(q, s2, c)
<1>1. /\ \A i \in DOMAIN s2 : (i \in DOMAIN s /\ s2[i] = s[i]) \/ (i = Len(s) + 1 /\ s2[i] = m)
      /\ \A i \in DOMAIN s : i \in DOMAIN s2 /\ s2[i] = s[i] /\ i < Len(s) + 1
      /\ Len(s) + 1 \in DOMAIN s2 /\ s2[Len(s) + 1] = m
  BY DEF Grown
<1>2. \A n : SendsOnly(q, s, c, n) /\ m.seq = n => SendsOnly(q, s2, c, n)
  BY <1>1 DEF SendsOnly
<1>3. GrabSent(s) \/ m.type = "grab" => GrabSent(s2)
  BY <1>1 DEF GrabSent
<1>4. ASSUME DataAnnounced(s), m.type = "grab" \/ GrabSent(s) PROVE DataAnnounced(s2)
  <2>1. ASSUME NEW i \in DOMAIN s2, s2[i].type # "grab"
        PROVE  \E j \in DOMAIN s2 : j < i /\ s2[j].type = "grab"
    <3>1. CASE i \in DOMAIN s /\ s2[i] = s[i]
      BY <1>1, <1>4, <2>1, <3>1 DEF DataAnnounced
    <3>2. CASE i = Len(s) + 1 /\ s2[i] = m
      BY <1>1, <1>4, <2>1, <3>2 DEF GrabSent
    <3> QED
      BY <1>1, <3>1, <3>2
  <2> QED
    BY <2>1 DEF DataAnnounced
<1>5. Announced(q, s, c) /\ (m.type = "grab" \/ GrabComes(q, s, c)) => Announced(q, s2, c)
  BY <1>4 DEF Announced, GrabComes
<1> QED
  BY <1>2, <1>3, <1>5

\* The server takes a message off the channel and posts its event.
LEMMA PostedSends ==
    ASSUME NEW q, NEW p, NEW c, NEW s, NEW s2, NEW m, Shrunk(s, s2, m), Grown(q, p, Posted(c, m))
    PROVE  /\ \A n : SendsOnly(q, s, c, n) => SendsOnly(p, s2, c, n)
           /\ GrabComes(q, s, c) => GrabComes(p, s2, c)
           /\ Announced(q, s, c) => Announced(p, s2, c)
<1> DEFINE e == Posted(c, m)
<1>1. e.from = c /\ e.seq = m.seq /\ (m.type = "grab" => e.type = "grabbed")
  BY DEF Posted, Event
<1>2. /\ 1 \in DOMAIN s /\ s[1] = m /\ \A j \in DOMAIN s : ~(j < 1)
      /\ \A i \in DOMAIN s2 : i + 1 \in DOMAIN s /\ s[i + 1] = s2[i]
      /\ \A i \in DOMAIN s : i = 1 \/ (i - 1 \in DOMAIN s2 /\ s[i] = s2[i - 1])
      /\ \A i \in DOMAIN s : i \in Nat
      /\ \A i \in DOMAIN s2 : i \in Nat
  BY DEF Shrunk
<1>3. /\ \A i \in DOMAIN p : (i \in DOMAIN q /\ p[i] = q[i]) \/ (i = Len(q) + 1 /\ p[i] = e)
      /\ \A i \in DOMAIN q : i \in DOMAIN p /\ p[i] = q[i] /\ i < Len(q) + 1
      /\ Len(q) + 1 \in DOMAIN p /\ p[Len(q) + 1] = e
  BY DEF Grown
<1> HIDE DEF e
<1>4. \A n : SendsOnly(q, s, c, n) => SendsOnly(p, s2, c, n)
  BY <1>1, <1>2, <1>3 DEF SendsOnly
<1>5. GrabPosted(q, c) \/ m.type = "grab" => GrabPosted(p, c)
  BY <1>1, <1>3 DEF GrabPosted
<1>6. GrabSent(s) => GrabSent(s2) \/ m.type = "grab"
  BY <1>2 DEF GrabSent
<1>7. ASSUME Announced(q, s, c) PROVE EventsAnnounced(p, c)
  <2>1. m.type # "grab" => GrabPosted(q, c)
    BY <1>2, <1>7 DEF Announced, DataAnnounced
  <2>2. ASSUME NEW i \in DOMAIN p, p[i].from = c, p[i].type = "changed"
        PROVE  \E j \in DOMAIN p : j < i /\ p[j].from = c /\ p[j].type = "grabbed"
    <3>1. CASE i \in DOMAIN q /\ p[i] = q[i]
      BY <1>3, <1>7, <2>2, <3>1 DEF Announced, EventsAnnounced
    <3>2. CASE i = Len(q) + 1 /\ p[i] = e
      <4>1. GrabPosted(q, c)
        BY <1>1, <2>1, <2>2, <3>2
      <4> QED
        BY <1>3, <3>2, <4>1 DEF GrabPosted
    <3> QED
      BY <1>3, <3>1, <3>2
  <2> QED
    BY <2>2 DEF EventsAnnounced
<1>8. ASSUME DataAnnounced(s), m.type # "grab" PROVE FALSE
  BY <1>2, <1>8 DEF DataAnnounced
<1>9. Announced(q, s, c) => Announced(p, s2, c)
  BY <1>5, <1>7, <1>8 DEF Announced
<1> QED
  BY <1>4, <1>5, <1>6, <1>9 DEF GrabComes

\* The first event of c is handled.
LEMMA HandledSends ==
    ASSUME NEW q, NEW p, NEW e, NEW s, NEW c, e.from = c, Shrunk(q, p, e)
    PROVE  /\ \A n : SendsOnly(q, s, c, n) => SendsOnly(p, s, c, n) /\ e.seq = n
           /\ Announced(q, s, c) => e.type # "changed"
<1>1. /\ 1 \in DOMAIN q /\ q[1] = e /\ \A j \in DOMAIN q : ~(j < 1)
      /\ \A i \in DOMAIN p : i + 1 \in DOMAIN q /\ q[i + 1] = p[i]
  BY DEF Shrunk
<1> QED
  BY <1>1 DEF SendsOnly, Announced, EventsAnnounced

\* Data of c with the number n raise no doubt about who owns the clipboard.
Settled(c, n) == clipboard.seq > n \/ (clipboard.seq = n /\ clipboard.owner = c)

LEMMA GrabSettles ==
    ASSUME TypeOK, ClipboardGrabbed, NEW c, NEW n, Head(events).from = c, Head(events).seq = n
    PROVE  Settled(c, n)'
<1> DEFINE e == Head(events)
<1>1. clipboard.seq \in Nat /\ e.seq \in Nat
  <2>1. e.seq \in Seqs /\ clipboard.seq \in Seqs
    BY EventsStay, TypesAre DEF Types, ClipboardGrabbed
  <2> QED
    BY <2>1, TypesAre, ClipboardAssumption DEF Types, Seqs
<1>2. CASE AcceptsGrab(e)
  <2>1. clipboard' = [owner |-> e.from, seq |-> e.seq, data |-> Nothing]
    BY <1>2, ClipboardGrabbedDoes
  <2> QED
    BY <2>1 DEF Settled
<1>3. CASE ~AcceptsGrab(e)
  <2>1. clipboard' = clipboard /\ e.seq < clipboard.seq
    BY <1>1, <1>3, ClipboardGrabbedDoes DEF AcceptsGrab
  <2> QED
    BY <2>1 DEF Settled
<1> QED
  BY <1>2, <1>3

\* The next owner has a later number, or is c.
LEMMA SettledStays ==
    ASSUME TypeOK, Linkage, Tenure, PrimaryIsNewest, Next, away' = 0,
           NEW c \in linked, NEW n \in Nat, Claims(c, n), Settled(c, n)
    PROVE  Settled(c, n)'
<1> DEFINE e == Head(events)
<1>t. c \in Client /\ clipboard.seq \in Nat
  BY TypesAre, ClipboardAssumption DEF Types, Seqs
<1>1. CASE clipboard'.owner = clipboard.owner /\ clipboard'.seq = clipboard.seq
  BY <1>1 DEF Settled
<1>2. CASE Taken(e)
  <2>1. /\ Handles(e) /\ AcceptsGrab(e) /\ e.type = "grabbed"
        /\ clipboard'.owner = e.from /\ clipboard'.seq = e.seq /\ away = 0
    BY <1>2 DEF Taken
  <2>2. e.seq \in Nat /\ EventWith(events, e.from, e.seq) /\ e.from \in Listed
    <3>1. e.seq \in Seqs /\ 1 \in DOMAIN events /\ events[1] = e
      BY <2>1 DEF Handles
    <3>2. e.seq \in Nat
      BY <3>1, TypesAre, ClipboardAssumption DEF Types, Seqs
    <3> QED
      BY <3>1, <3>2 DEF EventWith, Linkage
  <2> HIDE DEF e
  <2>3. clipboard.seq =< e.seq
    <3>1. Newest(events, clipboard.seq) /\ 1 \in DOMAIN events /\ events[1] = e
      BY <2>1 DEF PrimaryIsNewest, Handles
    <3>2. e.from = Primary => clipboard.seq =< e.seq
      BY <2>1, <3>1 DEF Newest
    <3> QED
      BY <1>t, <2>1, <2>2, <3>2 DEF AcceptsGrab
  <2>4. CASE e.seq = n
    <3>1. n > 0
      BY DEF Claims
    <3>2. e.from # Primary
      <4>1. e.from = Primary => PrimaryClaims(n)
        BY <2>2, <2>4, <3>1 DEF PrimaryClaims
      <4> QED
        BY <4>1 DEF Tenure
    <3>3. e.from \in linked /\ Claims(e.from, n)
      BY <2>2, <2>4, <3>1, <3>2 DEF Claims, Listed
    <3>4. e.from = c
      BY <3>3 DEF Tenure
    <3> QED
      BY <2>1, <2>4, <3>4 DEF Settled
  <2>5. CASE e.seq # n
    BY <1>t, <2>1, <2>2, <2>3, <2>5 DEF Settled
  <2> QED
    BY <2>4, <2>5
<1> QED
  BY <1>1, <1>2, OwnerStep

OneNumber(c, n) ==
    /\ n \in Nat /\ n > 0
    /\ SendsOnly(events, toServer[c], c, n)
    /\ Announced(events, toServer[c], c) \/ Settled(c, n)
    /\ client[c].own /\ ~client[c].sent =>
           /\ client[c].active /\ n = client[c].seq
           /\ GrabComes(events, toServer[c], c) \/ Settled(c, n)

\* A client that has something to settle has the number.
LEMMA SendersClaim ==
    ASSUME TypeOK, NEW c \in Client, NEW n, OneNumber(c, n),
           ~Announced(events, toServer[c], c) \/ (client[c].own /\ ~client[c].sent)
    PROVE  Claims(c, n)
<1> USE TypesAre DEF Types
<1>1. n > 0 /\ SendsOnly(events, toServer[c], c, n)
  BY DEF OneNumber
<1>2. CASE client[c].own /\ ~client[c].sent
  BY <1>1, <1>2 DEF OneNumber, Claims
<1>3. CASE ~NoneFrom(events, c)
  <2>1. EventWith(events, c, n)
    BY <1>1, <1>3 DEF NoneFrom, SendsOnly, EventWith
  <2> QED
    BY <1>1, <2>1 DEF Claims
<1>4. CASE toServer[c] # <<>>
  <2>1. 1 \in DOMAIN toServer[c]
    BY <1>4, TailShrinks DEF Shrunk
  <2>2. MessageWith(toServer[c], n)
    BY <1>1, <2>1 DEF SendsOnly, MessageWith
  <2> QED
    BY <1>1, <2>2 DEF Claims
<1>5. NoneFrom(events, c) /\ toServer[c] = <<>> => Announced(events, toServer[c], c)
  BY NothingSent
<1> QED
  BY <1>2, <1>3, <1>4, <1>5

\* What is settled stays settled as long as it matters.
LEMMA NumberStays ==
    ASSUME TypeOK, Linkage, Tenure, PrimaryIsNewest, Next, away' = 0,
           NEW c \in linked, NEW n, OneNumber(c, n),
           SendsOnly(events', toServer'[c], c, n),
           Announced(events, toServer[c], c) => Announced(events', toServer'[c], c) \/ Settled(c, n)',
           client'[c].own /\ ~client'[c].sent =>
               client[c].own /\ ~client[c].sent /\ client'[c].active /\ n = client'[c].seq,
           GrabComes(events, toServer[c], c) => GrabComes(events', toServer'[c], c) \/ Settled(c, n)'
    PROVE  OneNumber(c, n)'
<1>1. n \in Nat /\ n > 0 /\ c \in Client
  BY TypesAre DEF OneNumber, Types
<1>2. ASSUME Settled(c, n), ~Announced(events, toServer[c], c) \/ (client[c].own /\ ~client[c].sent)
      PROVE  Settled(c, n)'
  BY <1>1, <1>2, SendersClaim, SettledStays
<1>3. Announced(events', toServer'[c], c) \/ Settled(c, n)'
  BY <1>2 DEF OneNumber
<1>4. client'[c].own /\ ~client'[c].sent => GrabComes(events', toServer'[c], c) \/ Settled(c, n)'
  BY <1>2 DEF OneNumber
<1> QED
  BY <1>1, <1>3, <1>4 DEF OneNumber

\* No event of c is added or dispatched.
NoneOf(q, p, c) ==
    /\ NoneFrom(q, c) => NoneFrom(p, c)
    /\ GrabPosted(q, c) => GrabPosted(p, c)
    /\ EventsAnnounced(q, c) => EventsAnnounced(p, c)
    /\ \A s, n : SendsOnly(q, s, c, n) => SendsOnly(p, s, c, n)

LEMMA NoneOfIsSame == ASSUME NEW q, NEW c PROVE NoneOf(q, q, c)
BY DEF NoneOf

LEMMA SameIsNoneOf ==
    ASSUME TypeOK, NEW p, NEW c, NEW k \in {0, 1}, SameEvents(events, p, c, k), k = 1 => events[1].from # c
    PROVE  NoneOf(events, p, c)
<1>1. \A j \in DOMAIN events : j \in Nat /\ j >= 1
  BY TypesAre, ElementsAre DEF Types
<1>2. \A j \in DOMAIN events : events[j].from = c => j > k
  BY <1>1
<1> QED
  BY <1>2, SameSends DEF NoneOf

LEMMA HandledIsNoneOf ==
    ASSUME TypeOK, NEW e, Handles(e), NEW c, e.from # c
    PROVE  NoneOf(events, events', c)
<1>1. Shrunk(events, events', e) /\ events[1].from # c
  BY DEF Handles
<1>2. SameEvents(events, events', c, 1)
  BY <1>1, EventsAreTheSame
<1> QED
  BY <1>1, <1>2, SameIsNoneOf

\* The steps of c that send, and those that dispatch one of its events, apart.
LEMMA SendsStep ==
    ASSUME TypeOK, Linkage, Next, NEW c \in linked, c \in linked'
    PROVE  \/ NoneOf(events, events', c) /\ toServer'[c] = toServer[c]
           \/ ClientGrabbed(c)
           \/ ClientLeaves(c) /\ events' = events /\ client[c].own /\ MustSend(c)
           \/ ServerReceives(c)
           \/ /\ ClipboardGrabbed \/ ClipboardChanged
              /\ Handles(Head(events)) /\ Head(events).from = c /\ toServer'[c] = toServer[c]
<1> USE TypesAre DEF Types
<1>c. c \in Client
  OBVIOUS
<1>s. ASSUME events' = events, toServer' = toServer PROVE NoneOf(events, events', c) /\ toServer'[c] = toServer[c]
  BY <1>s, NoneOfIsSame
<1>1. CASE Bystander(c)
  BY <1>1, SameIsNoneOf DEF Bystander
<1>2. CASE ClientEnters(c)
  BY <1>2, <1>s, ClientEntersDoes
<1>3. CASE ClientLeaves(c)
  BY <1>3, <1>s, ClientLeavesDoes
<1>4. CASE ClientLosesClipboard(c)
  BY <1>4, <1>s, ClientLosesDoes
<1>5. CASE ClipboardGrabbed
  <2>1. Handles(Head(events)) /\ toServer' = toServer
    BY <1>5, ClipboardGrabbedDoes
  <2> QED
    BY <1>5, <2>1, HandledIsNoneOf
<1>6. CASE ClipboardChanged
  <2>1. Handles(Head(events)) /\ toServer' = toServer
    BY <1>6, ClipboardChangedDoes
  <2> QED
    BY <1>6, <2>1, HandledIsNoneOf
<1>7. ASSUME NEW dst \in Screen, SwitchScreen(dst) PROVE events' = events /\ toServer' = toServer
  BY <1>7, SwitchScreenDoes
<1>8. CASE Connect(c)
  BY <1>8, ConnectDoes
<1> QED
  BY <1>c, <1>s, <1>1, <1>2, <1>3, <1>4, <1>5, <1>6, <1>7, <1>8, StepsOfOne

\* What a client knows whose user copied once.
Silent(c) == toServer[c] = <<>> /\ NoneFrom(events, c)

OneState(c) ==
    /\ copies[c] = 0 => ~client[c].grabbed
    /\ copies[c] = 0 \/ client[c].grabbed => ~client[c].own /\ Silent(c)
    /\ client[c].grabbed \/ client[c].own => client[c].active = client[c].entered /\ client[c].seq > 0
    /\ client[c].own /\ client[c].sent => local[c] = client[c].last

LEMMA SilentStays ==
    ASSUME TypeOK, Linkage, Next, NEW c \in linked, c \in linked', Silent(c), ~client[c].own,
           ~ClientGrabbed(c)
    PROVE  Silent(c)'
<1>1. c \in Client
  BY TypesAre DEF Types
<1>2. ~ServerReceives(c)
  BY <1>1, ServerReceivesDoes DEF Silent
<1>3. ~(Handles(Head(events)) /\ Head(events).from = c)
  BY DEF Handles, Silent, NoneFrom
<1>4. NoneOf(events, events', c) /\ toServer'[c] = toServer[c]
  BY <1>2, <1>3, SendsStep
<1> QED
  BY <1>4 DEF Silent, NoneOf

LEMMA NewcomersConnect ==
    ASSUME TypeOK, Linkage, Next, NEW c \in Client, c \in linked'
    PROVE  c \in linked \/ Connect(c)
<1>1. CASE ClipboardGrabbed
  BY <1>1, ClipboardGrabbedDoes
<1>2. CASE ClipboardChanged
  BY <1>2, ClipboardChangedDoes
<1>3. ASSUME NEW dst \in Screen, SwitchScreen(dst) PROVE linked' = linked
  BY <1>3, SwitchScreenDoes
<1> QED
  BY <1>1, <1>2, <1>3, StepsOfOne DEF Bystander

LEMMA OneStateStep ==
    ASSUME TypeOK, Linkage, Crossing, Next, away' = 0, NEW c \in Client, c \in linked', copies'[c] =< 1,
           c \in linked => Numbered(c) /\ OneState(c)
    PROVE  OneState(c)'
<1> USE TypesAre DEF Types
<1>c. /\ copies[c] \in Nat /\ c \in Screen /\ away \in Nat
      /\ client[c].grabbed \in BOOLEAN /\ client[c].own \in BOOLEAN
  <2>1. client[c] \in ClientSet /\ c \in Screen
    BY DEF Screen
  <2> QED
    BY <2>1 DEF ClientSet
<1>l. client[c].entered \/ client[c].grabbed \/ toClient[c] # <<>> => c \in linked
  BY DEF Linkage
<1>r. ASSUME Reads(c) PROVE c \in linked /\ OneState(c)
  BY <1>l, <1>r DEF Reads
<1>n. client'[c].entered => client'[c].seq > 0
  BY NumberedStep DEF Numbered
<1>q. ASSUME events' = events, toServer'[c] = toServer[c] PROVE Silent(c) => Silent(c)'
  BY <1>q DEF Silent
<1>1. ASSUME NEW v \in Value, UserCopies(c, v) PROVE OneState(c)'
  <2>1. Copy(c, v) /\ client[c].entered /\ copies'[c] = copies[c] + 1
    <3>1. c # Primary /\ Copy(c, v) /\ HasCursor(c) /\ copies' = [copies EXCEPT ![c] = @ + 1]
      BY <1>1, ClipboardAssumption DEF UserCopies
    <3> QED
      BY <1>c, <3>1 DEF HasCursor
  <2>2. copies[c] = 0 /\ c \in linked
    BY <1>c, <1>l, <2>1
  <2>3. ~client[c].grabbed /\ ~client[c].own /\ Silent(c) /\ client[c].active = client[c].entered /\ client[c].seq > 0
    <3>1. client[c].active /\ client[c].seq > 0
      BY <2>1, <2>2 DEF Crossing, Fresh, Numbered
    <3>2. client[c].active = client[c].entered
      <4>1. client[c] \in ClientSet
        OBVIOUS
      <4>2. client[c].active \in BOOLEAN /\ client[c].entered \in BOOLEAN
        BY <4>1 DEF ClientSet
      <4> QED
        BY <2>1, <3>1, <4>2
    <3> QED
      BY <2>2, <3>1, <3>2 DEF OneState
  <2>4. Silent(c)'
    BY <2>2, <2>3, SilentStays DEF ClientGrabbed
  <2>5. SameOwner(client[c], client'[c]) /\ SamePlace(client[c], client'[c])
    BY <1>c, <2>1, CopyDoes
  <2>6. ~client'[c].own /\ client'[c].active = client'[c].entered /\ client'[c].seq > 0 /\ copies'[c] # 0
    BY <1>c, <2>1, <2>3, <2>5 DEF SameOwner, SamePlace
  <2> QED
    BY <2>4, <2>6 DEF OneState
<1>2. ASSUME NEW v \in Value, ProgramCopies(c, v) PROVE FALSE
  BY <1>2, <1>c DEF ProgramCopies
<1>3. CASE ClientGrabbed(c)
  <2>1. /\ client[c].grabbed /\ UNCHANGED <<local, copies>>
        /\ SamePlace(client[c], client'[c]) /\ ~client'[c].grabbed /\ client'[c].own
        /\ client'[c].sent => client'[c].last = local[c]
    BY <1>3, ClientGrabbedDoes
  <2>2. copies[c] # 0 /\ client[c].active = client[c].entered /\ client[c].seq > 0
    BY <1>l, <2>1 DEF OneState
  <2> QED
    BY <2>1, <2>2 DEF OneState, SamePlace
<1>4. CASE ClientEnters(c)
  <2>1. /\ Reads(c) /\ UNCHANGED <<events, toServer, local, copies>>
        /\ SameOwner(client[c], client'[c]) /\ client'[c].grabbed = client[c].grabbed
        /\ client'[c].active /\ client'[c].entered /\ client' \in [Client -> ClientSet]
    BY <1>4, ClientEntersDoes
  <2>2. client'[c].active = client'[c].entered
    <3>1. client'[c] \in ClientSet
      BY <2>1
    <3>2. client'[c].active \in BOOLEAN /\ client'[c].entered \in BOOLEAN
      BY <3>1 DEF ClientSet
    <3> QED
      BY <2>1, <3>2
  <2> QED
    BY <1>n, <1>q, <1>r, <2>1, <2>2 DEF OneState, SameOwner
<1>5. CASE ClientLeaves(c)
  <2>1. /\ Reads(c) /\ UNCHANGED <<events, local, copies>> /\ client' \in [Client -> ClientSet]
        /\ ~client'[c].active /\ ~client'[c].entered /\ client'[c].seq = client[c].seq
        /\ client'[c].grabbed = client[c].grabbed /\ client'[c].own = client[c].own
    BY <1>5, ClientLeavesDoes
  <2>2. client'[c].active = client'[c].entered
    <3>1. client'[c] \in ClientSet
      BY <2>1
    <3>2. client'[c].active \in BOOLEAN /\ client'[c].entered \in BOOLEAN
      BY <3>1 DEF ClientSet
    <3> QED
      BY <2>1, <3>2
  <2>3. CASE client[c].own /\ client'[c].sent /\ client'[c].last = local[c]
    BY <1>r, <2>1, <2>2, <2>3 DEF OneState
  <2>4. CASE SameOwner(client[c], client'[c]) /\ toServer' = toServer
    BY <1>q, <1>r, <2>1, <2>2, <2>4 DEF OneState, SameOwner
  <2> QED
    BY <1>5, <2>3, <2>4, ClientLeavesDoes
<1>6. CASE ClientLosesClipboard(c)
  <2>1. /\ Reads(c) /\ UNCHANGED <<events, toServer, copies>> /\ SamePlace(client[c], client'[c])
        /\ client'[c].grabbed = client[c].grabbed /\ ~client'[c].own
    BY <1>6, ClientLosesDoes
  <2> QED
    BY <1>q, <1>r, <2>1 DEF OneState, SamePlace
<1>7. CASE Connect(c)
  <2>1. /\ toServer'[c] = <<>> /\ ~client'[c].own /\ ~client'[c].grabbed
        /\ \A i \in DOMAIN events' : events'[i].from # c
    BY <1>7, NewcomersAreFresh
  <2> QED
    BY <2>1 DEF OneState, Silent, NoneFrom
<1>8. CASE c \in linked /\ Untouched(c)
  <2>1. client'[c] = client[c] /\ local'[c] = local[c] /\ copies'[c] = copies[c]
    BY <1>8 DEF Untouched
  <2>2. ~ClientGrabbed(c)
    BY <2>1, ClientGrabbedDoes
  <2>3. Silent(c) /\ ~client[c].own => Silent(c)'
    BY <1>8, <2>2, SilentStays
  <2> QED
    BY <1>8, <2>1, <2>3 DEF OneState
<1> QED
  BY <1>1, <1>2, <1>3, <1>4, <1>5, <1>6, <1>7, <1>8, OnlyItsOwn, NewcomersConnect

OneCopy(c) == OneState(c) /\ \E n \in Nat : OneNumber(c, n)

\* A client that has not sent what it owns has the cursor, or will be told that
\* it has lost it before it is told that it has it again.
LEMMA OwnersStay ==
    ASSUME TypeOK, Linkage, Crossing, Next, NEW c \in linked, c \in linked', OneState(c),
           NEW n, OneNumber(c, n), ~ClientGrabbed(c), client'[c].own, ~client'[c].sent
    PROVE  client[c].own /\ ~client[c].sent /\ client'[c].active /\ n = client'[c].seq
<1> USE TypesAre DEF Types
<1>c. c \in Client /\ c \in Screen
  BY DEF Screen
<1>s. ASSUME SameOwner(client[c], client'[c]), SamePlace(client[c], client'[c])
      PROVE  client[c].own /\ ~client[c].sent /\ client'[c].active /\ n = client'[c].seq
  BY <1>s DEF SameOwner, SamePlace, OneNumber
<1>1. ASSUME NEW v \in Value, UserCopies(c, v) \/ ProgramCopies(c, v)
      PROVE  SameOwner(client[c], client'[c]) /\ SamePlace(client[c], client'[c])
  <2>1. Copy(c, v)
    BY <1>1 DEF UserCopies, ProgramCopies
  <2> QED
    BY <1>c, <2>1, CopyDoes
<1>2. ASSUME ClientEnters(c) PROVE FALSE
  <2>1. /\ Reads(c) /\ Head(toClient[c]).type = "enter" /\ SameOwner(client[c], client'[c])
    BY <1>2, <1>c, ClientEntersDoes
  <2>2. client[c].own /\ ~client[c].sent
    BY <2>1 DEF SameOwner
  <2>3. client[c].active /\ client[c].active = client[c].entered
    BY <2>2 DEF OneNumber, OneState
  <2>4. Alternate(toClient[c], client[c].entered) /\ client[c].entered
    BY <1>c, <2>3 DEF Crossing, Crosses
  <2>5. HasEnter(toClient[c], 1) /\ \A k \in DOMAIN toClient[c] : ~(k < 1)
    BY <2>1 DEF Reads, Shrunk, HasEnter
  <2> QED
    BY <2>4, <2>5 DEF Alternate, HasEnter
<1>3. ASSUME ClientLeaves(c) PROVE FALSE
  BY <1>3, <1>c, ClientLeavesDoes DEF SameOwner, MustSend
<1>4. ~ClientLosesClipboard(c)
  BY <1>c, ClientLosesDoes
<1>5. ~Connect(c)
  BY ConnectDoes
<1>6. Untouched(c) => SameOwner(client[c], client'[c]) /\ SamePlace(client[c], client'[c])
  BY DEF Untouched, SameOwner, SamePlace
<1> QED
  BY <1>c, <1>s, <1>1, <1>2, <1>3, <1>4, <1>5, <1>6, OnlyItsOwn

LEMMA OneNumberStep ==
    ASSUME TypeOK, Linkage, Crossing, Tenure, PrimaryIsNewest, Next, away' = 0,
           NEW c \in linked, c \in linked', Numbered(c), OneState(c), NEW n, OneNumber(c, n)
    PROVE  \E m \in Nat : OneNumber(c, m)'
<1> USE TypesAre DEF Types
<1>c. /\ c \in Client /\ client[c].seq \in Nat
      /\ Grab(client[c].seq) \in ToServer /\ Data(client[c].seq, local[c]) \in ToServer
  <2>1. client[c].seq \in Seqs /\ local[c] \in Content
    BY DEF ClientSet, Screen
  <2>2. client[c].seq \in Nat
    BY <2>1, ClipboardAssumption DEF Seqs
  <2>3. Grab(client[c].seq) \in ToServer /\ Data(client[c].seq, local[c]) \in ToServer
    BY <2>1, MessagesAre, Zenon
  <2>4. c \in Client
    OBVIOUS
  <2> QED
    BY <2>2, <2>3, <2>4, Zenon
<1>n. /\ n \in Nat /\ n > 0 /\ SendsOnly(events, toServer[c], c, n)
      /\ Announced(events, toServer[c], c) \/ Settled(c, n)
      /\ client[c].own /\ ~client[c].sent =>
             /\ client[c].active /\ n = client[c].seq
             /\ GrabComes(events, toServer[c], c) \/ Settled(c, n)
  BY DEF OneNumber
<1>s. ASSUME Settled(c, n), ~Announced(events, toServer[c], c) \/ (client[c].own /\ ~client[c].sent)
      PROVE  Settled(c, n)'
  <2>1. Claims(c, n)
    BY <1>c, <1>s, SendersClaim
  <2> QED
    BY <1>n, <1>s, <2>1, SettledStays
<1>k. ASSUME ~ClientGrabbed(c), SendsOnly(events', toServer'[c], c, n),
             Announced(events, toServer[c], c) => Announced(events', toServer'[c], c) \/ Settled(c, n)',
             GrabComes(events, toServer[c], c) => GrabComes(events', toServer'[c], c) \/ Settled(c, n)'
      PROVE  OneNumber(c, n)'
  <2>1. client'[c].own /\ ~client'[c].sent =>
            client[c].own /\ ~client[c].sent /\ client'[c].active /\ n = client'[c].seq
    BY <1>k, OwnersStay
  <2> QED
    BY <1>k, <2>1, NumberStays
<1>1. CASE ClientGrabbed(c)
  <2>m. PICK m \in Nat : m = client[c].seq
    BY <1>c
  <2> DEFINE grab == Grab(client[c].seq)
             data == Data(client[c].seq, local[c])
             one == Append(toServer[c], grab)
  <2>1. /\ client[c].grabbed /\ events' = events /\ SamePlace(client[c], client'[c])
        /\ \/ client[c].active /\ toServer'[c] = one
           \/ client'[c].sent /\ toServer'[c] = Append(one, data)
    BY <1>1, <1>c, ClientGrabbedDoes
  <2>2. m > 0 /\ toServer[c] = <<>> /\ NoneFrom(events, c)
    BY <2>m, <2>1 DEF OneState, Silent
  <2>3. Grown(toServer[c], one, grab) /\ Grown(one, Append(one, data), data)
    BY <1>c, AppendGrows
  <2>4. grab.seq = m /\ grab.type = "grab" /\ data.seq = m
    BY <2>m DEF Grab, Data
  <2> HIDE DEF grab, data, one
  <2>5. Announced(events, toServer[c], c) /\ SendsOnly(events, toServer[c], c, m)
    BY <2>2, NothingSent
  <2>6. Announced(events, one, c) /\ SendsOnly(events, one, c, m) /\ GrabSent(one)
    BY <2>3, <2>4, <2>5, GrownSends
  <2>7. /\ Announced(events, Append(one, data), c) /\ SendsOnly(events, Append(one, data), c, m)
        /\ GrabSent(Append(one, data))
    BY <2>3, <2>4, <2>6, GrownSends DEF GrabComes
  <2>8. Announced(events', toServer'[c], c) /\ SendsOnly(events', toServer'[c], c, m) /\ GrabSent(toServer'[c])
    BY <2>1, <2>6, <2>7
  <2>9. client'[c].own /\ ~client'[c].sent => client'[c].active
    BY <2>1 DEF SamePlace
  <2>10. client'[c].seq = m
    BY <2>m, <2>1 DEF SamePlace
  <2> QED
    BY <2>2, <2>8, <2>9, <2>10 DEF OneNumber, GrabComes
<1>2. CASE ~ClientGrabbed(c) /\ NoneOf(events, events', c) /\ toServer'[c] = toServer[c]
  <2>1. SendsOnly(events', toServer'[c], c, n)
    BY <1>2, <1>n DEF NoneOf
  <2>2. Announced(events, toServer[c], c) => Announced(events', toServer'[c], c)
    BY <1>2 DEF NoneOf, Announced
  <2>3. GrabComes(events, toServer[c], c) => GrabComes(events', toServer'[c], c)
    BY <1>2 DEF NoneOf, GrabComes
  <2> QED
    BY <1>2, <1>k, <1>n, <2>1, <2>2, <2>3
<1>3. CASE ~ClientGrabbed(c) /\ ClientLeaves(c) /\ events' = events /\ client[c].own /\ MustSend(c)
  <2> DEFINE data == Data(client[c].seq, local[c])
  <2>1. toServer'[c] = Append(toServer[c], data)
    BY <1>3, <1>c, ClientLeavesDoes
  <2>2. ~client[c].sent
    BY <1>3 DEF OneState, MustSend
  <2>3. Grown(toServer[c], toServer'[c], data)
    BY <1>c, <2>1, AppendGrows
  <2>4. data.seq = n
    BY <1>3, <1>n, <2>2 DEF Data
  <2> HIDE DEF data
  <2>5. SendsOnly(events', toServer'[c], c, n)
    BY <1>3, <1>n, <2>3, <2>4, GrownSends
  <2>6. Announced(events, toServer[c], c) /\ GrabComes(events, toServer[c], c) => Announced(events, toServer'[c], c)
    BY <2>3, GrownSends
  <2>7. GrabComes(events, toServer[c], c) \/ Settled(c, n)'
    BY <1>3, <1>n, <1>s, <2>2
  <2>8. GrabSent(toServer[c]) => GrabSent(toServer'[c])
    BY <2>3, GrownSends
  <2>9. GrabComes(events, toServer[c], c) => GrabComes(events', toServer'[c], c)
    BY <1>3, <2>8 DEF GrabComes
  <2> QED
    BY <1>3, <1>k, <1>n, <2>5, <2>6, <2>7, <2>9
<1>4. CASE ~ClientGrabbed(c) /\ ServerReceives(c)
  <2> DEFINE m == Head(toServer[c])
  <2>1. Shrunk(toServer[c], toServer'[c], m) /\ Grown(events, events', Posted(c, m))
    BY <1>4, <1>c, ServerReceivesDoes
  <2> HIDE DEF m
  <2>2. SendsOnly(events', toServer'[c], c, n)
    BY <1>n, <2>1, PostedSends
  <2>3. Announced(events, toServer[c], c) => Announced(events', toServer'[c], c)
    BY <2>1, PostedSends
  <2>4. GrabComes(events, toServer[c], c) => GrabComes(events', toServer'[c], c)
    BY <2>1, PostedSends
  <2> QED
    BY <1>4, <1>k, <1>n, <2>2, <2>3, <2>4
<1>h. ASSUME NEW q, NEW p, NEW e, NEW t, e.from = c, Shrunk(q, p, e)
      PROVE  /\ SendsOnly(q, t, c, n) => SendsOnly(p, t, c, n) /\ e.seq = n
             /\ Announced(q, t, c) => e.type # "changed"
  BY <1>h, HandledSends
<1>5. CASE /\ ~ClientGrabbed(c) /\ (ClipboardGrabbed \/ ClipboardChanged)
           /\ Handles(Head(events)) /\ Head(events).from = c /\ toServer'[c] = toServer[c]
  <2>1. Shrunk(events, events', Head(events)) /\ Head(events).from = c
    BY <1>5 DEF Handles
  <2>2. SendsOnly(events', toServer[c], c, n) /\ Head(events).seq = n
    BY <1>n, <1>h, <2>1
  <2>3. Announced(events, toServer[c], c) => Head(events).type # "changed"
    BY <1>h, <2>1
  <2>4. Settled(c, n)'
    <3>1. CASE ClipboardGrabbed
      BY <1>5, <2>2, <3>1, GrabSettles
    <3>2. CASE ClipboardChanged
      BY <1>n, <1>s, <2>3, <3>2 DEF ClipboardChanged
    <3> QED
      BY <1>5, <3>1, <3>2
  <2>5. SendsOnly(events', toServer'[c], c, n)
    BY <1>5, <2>2
  <2> QED
    BY <1>5, <1>k, <1>n, <2>4, <2>5
<1> QED
  BY <1>n, <1>1, <1>2, <1>3, <1>4, <1>5, SendsStep

LEMMA OneCopyStep ==
    ASSUME TypeOK, Linkage, Crossing, Tenure, PrimaryIsNewest, Next, away' = 0,
           NEW c \in Client, c \in linked', copies'[c] =< 1, c \in linked => Numbered(c) /\ OneCopy(c)
    PROVE  OneCopy(c)'
<1>1. OneState(c)'
  BY OneStateStep DEF OneCopy
<1>2. CASE c \in linked
  <2>1. PICK n \in Nat : OneNumber(c, n)
    BY <1>2 DEF OneCopy
  <2>2. \E m \in Nat : OneNumber(c, m)'
    BY <1>2, <2>1, OneNumberStep DEF OneCopy
  <2> QED
    BY <1>1, <2>2 DEF OneCopy
<1>3. CASE Connect(c)
  <2>1. toServer'[c] = <<>> /\ ~client'[c].own /\ NoneFrom(events', c)
    BY <1>3, NewcomersAreFresh DEF NoneFrom
  <2>2. Announced(events', toServer'[c], c) /\ SendsOnly(events', toServer'[c], c, 1)
    BY <2>1, NothingSent
  <2>3. OneNumber(c, 1)'
    BY <2>1, <2>2 DEF OneNumber
  <2> QED
    BY <1>1, <2>3 DEF OneCopy
<1> QED
  BY <1>2, <1>3, NewcomersConnect

\* Data that arrive are of the owner or too old.
LEMMA NoFaultStep ==
    ASSUME TypeOK, Linkage, Next, \A c \in linked : OneCopy(c)
    PROVE  ~fault'
<1> USE TypesAre DEF Types
<1>0. ~fault
  BY DEF Next
<1>1. ASSUME NEW s \in Screen, NEW v \in Value, UserCopies(s, v) \/ ProgramCopies(s, v) PROVE fault' = fault
  <2>1. Copy(s, v)
    BY <1>1 DEF UserCopies, ProgramCopies
  <2> QED
    BY <2>1, CopyDoes
<1>2. ASSUME NEW c \in Client, ClientGrabbed(c) PROVE fault' = fault
  BY <1>2, ClientGrabbedDoes
<1>3. ASSUME NEW c \in Client, ClientEnters(c) PROVE fault' = fault
  BY <1>3, ClientEntersDoes
<1>4. ASSUME NEW c \in Client, ClientLeaves(c) PROVE fault' = fault
  BY <1>4, ClientLeavesDoes
<1>5. ASSUME NEW c \in Client, ClientLosesClipboard(c) PROVE fault' = fault
  BY <1>5, ClientLosesDoes
<1>6. ASSUME NEW c \in Client, ServerReceives(c) PROVE fault' = fault
  BY <1>6, ServerReceivesDoes
<1>7. ASSUME NEW c \in Client, Connect(c) PROVE fault' = fault
  BY <1>7, ConnectDoes
<1>8. ASSUME NEW c \in Client, Disconnect(c) PROVE fault' = fault
  BY <1>8, DisconnectDoes
<1>9. CASE ClipboardGrabbed
  BY <1>0, <1>9, ClipboardGrabbedDoes
<1>10. CASE ClipboardChanged
  <2> DEFINE e == Head(events)
  <2>1. /\ Handles(e) /\ e.type = "changed" /\ e.from \in Client
        /\ fault' = fault \/ (e.seq >= clipboard.seq /\ clipboard.owner # e.from)
    BY <1>10, ClipboardChangedDoes
  <2>2. e.from \in linked /\ Shrunk(events, events', e)
    BY <2>1, ClipboardAssumption DEF Linkage, Listed, Handles
  <2>3. clipboard.seq \in Nat /\ e.seq \in Nat
    BY <2>1, ClipboardAssumption DEF Handles, Seqs
  <2> HIDE DEF e
  <2>4. PICK c \in linked, n \in Nat : c = e.from /\ OneNumber(c, n)
    BY <2>2 DEF OneCopy
  <2>h. ASSUME NEW q, NEW p, NEW d, NEW t, d.from = c, Shrunk(q, p, d)
        PROVE  /\ SendsOnly(q, t, c, n) => d.seq = n
               /\ Announced(q, t, c) => d.type # "changed"
    BY <2>h, HandledSends
  <2>5. /\ SendsOnly(events, toServer[c], c, n) => e.seq = n
        /\ Announced(events, toServer[c], c) => e.type # "changed"
    BY <2>h, <2>2, <2>4
  <2>6. e.seq = n /\ Settled(c, n)
    BY <2>1, <2>4, <2>5 DEF OneNumber
  <2> QED
    BY <1>0, <2>1, <2>3, <2>4, <2>6 DEF Settled
<1>11. CASE Dropped
  BY <1>0, <1>11, DroppedDoes
<1>12. ASSUME NEW dst \in Screen, SwitchScreen(dst) PROVE fault' = fault
  BY <1>12, SwitchScreenDoes
<1> QED
  BY <1>0, <1>1, <1>2, <1>3, <1>4, <1>5, <1>6, <1>7, <1>8, <1>9, <1>10, <1>11, <1>12 DEF Next

LEMMA CopiesGrow ==
    ASSUME TypeOK, Linkage, Next, NEW c \in Client
    PROVE  copies[c] =< copies'[c]
<1> USE TypesAre DEF Types
<1>0. copies[c] \in Nat
  BY DEF Screen
<1>s. ASSUME copies' = copies PROVE copies[c] =< copies'[c]
  BY <1>0, <1>s
<1>1. ASSUME NEW s \in Screen, NEW v \in Value, UserCopies(s, v) \/ ProgramCopies(s, v)
      PROVE  copies[c] =< copies'[c]
  <2>1. copies' = copies \/ copies' = [copies EXCEPT ![s] = @ + 1]
    BY <1>1 DEF UserCopies, ProgramCopies
  <2>2. CASE copies' = [copies EXCEPT ![s] = @ + 1]
    <3>1. copies'[c] = IF c = s THEN copies[c] + 1 ELSE copies[c]
      BY <2>2 DEF Screen
    <3> QED
      BY <1>0, <3>1
  <2> QED
    BY <1>s, <2>1, <2>2
<1>2. ASSUME NEW d \in Client, ClientGrabbed(d) PROVE copies' = copies
  BY <1>2, ClientGrabbedDoes
<1>3. ASSUME NEW d \in Client, ClientEnters(d) PROVE copies' = copies
  BY <1>3, ClientEntersDoes
<1>4. ASSUME NEW d \in Client, ClientLeaves(d) PROVE copies' = copies
  BY <1>4, ClientLeavesDoes
<1>5. ASSUME NEW d \in Client, ClientLosesClipboard(d) PROVE copies' = copies
  BY <1>5, ClientLosesDoes
<1>6. ASSUME NEW d \in Client, ServerReceives(d) PROVE copies' = copies
  BY <1>6, ServerReceivesDoes
<1>7. ASSUME NEW d \in Client, Connect(d) PROVE copies' = copies
  BY <1>7, ConnectDoes
<1>8. ASSUME NEW d \in Client, Disconnect(d) PROVE copies' = copies
  BY <1>8, DisconnectDoes
<1>9. CASE ClipboardGrabbed
  BY <1>9, <1>s, ClipboardGrabbedDoes
<1>10. CASE ClipboardChanged
  BY <1>10, <1>s, ClipboardChangedDoes
<1>11. CASE Dropped
  BY <1>11, <1>s, DroppedDoes
<1>12. ASSUME NEW dst \in Screen, SwitchScreen(dst) PROVE copies' = copies
  BY <1>12, SwitchScreenDoes
<1> QED
  BY <1>s, <1>1, <1>2, <1>3, <1>4, <1>5, <1>6, <1>7, <1>8, <1>9, <1>10, <1>11, <1>12 DEF Next

CopiedOnce == away = 0 /\ \A c \in Client : copies[c] =< 1

CopyInv ==
    /\ AgreeInv /\ Tenure /\ PrimaryIsNewest
    /\ \A c \in linked : Numbered(c)
    /\ CopiedOnce => ~fault /\ \A c \in linked : OneCopy(c)

LEMMA CopyInit == Init => CopyInv
<1> SUFFICES ASSUME Init PROVE CopyInv
  OBVIOUS
<1>1. AgreeInv
  BY AgreeInit
<1>2. linked = {} /\ ~fault /\ events = <<>>
  BY DEF Init
<1>3. Tenure
  BY <1>2 DEF Tenure, Init
<1>4. PrimaryIsNewest
  BY <1>2, NothingIn DEF PrimaryIsNewest, Newest
<1> QED
  BY <1>1, <1>2, <1>3, <1>4 DEF CopyInv

LEMMA CopyStep == CopyInv /\ [Next]_vars => CopyInv'
<1>1. ASSUME CopyInv, Next PROVE CopyInv'
  <2>1. TypeOK /\ Linkage /\ Crossing /\ Tenure /\ PrimaryIsNewest
    BY <1>1 DEF CopyInv, AgreeInv
  <2>2. TypeOK' /\ linked' \subseteq Client /\ linked \subseteq Client
    <3>1. TypeOK'
      BY <1>1, <2>1, TypeStep
    <3> QED
      BY <2>1, <3>1, TypesAre DEF Types
  <2>3. AgreeInv' /\ Tenure' /\ PrimaryIsNewest'
    BY <1>1, <2>1, AgreeStep, TenureStep, NewestStep DEF CopyInv
  <2>4. ASSUME NEW c \in linked' PROVE Numbered(c)'
    BY <1>1, <2>1, <2>2, NumberedStep DEF CopyInv
  <2>5. ASSUME CopiedOnce' PROVE ~fault' /\ \A c \in linked' : OneCopy(c)'
    <3>1. away' = 0 /\ \A c \in Client : copies'[c] =< 1
      BY <2>5 DEF CopiedOnce
    <3>2. away = 0
      BY <1>1, <2>1, <3>1, EventsStep
    <3>3. \A c \in Client : copies[c] =< 1
      <4> SUFFICES ASSUME NEW c \in Client PROVE copies[c] =< 1
        OBVIOUS
      <4>1. copies[c] =< copies'[c] /\ copies'[c] =< 1
        BY <1>1, <2>1, <3>1, CopiesGrow
      <4>2. copies[c] \in Nat /\ copies'[c] \in Nat
        BY <2>1, <2>2, TypesAre DEF Types, Screen
      <4> QED
        BY <4>1, <4>2
    <3>4. \A c \in linked : Numbered(c) /\ OneCopy(c)
      BY <1>1, <3>2, <3>3 DEF CopyInv, CopiedOnce
    <3>5. ~fault'
      BY <1>1, <2>1, <3>4, NoFaultStep
    <3>6. ASSUME NEW c \in linked' PROVE OneCopy(c)'
      BY <1>1, <2>1, <2>2, <3>1, <3>4, OneCopyStep
    <3> QED
      BY <3>5, <3>6
  <2> QED
    BY <2>3, <2>4, <2>5 DEF CopyInv
<1>2. ASSUME CopyInv, UNCHANGED vars PROVE CopyInv'
  <2>1. UNCHANGED <<clipboard, active, seqNum, linked, dirty, held, events, toClient, toServer, client,
                    local, ours, primarySeq, copies, away, connections, fault>>
    BY <1>2 DEF vars, shared, proxies, wires, screens, bounds
  <2>2. AgreeInv'
    BY <1>2, AgreeStep DEF CopyInv
  <2>3. Tenure'
    BY <1>2, <2>1 DEF CopyInv, Tenure, Claims, PrimaryClaims
  <2>4. PrimaryIsNewest' /\ \A c \in linked' : Numbered(c)'
    BY <1>2, <2>1 DEF CopyInv, PrimaryIsNewest, Numbered
  <2>5. CopiedOnce' => CopiedOnce
    BY <2>1 DEF CopiedOnce
  <2>6. ASSUME NEW c, OneCopy(c) PROVE OneCopy(c)'
    <3>1. OneState(c)'
      BY <2>1, <2>6 DEF OneCopy, OneState, Silent
    <3>2. ASSUME NEW n, OneNumber(c, n) PROVE OneNumber(c, n)'
      BY <2>1, <3>2 DEF OneNumber, Settled
    <3> QED
      BY <2>6, <3>1, <3>2 DEF OneCopy
  <2> QED
    BY <1>2, <2>1, <2>2, <2>3, <2>4, <2>5, <2>6 DEF CopyInv
<1> QED
  BY <1>1, <1>2

\* As long as nothing is copied but by the user with the cursor, and on no client
\* twice, data that are not refused come from the owner: the assert of
\* onClipboardChanged holds, for any clients, contents and bounds.
THEOREM LaterCopyAlwaysWins == Spec => []LaterCopyWins
<1>1. Init => CopyInv
  BY CopyInit
<1>2. CopyInv /\ [Next]_vars => CopyInv'
  BY CopyStep
<1>3. CopyInv => LaterCopyWins
  BY DEF CopyInv, CopiedOnce, LaterCopyWins
<1> QED
  BY <1>1, <1>2, <1>3, PTL DEF Spec
=============================================================================
