--------------------------- MODULE Admission_proofs ---------------------------
(***************************************************************************)
(* That every connection has one owner, who hears of its end, and that     *)
(* something moves it on, for any number of connections and restarts.      *)
(*                                                                         *)
(* What is to be known of a connection is Local: which events are posted   *)
(* for it, in which order, who handles them and who owns its proxy.  A     *)
(* handler is about one connection, so it suffices to look at that one,    *)
(* and at the queue of events for the others.                              *)
(***************************************************************************)
EXTENDS Admission, FiniteSetTheorems, SequenceTheorems, TLAPS

\* The events of a connection in a queue.
Has(q, type, c) == \E i \in DOMAIN q : q[i] = Event(type, c)
Once(q, type, c) == \A i, j \in DOMAIN q : q[i] = Event(type, c) /\ q[j] = Event(type, c) => i = j

\* What the proxy posts last is disconnected.
ReadyFirst(q, c) ==
    \A i, j \in DOMAIN q :
        q[i] = Event("disconnected", c) /\ q[j] = Event("ready", c) => j < i

\* Who belongs to a server, or belonged to it until it was deleted.
Served == adopted \cup abandoned

\* A connection that was not greeted yet is nowhere, and nothing but its
\* connecting is posted for it, which is posted once.
Fresh(c) ==
    /\ client[c] \in {"away", "connecting"} =>
          /\ job[c] = NoJobs /\ unknown[c] = NoUnknown /\ proxy[c] = "none"
          /\ c \notin newClients /\ c \notin Waiting /\ c \notin Served
          /\ \A type \in EventType : Has(queue, type, c) => type = "connecting"
    /\ Has(queue, "connecting", c) => client[c] = "connecting"
    /\ Once(queue, "connecting", c)

\* The CClientProxyUnknown is ready only with a proxy, and has one only while it is
\* listed.  Its handlers for the proxy's events may outlive the proxy, but then there
\* is no event for them.
Handshake(c) ==
    /\ unknown[c].ready => unknown[c].proxy
    /\ unknown[c].proxy => c \in newClients
    /\ job[c].stream = "unknown" => c \in newClients /\ proxy[c] = "none" /\ ~unknown[c].proxy
    /\ job[c].stream = "proxy" => Live(c)
    /\ job[c].stream = "unknown" => ~Has(queue, "success", c)
    /\ job[c].stream = "unknown" \/ unknown[c].proxy => ~Has(queue, "failure", c)
    /\ unknown[c].proxy /\ Has(queue, "success", c) => unknown[c].ready
    /\ c \in newClients => job[c].success = "listener" /\ job[c].failure = "listener"
    /\ job[c].ready = "unknown" \/ job[c].disconnected = "unknown"
           => \/ unknown[c].proxy
              \/ ~Live(c) /\ ~Has(queue, "ready", c) /\ ~Has(queue, "disconnected", c)

\* What a proxy posts: ready, and disconnected, once, when it stops reading.
ProxyPosts(c) ==
    /\ Has(queue, "disconnected", c) => job[c].stream = "none"
    /\ proxy[c] = "none" => ~Has(queue, "disconnected", c) /\ ~Has(queue, "ready", c)
    /\ Once(queue, "disconnected", c)
    /\ ReadyFirst(queue, c)

\* A proxy that lives has one owner, who watches it.
Owned(c) ==
    /\ ~(c \in newClients /\ c \in Waiting) /\ ~(c \in newClients /\ c \in Served)
    /\ ~(c \in Waiting /\ c \in Served)
    /\ Live(c) <=> (c \in newClients /\ unknown[c].proxy) \/ c \in Waiting \/ c \in Served
    /\ c \in newClients /\ unknown[c].proxy => job[c].disconnected = "unknown"
    /\ c \in Waiting => job[c].disconnected = "listener"
    /\ c \in Served => job[c].disconnected = "server"

\* A new client has its time limit, or the result of its handshake is posted.
MovesOn(c) ==
    c \in newClients => c \in timer \/ Has(queue, "success", c) \/ Has(queue, "failure", c)

Local(c) == Fresh(c) /\ Handshake(c) /\ ProxyPosts(c) /\ Owned(c) /\ MovesOn(c)

\* m_waitingClients holds nobody twice, and nobody while the server is closed.
In(d, w) == \E i \in DOMAIN w : w[i] = d
AllDiffer(w) == \A i, j \in DOMAIN w : w[i] = w[j] => i = j
WhileServing == app # "serving" => newClients = {} /\ waiting = <<>>

\* What a server was deleted with is nobody else's; closeServer waits for those
\* it told to go.
ServerKnows == adopted \cap abandoned = {} /\ WaitsForToldOnly

\* The inductive invariant.
IInv ==
    /\ TypeOK /\ AllDiffer(waiting) /\ WhileServing /\ WaitingAreAnnounced
    /\ ServerKnows
    /\ \A c \in Conn : Local(c)

-----------------------------------------------------------------------------
LEMMA TypesAre ==
    /\ EventType = {"hello", "info", "broken", "connecting", "ready", "disconnected",
                    "success", "failure", "connected"}
    /\ StreamEvent = {"hello", "info", "broken"}
    /\ Handled = {"stream", "ready", "disconnected", "success", "failure"}
BY DEF EventType, StreamEvent, Handled

LEMMA EventIs ==
    /\ \A t \in EventType, c \in Conn : Event(t, c) \in EventType \X Conn
    /\ \A t, u, c, d : Event(t, c) = Event(u, d) <=> t = u /\ c = d
BY DEF Event

\* What the queue keeps when its head is taken, and when an event is added.
LEMMA TailKeeps ==
    ASSUME NEW q \in Seq(EventType \X Conn), q # <<>>, NEW t, NEW c, Head(q) = Event(t, c),
           NEW u, NEW d
    PROVE  /\ Tail(q) \in Seq(EventType \X Conn)
           /\ Has(q, t, c)
           /\ Has(Tail(q), u, d) => Has(q, u, d)
           /\ u # t \/ d # c => (Has(q, u, d) => Has(Tail(q), u, d))
           /\ Once(q, u, d) => Once(Tail(q), u, d)
           /\ u = t /\ d = c /\ Once(q, u, d) => ~Has(Tail(q), u, d)
           /\ ReadyFirst(q, d) => ReadyFirst(Tail(q), d)
           /\ t = "disconnected" /\ d = c /\ ReadyFirst(q, d) => ~Has(Tail(q), "ready", d)
<1>0. Len(q) \in Nat /\ Len(q) # 0 /\ DOMAIN q = 1..Len(q)
  BY LenProperties, EmptySeq
<1>1. /\ Tail(q) \in Seq(EventType \X Conn) /\ Len(Tail(q)) = Len(q) - 1
      /\ \A i \in 1..Len(Tail(q)) : Tail(q)[i] = q[i + 1]
      /\ q[1] = Event(t, c)
  BY HeadTailProperties
<1>2. DOMAIN Tail(q) = 1..Len(q) - 1
  BY <1>1, LenProperties
<1>3. \A i \in DOMAIN Tail(q) : i + 1 \in DOMAIN q /\ Tail(q)[i] = q[i + 1] /\ i \in Nat
  BY <1>0, <1>1, <1>2
<1>4. \A i \in DOMAIN q : i = 1 \/ (i - 1 \in DOMAIN Tail(q) /\ Tail(q)[i - 1] = q[i])
  BY <1>0, <1>1, <1>2
<1>5. 1 \in DOMAIN q /\ \A i \in DOMAIN q : i \in Nat
  BY <1>0
<1> HIDE <1>0
<1>6. Has(q, t, c)
  BY <1>1, <1>5 DEF Has
<1>7. Has(Tail(q), u, d) => Has(q, u, d)
  BY <1>3 DEF Has
<1>8. u # t \/ d # c => (Has(q, u, d) => Has(Tail(q), u, d))
  <2> SUFFICES ASSUME u # t \/ d # c, NEW i \in DOMAIN q, q[i] = Event(u, d)
               PROVE  Has(Tail(q), u, d)
    BY DEF Has
  <2>1. i # 1
    BY <1>1, EventIs
  <2> QED
    BY <2>1, <1>4 DEF Has
<1>9. Once(q, u, d) => Once(Tail(q), u, d)
  <2> SUFFICES ASSUME Once(q, u, d), NEW i \in DOMAIN Tail(q), NEW j \in DOMAIN Tail(q),
                      Tail(q)[i] = Event(u, d), Tail(q)[j] = Event(u, d)
               PROVE  i = j
    BY DEF Once
  <2>1. i + 1 = j + 1
    BY <1>3 DEF Once
  <2> QED
    BY <2>1, <1>3
<1>10. u = t /\ d = c /\ Once(q, u, d) => ~Has(Tail(q), u, d)
  <2> SUFFICES ASSUME Once(q, t, c), NEW i \in DOMAIN Tail(q), Tail(q)[i] = Event(t, c)
               PROVE  FALSE
    BY DEF Has
  <2>1. i + 1 = 1
    BY <1>1, <1>3, <1>5 DEF Once
  <2> QED
    BY <2>1, <1>2, <1>3, <1>0
<1>11. ReadyFirst(q, d) => ReadyFirst(Tail(q), d)
  <2> SUFFICES ASSUME ReadyFirst(q, d), NEW i \in DOMAIN Tail(q), NEW j \in DOMAIN Tail(q),
                      Tail(q)[i] = Event("disconnected", d), Tail(q)[j] = Event("ready", d)
               PROVE  j < i
    BY DEF ReadyFirst
  <2>1. j + 1 < i + 1
    BY <1>3 DEF ReadyFirst
  <2> QED
    BY <2>1, <1>3
<1>12. t = "disconnected" /\ d = c /\ ReadyFirst(q, d) => ~Has(Tail(q), "ready", d)
  <2> SUFFICES ASSUME t = "disconnected", ReadyFirst(q, c), NEW i \in DOMAIN Tail(q),
                      Tail(q)[i] = Event("ready", c)
               PROVE  FALSE
    BY DEF Has
  <2>1. i + 1 < 1
    BY <1>1, <1>3, <1>5 DEF ReadyFirst
  <2> QED
    BY <2>1, <1>3
<1> QED
  BY <1>1, <1>6, <1>7, <1>8, <1>9, <1>10, <1>11, <1>12

LEMMA AppendKeeps ==
    ASSUME NEW q \in Seq(EventType \X Conn), NEW t \in EventType, NEW c \in Conn, NEW u, NEW d
    PROVE  LET more == Append(q, Event(t, c)) IN
           /\ more \in Seq(EventType \X Conn)
           /\ Has(more, u, d) <=> Has(q, u, d) \/ (u = t /\ d = c)
           /\ Once(q, u, d) /\ (u # t \/ d # c \/ ~Has(q, u, d)) => Once(more, u, d)
           /\ ReadyFirst(q, d) /\ (t # "ready" \/ d # c \/ ~Has(q, "disconnected", d))
                  => ReadyFirst(more, d)
<1> DEFINE more == Append(q, Event(t, c))
<1>1. Event(t, c) \in EventType \X Conn
  BY EventIs
<1>2. Len(q) \in Nat /\ DOMAIN q = 1..Len(q)
  BY LenProperties
<1>3. /\ more \in Seq(EventType \X Conn) /\ Len(more) = Len(q) + 1
      /\ \A i \in 1..Len(q) : more[i] = q[i]
      /\ more[Len(q) + 1] = Event(t, c)
  BY <1>1, AppendProperties
<1> HIDE DEF more
<1>4. DOMAIN more = 1..Len(q) + 1
  BY <1>3, LenProperties
<1>5. /\ \A i \in DOMAIN q : i \in Nat /\ i < Len(q) + 1 /\ i \in DOMAIN more /\ more[i] = q[i]
      /\ \A i \in DOMAIN more : i = Len(q) + 1 \/ i \in DOMAIN q
      /\ Len(q) + 1 \in DOMAIN more
  BY <1>2, <1>3, <1>4
<1>6. Has(more, u, d) <=> Has(q, u, d) \/ (u = t /\ d = c)
  BY <1>3, <1>5, EventIs DEF Has
<1>7. Once(q, u, d) /\ (u # t \/ d # c \/ ~Has(q, u, d)) => Once(more, u, d)
  <2> SUFFICES ASSUME Once(q, u, d), u # t \/ d # c \/ ~Has(q, u, d),
                      NEW i \in DOMAIN more, NEW j \in DOMAIN more,
                      more[i] = Event(u, d), more[j] = Event(u, d)
               PROVE  i = j
    BY DEF Once
  <2>1. CASE u # t \/ d # c
    <3>1. i \in DOMAIN q /\ j \in DOMAIN q
      BY <2>1, <1>3, <1>5, EventIs
    <3> QED
      BY <3>1, <1>5 DEF Once
  <2>2. CASE ~Has(q, u, d)
    <3>1. i \notin DOMAIN q /\ j \notin DOMAIN q
      BY <2>2, <1>5 DEF Has
    <3> QED
      BY <3>1, <1>5
  <2> QED
    BY <2>1, <2>2
<1>8. ReadyFirst(q, d) /\ (t # "ready" \/ d # c \/ ~Has(q, "disconnected", d))
        => ReadyFirst(more, d)
  <2> SUFFICES ASSUME ReadyFirst(q, d), t # "ready" \/ d # c \/ ~Has(q, "disconnected", d),
                      NEW i \in DOMAIN more, NEW j \in DOMAIN more,
                      more[i] = Event("disconnected", d), more[j] = Event("ready", d)
               PROVE  j < i
    BY DEF ReadyFirst
  <2>1. CASE i \in DOMAIN q
    <3>1. Has(q, "disconnected", d)
      BY <2>1, <1>5 DEF Has
    <3>2. j \in DOMAIN q
      BY <3>1, <1>3, <1>5, EventIs
    <3> QED
      BY <2>1, <3>2, <1>5 DEF ReadyFirst
  <2>2. CASE i = Len(q) + 1
    <3>1. j # Len(q) + 1
      BY <2>2, <1>3, EventIs
    <3> QED
      BY <2>2, <3>1, <1>5
  <2> QED
    BY <2>1, <2>2, <1>5
<1> QED
  BY <1>3, <1>6, <1>7, <1>8 DEF more

\* What a step may do to the queue: take the event t of c, post the event u of c.
Some == EventType \cup {"none"}
QueueStep(t, u, c) ==
    LET rest == IF t = "none" THEN queue ELSE Tail(queue) IN
    /\ t # "none" => queue # <<>> /\ Head(queue) = Event(t, c)
    /\ queue' = IF u = "none" THEN rest ELSE Append(rest, Event(u, c))

\* What it leaves of the events of c, and of those of the others.
After(t, u, c) ==
    /\ \A w : Has(queue', w, c) => (w = u /\ u # "none") \/ Has(queue, w, c)
    /\ \A w : w # t /\ Has(queue, w, c) => Has(queue', w, c)
    /\ u # "none" => Has(queue', u, c)
    /\ t # "none" => Has(queue, t, c)
    /\ \A w : Once(queue, w, c) /\ (w # u \/ u = "none" \/ ~Has(queue, w, c))
                  => Once(queue', w, c)
    /\ t # "none" /\ t # u /\ Once(queue, t, c) => ~Has(queue', t, c)
    /\ ReadyFirst(queue, c) /\ (u # "ready" \/ ~Has(queue, "disconnected", c))
           => ReadyFirst(queue', c)
    /\ t = "disconnected" /\ u # "ready" /\ ReadyFirst(queue, c) => ~Has(queue', "ready", c)

SameFor(d) ==
    /\ \A w : Has(queue', w, d) => Has(queue, w, d)
    /\ \A w : w # "connected" /\ Has(queue, w, d) => Has(queue', w, d)
    /\ \A w : Once(queue, w, d) => Once(queue', w, d)
    /\ ReadyFirst(queue, d) => ReadyFirst(queue', d)

LEMMA QueueAfter ==
    ASSUME queue \in Seq(EventType \X Conn),
           NEW t \in Some, NEW u \in Some, NEW c \in Conn, QueueStep(t, u, c)
    PROVE  /\ queue' \in Seq(EventType \X Conn)
           /\ After(t, u, c)
           /\ \A d \in Conn : d # c => SameFor(d)
<1> DEFINE rest == IF t = "none" THEN queue ELSE Tail(queue)
<1>1. rest \in Seq(EventType \X Conn)
  BY TailKeeps DEF QueueStep
<1>2. queue' = IF u = "none" THEN rest ELSE Append(rest, Event(u, c))
  BY DEF QueueStep
<1>3. /\ \A w : Has(rest, w, c) => Has(queue, w, c)
      /\ \A w : w # t /\ Has(queue, w, c) => Has(rest, w, c)
      /\ t # "none" => Has(queue, t, c)
      /\ \A w : Once(queue, w, c) => Once(rest, w, c)
      /\ t # "none" /\ Once(queue, t, c) => ~Has(rest, t, c)
      /\ ReadyFirst(queue, c) => ReadyFirst(rest, c)
      /\ t = "disconnected" /\ ReadyFirst(queue, c) => ~Has(rest, "ready", c)
  <2>1. CASE t = "none"
    BY <2>1
  <2>2. CASE t # "none"
    BY <2>2, TailKeeps DEF QueueStep
  <2> QED
    BY <2>1, <2>2
<1>4. \A d \in Conn : d # c =>
         /\ \A w : Has(queue, w, d) <=> Has(rest, w, d)
         /\ \A w : Once(queue, w, d) => Once(rest, w, d)
         /\ ReadyFirst(queue, d) => ReadyFirst(rest, d)
  <2>1. CASE t = "none"
    BY <2>1
  <2>2. CASE t # "none"
    BY <2>2, TailKeeps DEF QueueStep
  <2> QED
    BY <2>1, <2>2
<1> HIDE DEF rest
<1>5. CASE u = "none"
  <2>1. After(t, u, c)
    BY <1>2, <1>3, <1>5 DEF After
  <2> QED
    BY <1>1, <1>2, <1>4, <1>5, <2>1 DEF SameFor
<1>6. CASE u # "none"
  <2>1. u \in EventType /\ queue' = Append(rest, Event(u, c))
    BY <1>2, <1>6 DEF Some
  <2>2. queue' \in Seq(EventType \X Conn)
    BY <1>1, <2>1, AppendKeeps
  <2>3. \A d : /\ \A w : Has(queue', w, d) <=> Has(rest, w, d) \/ (u = w /\ d = c)
               /\ \A w : Once(rest, w, d) /\ (w # u \/ d # c \/ ~Has(rest, w, d))
                             => Once(queue', w, d)
               /\ ReadyFirst(rest, d) /\ (u # "ready" \/ d # c \/ ~Has(rest, "disconnected", d))
                      => ReadyFirst(queue', d)
    BY <1>1, <2>1, AppendKeeps
  <2>4. After(t, u, c)
    BY <1>3, <1>6, <2>3 DEF After
  <2>5. \A d \in Conn : d # c => SameFor(d)
    BY <1>4, <2>3 DEF SameFor
  <2> QED
    BY <2>2, <2>4, <2>5
<1> QED
  BY <1>5, <1>6

\* What else is of a connection, and is left alone.
SameOf(d) ==
    /\ job'[d] = job[d] /\ unknown'[d] = unknown[d] /\ proxy'[d] = proxy[d]
    /\ client'[d] = client[d]
    /\ d \in timer' <=> d \in timer
    /\ d \in newClients' <=> d \in newClients
    /\ d \in Waiting' <=> d \in Waiting
    /\ d \in Served' <=> d \in Served

LEMMA OthersStayLocal ==
    ASSUME NEW d, SameFor(d), SameOf(d), Local(d)
    PROVE  Local(d)'
<1>1. Fresh(d)'
  BY DEF Local, Fresh, SameFor, SameOf
<1>2. Handshake(d)'
  BY DEF Local, Handshake, SameFor, SameOf, Live
<1>3. ProxyPosts(d)'
  BY DEF Local, ProxyPosts, SameFor, SameOf
<1>4. Owned(d)'
  BY DEF Local, Owned, SameOf, Live
<1>5. MovesOn(d)'
  BY DEF Local, MovesOn, SameFor, SameOf
<1> QED
  BY <1>1, <1>2, <1>3, <1>4, <1>5 DEF Local

-----------------------------------------------------------------------------
\* A connection of which anything is known was greeted, and stays so.
Met(c) == client[c] \notin {"away", "connecting"}

LEMMA KnownIsMet ==
    ASSUME NEW c, Local(c),
           \/ job[c].stream # "none" \/ c \in newClients \/ c \in Waiting \/ c \in Served
           \/ \E t \in EventType \ {"connecting"} : Has(queue, t, c)
    PROVE  Met(c)
BY DEF Local, Fresh, Met, NoJobs, Handled

LEMMA MetStaysMet ==
    ASSUME NEW c, Local(c), Met(c), Met(c)', NEW t, NEW u, u # "connecting", After(t, u, c)
    PROVE  Fresh(c)'
BY DEF Local, Fresh, Met, After

\* The step of one connection.
LocalStep(c) ==
    /\ TypeOK' /\ \A d \in Conn : Local(d)'
    /\ \E t \in Some \ {"connected"}, u \in Some : QueueStep(t, u, c)

LEMMA LocalStepFrom ==
    ASSUME IInv, NEW c \in Conn, NEW t \in Some \ {"connected"}, NEW u \in Some, QueueStep(t, u, c),
           queue' \in Seq(EventType \X Conn) => TypeOK',
           \A d \in Conn : d # c => SameOf(d),
           After(t, u, c) => Local(c)'
    PROVE  LocalStep(c)
<1>1. /\ queue' \in Seq(EventType \X Conn) /\ After(t, u, c)
      /\ \A d \in Conn : d # c => SameFor(d)
  BY QueueAfter DEF IInv, TypeOK
<1>2. \A d \in Conn : Local(d)'
  <2> SUFFICES ASSUME NEW d \in Conn PROVE Local(d)'
    OBVIOUS
  <2> QED
    BY <1>1, OthersStayLocal DEF IInv
<1> QED
  BY <1>1, <1>2 DEF LocalStep

LEMMA HandleReplyIsLocal ==
    ASSUME IInv, NEW c \in Conn, HandleReply(c)
    PROVE  LocalStep(c)
<1> USE DEF HandleReply, Handles, HandlerOf, StreamEvent
<1>1. QueueStep("hello", "none", c) /\ job[c].stream = "unknown"
  BY DEF Dispatch, Done, QueueStep
<1>2. queue' \in Seq(EventType \X Conn) => TypeOK'
  BY DEF TimerAfterReply, IInv, TypeOK, objects, owners, served, process, Handled, Handler
<1>3. \A d \in Conn : d # c => SameOf(d)
  BY DEF SameOf, Waiting, Served, TimerAfterReply, IInv, TypeOK, objects, owners, served, process, Handled, Handler
<1>4. Local(c) /\ Met(c)
  BY <1>1, KnownIsMet DEF IInv
<1>5. /\ job'[c].stream = "proxy" /\ job'[c].ready = "unknown"
      /\ job'[c].disconnected = "unknown"
      /\ job'[c].success = job[c].success /\ job'[c].failure = job[c].failure
      /\ unknown'[c].proxy /\ unknown'[c].ready = unknown[c].ready
      /\ proxy'[c] = "handshake" /\ Met(c)'
      /\ timer' = timer /\ newClients' = newClients /\ Waiting' = Waiting /\ Served' = Served
  BY <1>1, <1>4
     DEF Met, Waiting, Served, TimerAfterReply, IInv, TypeOK, objects, owners, served, process, Handled, Handler
<1> HIDE DEF HandleReply, Handles, HandlerOf, StreamEvent
<1>6. ASSUME After("hello", "none", c) PROVE Local(c)'
  <2>1. Fresh(c)'
    BY <1>4, <1>5, <1>6, MetStaysMet
  <2>2. Handshake(c)'
    BY <1>1, <1>4, <1>5, <1>6 DEF Local, Handshake, ProxyPosts, Owned, MovesOn, After, Live
  <2>3. ProxyPosts(c)'
    BY <1>1, <1>4, <1>5, <1>6 DEF Local, Handshake, ProxyPosts, Owned, MovesOn, After, Live
  <2>4. Owned(c)'
    BY <1>1, <1>4, <1>5, <1>6 DEF Local, Handshake, ProxyPosts, Owned, MovesOn, After, Live
  <2>5. MovesOn(c)'
    BY <1>1, <1>4, <1>5, <1>6 DEF Local, Handshake, ProxyPosts, Owned, MovesOn, After, Live
  <2> QED
    BY <2>1, <2>2, <2>3, <2>4, <2>5 DEF Local
<1>7. "hello" \in Some \ {"connected"} /\ "none" \in Some
  BY TypesAre DEF Some
<1> QED
  BY <1>1, <1>2, <1>3, <1>6, <1>7, LocalStepFrom

LEMMA HandleInfoIsLocal ==
    ASSUME IInv, NEW c \in Conn, HandleInfo(c)
    PROVE  LocalStep(c)
<1> USE DEF HandleInfo, Handles, HandlerOf, StreamEvent
<1>1. QueueStep("info", "ready", c) /\ job[c].stream = "proxy"
  BY DEF Dispatch, DoneAndPost, QueueStep
<1>2. queue' \in Seq(EventType \X Conn) => TypeOK'
  BY DEF IInv, TypeOK, objects, owners, served, process, Handled, Handler
<1>3. \A d \in Conn : d # c => SameOf(d)
  BY DEF SameOf, Waiting, Served, IInv, TypeOK, objects, owners, served, process, Handled, Handler
<1>4. Local(c) /\ Met(c)
  BY <1>1, KnownIsMet DEF IInv
<1>5. /\ job' = job /\ unknown' = unknown /\ proxy'[c] = "talking" /\ Met(c)'
      /\ timer' = timer /\ newClients' = newClients /\ Waiting' = Waiting /\ Served' = Served
  BY <1>4 DEF Met, Waiting, Served, IInv, TypeOK, objects, owners, served, process, Handled, Handler
<1> HIDE DEF HandleInfo, Handles, HandlerOf, StreamEvent
<1>6. ASSUME After("info", "ready", c) PROVE Local(c)'
  <2>1. Fresh(c)'
    BY <1>4, <1>5, <1>6, MetStaysMet
  <2>2. Handshake(c)'
    BY <1>1, <1>4, <1>5, <1>6 DEF Local, Handshake, ProxyPosts, Owned, MovesOn, After, Live
  <2>3. ProxyPosts(c)'
    BY <1>1, <1>4, <1>5, <1>6 DEF Local, Handshake, ProxyPosts, Owned, MovesOn, After, Live
  <2>4. Owned(c)'
    BY <1>1, <1>4, <1>5, <1>6 DEF Local, Handshake, ProxyPosts, Owned, MovesOn, After, Live
  <2>5. MovesOn(c)'
    BY <1>1, <1>4, <1>5, <1>6 DEF Local, Handshake, ProxyPosts, Owned, MovesOn, After, Live
  <2> QED
    BY <2>1, <2>2, <2>3, <2>4, <2>5 DEF Local
<1>7. "info" \in Some \ {"connected"} /\ "ready" \in Some
  BY TypesAre DEF Some
<1> QED
  BY <1>1, <1>2, <1>3, <1>6, <1>7, LocalStepFrom

\* sendFailure leaves nothing of the proxy, and nothing for its handlers.
LEMMA SendFailureIsLocal ==
    ASSUME IInv, NEW c \in Conn, NEW t \in {"broken", "disconnected", "none"}, sendFailure(c),
           QueueStep(t, "failure", c),
           After(t, "failure", c) => Fresh(c)',
           After(t, "failure", c) /\ unknown[c].proxy
               => ~Has(queue', "ready", c) /\ ~Has(queue', "disconnected", c)
    PROVE  LocalStep(c)
<1> USE DEF sendFailure
<1>1. QueueStep(t, "failure", c)
  OBVIOUS
<1>2. queue' \in Seq(EventType \X Conn) => TypeOK'
  BY DEF ProxyDeleted, NoUnknown, IInv, TypeOK, objects, owners, served, process, Handled, Handler
<1>3. \A d \in Conn : d # c => SameOf(d)
  BY DEF SameOf, Waiting, Served, served, ProxyDeleted, IInv, TypeOK, objects, owners, served, process, Handled, Handler
<1>4. Local(c)
  BY DEF IInv
<1>5. /\ job'[c].stream = "none" /\ job'[c].ready = job[c].ready
      /\ job'[c].disconnected = job[c].disconnected
      /\ job'[c].success = job[c].success /\ job'[c].failure = job[c].failure
      /\ ~unknown'[c].proxy /\ ~unknown'[c].ready
      /\ proxy'[c] = IF unknown[c].proxy THEN "deleted" ELSE proxy[c]
      /\ newClients' = newClients /\ Waiting' = Waiting /\ Served' = Served
  BY DEF Waiting, Served, ProxyDeleted, NoUnknown, IInv, TypeOK, objects, owners, served, process, Handled, Handler
<1> HIDE DEF sendFailure
<1>6. ASSUME After(t, "failure", c) PROVE Local(c)'
  <2>1. Fresh(c)'
    BY <1>6
  <2>2. Handshake(c)'
    BY <1>1, <1>4, <1>5, <1>6 DEF Local, Handshake, ProxyPosts, Owned, MovesOn, After, Live
  <2>3. ProxyPosts(c)'
    BY <1>1, <1>4, <1>5, <1>6 DEF Local, Handshake, ProxyPosts, Owned, MovesOn, After, Live
  <2>4. Owned(c)'
    BY <1>1, <1>4, <1>5, <1>6 DEF Local, Handshake, ProxyPosts, Owned, MovesOn, After, Live
  <2>5. MovesOn(c)'
    BY <1>1, <1>4, <1>5, <1>6 DEF Local, Handshake, ProxyPosts, Owned, MovesOn, After, Live
  <2> QED
    BY <2>1, <2>2, <2>3, <2>4, <2>5 DEF Local
<1>7. t \in Some \ {"connected"} /\ "failure" \in Some
  BY TypesAre DEF Some
<1> QED
  BY <1>1, <1>2, <1>3, <1>6, <1>7, LocalStepFrom

LEMMA FailuresAreLocal ==
    ASSUME IInv, NEW c \in Conn,
           StreamFails(c) \/ DisconnectedWhileNew(c) \/ HandleTimeout(c)
    PROVE  LocalStep(c)
<1>0. Local(c)
  BY DEF IInv
<1>1. CASE StreamFails(c)
  <2>1. /\ QueueStep("broken", "failure", c) /\ job[c].stream = "unknown" /\ sendFailure(c)
        /\ Met(c)'
    BY <1>1 DEF StreamFails, Handles, HandlerOf, StreamEvent, Dispatch, sendFailure, Post,
                TellsOfFailure, DoneAndPost, QueueStep, IInv, TypeOK, Met
  <2>2. Met(c)
    BY <1>0, <2>1, KnownIsMet
  <2>3. After("broken", "failure", c) => Fresh(c)'
    BY <1>0, <2>1, <2>2, MetStaysMet
  <2>4. ~unknown[c].proxy
    BY <1>0, <2>1 DEF Local, Handshake
  <2> QED
    BY <2>1, <2>3, <2>4, SendFailureIsLocal
<1>2. CASE DisconnectedWhileNew(c)
  <2>1. /\ QueueStep("disconnected", "failure", c) /\ sendFailure(c) /\ Met(c)'
        /\ Has(queue, "disconnected", c)
    <3>1. /\ QueueStep("disconnected", "failure", c) /\ sendFailure(c) /\ Met(c)'
      BY <1>2 DEF DisconnectedWhileNew, Handles, Dispatch, sendFailure, Post,
                  TellsOfFailure, DoneAndPost, QueueStep, IInv, TypeOK, Met
    <3> QED
      BY <3>1, TypesAre, QueueAfter DEF After, IInv, TypeOK, Some
  <2>2. Met(c)
    BY <1>0, <2>1, KnownIsMet, TypesAre
  <2>3. After("disconnected", "failure", c) => Fresh(c)'
    BY <1>0, <2>1, <2>2, MetStaysMet
  <2>4. After("disconnected", "failure", c)
            => ~Has(queue', "ready", c) /\ ~Has(queue', "disconnected", c)
    BY <1>0 DEF Local, ProxyPosts, After
  <2> QED
    BY <2>1, <2>3, <2>4, SendFailureIsLocal
<1>3. CASE HandleTimeout(c)
  <2>1. /\ QueueStep("none", "failure", c) /\ sendFailure(c) /\ client'[c] = "gone"
        /\ queue = <<>>
    BY <1>3, AppendProperties DEF HandleTimeout, Idle, sendFailure, Post,
                TellsOfFailure, QueueStep, IInv, TypeOK
  <2>2. \A w : ~Has(queue, w, c)
    BY <2>1 DEF Has
  <2>3. After("none", "failure", c) => Fresh(c)'
    BY <1>0, <2>1, <2>2 DEF After, Local, Fresh
  <2>4. After("none", "failure", c)
            => ~Has(queue', "ready", c) /\ ~Has(queue', "disconnected", c)
    BY <2>2 DEF After
  <2> QED
    BY <2>1, <2>3, <2>4, SendFailureIsLocal
<1> QED
  BY <1>1, <1>2, <1>3

LEMMA DisconnectIsLocal ==
    ASSUME IInv, NEW c \in Conn, NEW t \in {"broken", "none"}, disconnect(c),
           QueueStep(t, "disconnected", c), job[c].stream = "proxy"
    PROVE  LocalStep(c)
<1> USE DEF disconnect
<1>1. QueueStep(t, "disconnected", c) /\ job[c].stream = "proxy"
  OBVIOUS
<1>2. queue' \in Seq(EventType \X Conn) => TypeOK'
  BY DEF IInv, TypeOK, objects, owners, served, process, Handled, Handler
<1>3. \A d \in Conn : d # c => SameOf(d)
  BY DEF SameOf, Waiting, Served, IInv, TypeOK, objects, owners, served, process, Handled, Handler
<1>4. Local(c) /\ Met(c)
  BY <1>1, KnownIsMet DEF IInv
<1>5. /\ job'[c].stream = "none" /\ job'[c].ready = job[c].ready
      /\ job'[c].disconnected = job[c].disconnected
      /\ job'[c].success = job[c].success /\ job'[c].failure = job[c].failure
      /\ unknown' = unknown /\ proxy' = proxy /\ Met(c)'
      /\ timer' = timer /\ newClients' = newClients /\ Waiting' = Waiting /\ Served' = Served
  BY DEF Waiting, Served, served, Met, IInv, TypeOK, objects, owners, served, process, Handled, Handler
<1> HIDE DEF disconnect
<1>6. ASSUME After(t, "disconnected", c) PROVE Local(c)'
  <2>1. Fresh(c)'
    BY <1>4, <1>5, <1>6, MetStaysMet
  <2>2. Handshake(c)'
    BY <1>1, <1>4, <1>5, <1>6 DEF Local, Handshake, ProxyPosts, Owned, MovesOn, After, Live
  <2>3. ProxyPosts(c)'
    BY <1>1, <1>4, <1>5, <1>6 DEF Local, Handshake, ProxyPosts, Owned, MovesOn, After, Live
  <2>4. Owned(c)'
    BY <1>1, <1>4, <1>5, <1>6 DEF Local, Handshake, ProxyPosts, Owned, MovesOn, After, Live
  <2>5. MovesOn(c)'
    BY <1>1, <1>4, <1>5, <1>6 DEF Local, Handshake, ProxyPosts, Owned, MovesOn, After, Live
  <2> QED
    BY <2>1, <2>2, <2>3, <2>4, <2>5 DEF Local
<1>7. t \in Some \ {"connected"} /\ "disconnected" \in Some
  BY TypesAre DEF Some
<1> QED
  BY <1>1, <1>2, <1>3, <1>6, <1>7, LocalStepFrom

LEMMA DisconnectsAreLocal ==
    ASSUME IInv, NEW c \in Conn, ProxyFails(c) \/ HandleFlatline(c)
    PROVE  LocalStep(c)
<1>1. CASE ProxyFails(c)
  <2>1. QueueStep("broken", "disconnected", c) /\ job[c].stream = "proxy" /\ disconnect(c)
    BY <1>1 DEF ProxyFails, Handles, HandlerOf, StreamEvent, Dispatch, disconnect, Post,
                DoneAndPost, QueueStep
  <2> QED
    BY <2>1, DisconnectIsLocal
<1>2. CASE HandleFlatline(c)
  <2>1. QueueStep("none", "disconnected", c) /\ job[c].stream = "proxy" /\ disconnect(c)
    BY <1>2, AppendProperties DEF HandleFlatline, Idle, disconnect, Post, QueueStep
  <2> QED
    BY <2>1, DisconnectIsLocal
<1> QED
  BY <1>1, <1>2

LEMMA HandleReadyIsLocal ==
    ASSUME IInv, NEW c \in Conn, HandleReady(c)
    PROVE  LocalStep(c)
<1> USE DEF HandleReady, Handles, HandlerOf, StreamEvent
<1>1. QueueStep("ready", "success", c) /\ job[c].ready = "unknown"
  BY DEF Dispatch, DoneAndPost, QueueStep
<1>2. queue' \in Seq(EventType \X Conn) => TypeOK'
  BY DEF IInv, TypeOK, objects, owners, served, process, Handled, Handler
<1>3. \A d \in Conn : d # c => SameOf(d)
  BY DEF SameOf, Waiting, Served, IInv, TypeOK, objects, owners, served, process, Handled, Handler
<1>4. Has(queue, "ready", c) /\ Local(c) /\ Met(c)
  BY <1>1, TypesAre, QueueAfter, KnownIsMet DEF IInv, TypeOK, Some, After
<1>5. /\ job' = job /\ unknown'[c].proxy = unknown[c].proxy /\ unknown'[c].ready
      /\ proxy' = proxy /\ Met(c)'
      /\ newClients' = newClients /\ Waiting' = Waiting /\ Served' = Served
  BY <1>4 DEF Met, Waiting, Served, IInv, TypeOK, objects, owners, served, process, Handled, Handler
<1> HIDE DEF HandleReady, Handles, HandlerOf, StreamEvent
<1>6. ASSUME After("ready", "success", c) PROVE Local(c)'
  <2>1. Fresh(c)'
    BY <1>4, <1>5, <1>6, MetStaysMet
  <2>2. Handshake(c)'
    BY <1>1, <1>4, <1>5, <1>6 DEF Local, Handshake, ProxyPosts, Owned, MovesOn, After, Live
  <2>3. ProxyPosts(c)'
    BY <1>1, <1>4, <1>5, <1>6 DEF Local, Handshake, ProxyPosts, Owned, MovesOn, After, Live
  <2>4. Owned(c)'
    BY <1>1, <1>4, <1>5, <1>6 DEF Local, Handshake, ProxyPosts, Owned, MovesOn, After, Live
  <2>5. MovesOn(c)'
    BY <1>1, <1>4, <1>5, <1>6 DEF Local, Handshake, ProxyPosts, Owned, MovesOn, After, Live
  <2> QED
    BY <2>1, <2>2, <2>3, <2>4, <2>5 DEF Local
<1>7. "ready" \in Some \ {"connected"} /\ "success" \in Some
  BY TypesAre DEF Some
<1> QED
  BY <1>1, <1>2, <1>3, <1>6, <1>7, LocalStepFrom

LEMMA EnvironmentIsLocal ==
    ASSUME IInv, NEW c \in Conn, Environment(c)
    PROVE  LocalStep(c)
<1> DEFINE Sent(type, next) ==
        /\ type \in {"connecting", "hello", "info", "broken"} /\ Sends(c, type, next)
        /\ next \in {"connecting", "replied", "informed", "gone"}
        /\ \/ type = "connecting" /\ next = "connecting" /\ client[c] = "away"
           \/ type # "connecting" /\ next # "connecting" /\ Met(c)
<1>1. \E type, next : Sent(type, next)
  <2>1. CASE Connects(c)
    <3>1. Sent("connecting", "connecting")
      BY <2>1 DEF Connects
    <3> QED
      BY <3>1
  <2>2. CASE RepliesToHello(c)
    <3>1. Sent("hello", "replied")
      BY <2>2 DEF RepliesToHello, Met
    <3> QED
      BY <3>1
  <2>3. CASE SendsInfo(c)
    <3>1. Sent("info", "informed")
      BY <2>3 DEF SendsInfo, Met
    <3> QED
      BY <3>1
  <2>4. CASE Breaks(c)
    <3>1. Sent("broken", "gone")
      BY <2>4 DEF Breaks, Met
    <3> QED
      BY <3>1
  <2> QED
    BY <2>1, <2>2, <2>3, <2>4 DEF Environment
<1>2. PICK type, next : Sent(type, next)
  BY <1>1
<1>3. /\ QueueStep("none", type, c) /\ type \in Some /\ type # "none"
      /\ "none" \in Some \ {"connected"}
  BY <1>2, TypesAre DEF Sends, QueueStep, Some
<1>4. queue' \in Seq(EventType \X Conn) => TypeOK'
  BY <1>2 DEF Sends, IInv, TypeOK, objects, owners, served, process, Handled, Handler
<1>5. \A d \in Conn : d # c => SameOf(d)
  BY <1>2 DEF Sends, SameOf, Waiting, Served, IInv, TypeOK, objects, owners, served, process
<1>6. Local(c)
  BY DEF IInv
<1>7. /\ job' = job /\ unknown' = unknown /\ proxy' = proxy /\ client'[c] = next
      /\ timer' = timer /\ newClients' = newClients /\ Waiting' = Waiting /\ Served' = Served
  BY <1>2 DEF Sends, Waiting, Served, IInv, TypeOK, objects, owners, served, process
<1>8. ASSUME After("none", type, c) PROVE Local(c)'
  <2>1. Fresh(c)'
    <3>1. CASE type # "connecting"
      BY <1>2, <1>6, <1>7, <1>8, <3>1, MetStaysMet DEF Met
    <3>2. CASE type = "connecting"
      BY <1>2, <1>6, <1>7, <1>8, <3>2 DEF Local, Fresh, After
    <3> QED
      BY <3>1, <3>2
  <2>2. Handshake(c)'
    BY <1>2, <1>6, <1>7, <1>8 DEF Local, Handshake, After, Live
  <2>3. ProxyPosts(c)'
    BY <1>2, <1>6, <1>7, <1>8 DEF Local, ProxyPosts, After
  <2>4. Owned(c)'
    BY <1>6, <1>7 DEF Local, Owned, Live
  <2>5. MovesOn(c)'
    BY <1>6, <1>7, <1>8 DEF Local, MovesOn, After
  <2> QED
    BY <2>1, <2>2, <2>3, <2>4, <2>5 DEF Local
<1> QED
  BY <1>3, <1>4, <1>5, <1>8, LocalStepFrom

\* An event is taken, and nothing else happens.
LEMMA TakingIsLocal ==
    ASSUME IInv, NEW c \in Conn, NEW t \in EventType \ {"connected", "connecting"},
           QueueStep(t, "none", c), fault' \in Fault,
           UNCHANGED <<objects, owners, client, app, restarts>>,
           t \in {"success", "failure"} => c \notin newClients
    PROVE  LocalStep(c)
<1>1. t \in Some \ {"connected"} /\ "none" \in Some
  BY TypesAre DEF Some
<1>2. Local(c) /\ Met(c)
  <2>1. Has(queue, t, c)
    BY <1>1, TypesAre, QueueAfter DEF IInv, TypeOK, After
  <2> QED
    BY <2>1, KnownIsMet DEF IInv
<1>3. /\ job' = job /\ unknown' = unknown /\ proxy' = proxy /\ client' = client
      /\ timer' = timer /\ newClients' = newClients /\ Waiting' = Waiting /\ Served' = Served
  BY DEF objects, owners, served, Waiting, Served
<1>4. queue' \in Seq(EventType \X Conn) => TypeOK'
  BY DEF IInv, TypeOK, objects, owners, served
<1>5. \A d \in Conn : d # c => SameOf(d)
  BY <1>3 DEF SameOf
<1>6. ASSUME After(t, "none", c) PROVE Local(c)'
  <2>1. Fresh(c)'
    BY <1>2, <1>3, <1>6, MetStaysMet DEF Met
  <2>2. Handshake(c)'
    BY <1>2, <1>3, <1>6 DEF Local, Handshake, After, Live
  <2>3. ProxyPosts(c)'
    BY <1>2, <1>3, <1>6 DEF Local, ProxyPosts, After
  <2>4. Owned(c)'
    BY <1>2, <1>3 DEF Local, Owned, Live
  <2>5. MovesOn(c)'
    BY <1>2, <1>3, <1>6 DEF Local, MovesOn, After
  <2> QED
    BY <2>1, <2>2, <2>3, <2>4, <2>5 DEF Local
<1> QED
  BY <1>1, <1>4, <1>5, <1>6, LocalStepFrom

LEMMA DroppedIsLocal ==
    ASSUME IInv, NEW c \in Conn, NEW type \in EventType, Dropped(type, c)
    PROVE  LocalStep(c)
<1>1. QueueStep(type, "none", c) /\ type \in EventType \ {"connected", "connecting"}
  BY TypesAre DEF Dropped, Handles, Dispatch, Done, QueueStep
<1>2. type \in {"success", "failure"} => job[c][type] = "none"
  BY DEF Dropped, Handles, HandlerOf, StreamEvent
<1>3. type \in {"success", "failure"} => c \notin newClients
  BY <1>2 DEF IInv, Local, Handshake
<1> QED
  BY <1>1, <1>3, TakingIsLocal DEF Dropped, IInv, TypeOK, process

LEMMA HandleConnectingIsLocal ==
    ASSUME IInv, NEW c \in Conn, HandleConnecting(c)
    PROVE  LocalStep(c)
<1>1. QueueStep("connecting", "none", c) /\ "connecting" \in Some \ {"connected"} /\ "none" \in Some
  BY TypesAre DEF HandleConnecting, Dispatch, Done, QueueStep, Some
<1>2. Has(queue, "connecting", c) /\ Local(c)
  BY <1>1, QueueAfter DEF After, IInv, TypeOK
<1>3. /\ job[c] = NoJobs /\ unknown[c] = NoUnknown /\ proxy[c] = "none"
      /\ c \notin newClients /\ c \notin Waiting /\ c \notin Served
      /\ \A type \in EventType : Has(queue, type, c) => type = "connecting"
  BY <1>2 DEF Local, Fresh
<1> DEFINE jobs == [job[c] EXCEPT !.stream = "unknown",
                                  !.success = "listener", !.failure = "listener"]
<1>j. /\ jobs \in [Handled -> Handler]
      /\ jobs.stream = "unknown" /\ jobs.success = "listener" /\ jobs.failure = "listener"
      /\ jobs.ready = "none" /\ jobs.disconnected = "none"
  BY <1>3 DEF NoJobs, Handled, Handler
<1> HIDE DEF jobs
<1>k. job' = IF app = "serving" THEN [job EXCEPT ![c] = jobs] ELSE job
  BY DEF HandleConnecting, jobs
<1>l. job'[c] = IF app = "serving" THEN jobs ELSE NoJobs
  BY <1>3, <1>k DEF IInv, TypeOK
<1>4. queue' \in Seq(EventType \X Conn) => TypeOK'
  <2>1. CASE app = "serving"
    <3>1. job' \in [Conn -> [Handled -> Handler]]
      BY <1>j, <1>k, <2>1 DEF IInv, TypeOK
    <3>2. client' = [client EXCEPT ![c] = "greeted"] /\ newClients' = newClients \cup {c}
      BY <2>1 DEF HandleConnecting
    <3>3. /\ client' \in [Conn -> {"away", "connecting", "greeted", "replied", "queried",
                                   "informed", "gone"}]
          /\ newClients' \subseteq Conn
      BY <3>2 DEF IInv, TypeOK
    <3>4. timer' \subseteq Conn /\ UNCHANGED <<unknown, proxy, waiting, served, process>>
      BY <2>1 DEF HandleConnecting, IInv, TypeOK
    <3> QED
      BY <3>1, <3>3, <3>4 DEF IInv, TypeOK, served, process
  <2>2. CASE app # "serving"
    BY <2>2 DEF HandleConnecting, IInv, TypeOK, owners, served, process, Handled, Handler
  <2> QED
    BY <2>1, <2>2
<1>5. \A d \in Conn : d # c => SameOf(d)
  BY DEF HandleConnecting, SameOf, Waiting, Served, served, IInv, TypeOK, process
<1>6. ASSUME After("connecting", "none", c) PROVE Local(c)'
  <2>1. \A type \in EventType : ~Has(queue', type, c)
    BY <1>2, <1>3, <1>6, TypesAre DEF After, Local, Fresh
  <2>2. /\ unknown' = unknown /\ proxy' = proxy /\ Waiting' = Waiting /\ Served' = Served
        /\ Met(c)' /\ job'[c].ready = "none" /\ job'[c].disconnected = "none"
        /\ Once(queue', "connecting", c) /\ Once(queue', "disconnected", c)
        /\ ReadyFirst(queue', c)
    <3>1. /\ unknown' = unknown /\ proxy' = proxy /\ Waiting' = Waiting /\ Served' = Served
      BY DEF HandleConnecting, Waiting, Served, served
    <3>2. Met(c)' /\ job'[c].ready = "none" /\ job'[c].disconnected = "none"
      BY <1>j, <1>l DEF HandleConnecting, IInv, TypeOK, Met, NoJobs, Handled
    <3> QED
      BY <1>2, <1>6, <3>1, <3>2 DEF After, Local, Fresh, ProxyPosts
  <2>3. CASE app = "serving"
    <3>1. /\ job'[c].stream = "unknown" /\ job'[c].success = "listener"
          /\ job'[c].failure = "listener" /\ c \in timer' /\ c \in newClients'
      BY <1>j, <1>l, <2>3 DEF HandleConnecting
    <3> QED
      BY <1>3, <2>1, <2>2, <3>1, TypesAre
         DEF Local, Fresh, Met, Handshake, ProxyPosts, Owned, MovesOn, Live, NoUnknown
  <2>4. CASE app # "serving"
    <3>1. newClients' = newClients /\ job'[c].stream = "none"
      BY <1>3, <2>4 DEF HandleConnecting, NoJobs, Handled
    <3> QED
      BY <1>3, <2>1, <2>2, <3>1, TypesAre
         DEF Local, Fresh, Met, Handshake, ProxyPosts, Owned, MovesOn, Live, NoUnknown
  <2> QED
    BY <2>3, <2>4
<1> QED
  BY <1>1, <1>4, <1>5, <1>6, LocalStepFrom

-----------------------------------------------------------------------------
\* m_waitingClients: its end, its front, and the middle.
LEMMA WaitingIs == \A d : d \in Waiting <=> In(d, waiting)
BY DEF Waiting, In

LEMMA WaitingAppend ==
    ASSUME NEW w \in Seq(Conn), NEW c \in Conn
    PROVE  LET more == Append(w, c) IN
           /\ more \in Seq(Conn) /\ Len(more) = Len(w) + 1
           /\ \A d : In(d, more) <=> In(d, w) \/ d = c
           /\ AllDiffer(w) /\ ~In(c, w) => AllDiffer(more)
<1> DEFINE more == Append(w, c)
<1>1. Len(w) \in Nat /\ DOMAIN w = 1..Len(w)
  BY LenProperties
<1>2. /\ more \in Seq(Conn) /\ Len(more) = Len(w) + 1
      /\ \A i \in 1..Len(w) : more[i] = w[i]
      /\ more[Len(w) + 1] = c
  BY AppendProperties
<1> HIDE DEF more
<1>3. DOMAIN more = 1..Len(w) + 1
  BY <1>2, LenProperties
<1>4. /\ \A i \in DOMAIN w : i \in DOMAIN more /\ more[i] = w[i]
      /\ \A i \in DOMAIN more : i = Len(w) + 1 \/ i \in DOMAIN w
      /\ Len(w) + 1 \in DOMAIN more
  BY <1>1, <1>2, <1>3
<1>5. \A d : In(d, more) <=> In(d, w) \/ d = c
  BY <1>2, <1>4 DEF In
<1>6. AllDiffer(w) /\ ~In(c, w) => AllDiffer(more)
  BY <1>2, <1>4 DEF In, AllDiffer
<1> QED
  BY <1>2, <1>5, <1>6 DEF more

\* What is left when the i-th is taken out.
LEMMA WaitingWithout ==
    ASSUME NEW w \in Seq(Conn), AllDiffer(w), NEW i \in DOMAIN w, NEW v \in Seq(Conn),
           Len(v) = Len(w) - 1,
           \A k \in 1..Len(v) : v[k] = IF k < i THEN w[k] ELSE w[k + 1]
    PROVE  /\ AllDiffer(v)
           /\ \A d : In(d, v) <=> In(d, w) /\ d # w[i]
<1>1. /\ Len(w) \in Nat /\ DOMAIN w = 1..Len(w) /\ DOMAIN v = 1..Len(w) - 1 /\ i \in 1..Len(w)
  BY LenProperties
<1> DEFINE At(k) == IF k < i THEN k ELSE k + 1
<1>2. \A k \in DOMAIN v : At(k) \in DOMAIN w /\ At(k) # i /\ v[k] = w[At(k)]
  BY <1>1
<1>3. \A k, l \in DOMAIN v : At(k) = At(l) => k = l
  BY <1>1
<1>4. \A m \in DOMAIN w : m # i => \E k \in DOMAIN v : At(k) = m
  <2> SUFFICES ASSUME NEW m \in DOMAIN w, m # i PROVE \E k \in DOMAIN v : At(k) = m
    OBVIOUS
  <2>1. CASE m < i
    BY <1>1, <2>1
  <2>2. CASE m > i
    <3>1. m - 1 \in DOMAIN v /\ At(m - 1) = m
      BY <1>1, <2>2
    <3> QED
      BY <3>1
  <2> QED
    BY <1>1, <2>1, <2>2
<1> HIDE DEF At
<1>5. AllDiffer(v)
  BY <1>2, <1>3 DEF AllDiffer
<1>6. \A d : In(d, v) => In(d, w) /\ d # w[i]
  BY <1>2 DEF In, AllDiffer
<1>7. \A d : In(d, w) /\ d # w[i] => In(d, v)
  <2> SUFFICES ASSUME NEW m \in DOMAIN w, w[m] # w[i] PROVE In(w[m], v)
    BY DEF In
  <2>1. PICK k \in DOMAIN v : At(k) = m
    BY <1>4
  <2> QED
    BY <1>2, <2>1 DEF In
<1> QED
  BY <1>5, <1>6, <1>7

LEMMA WaitingTail ==
    ASSUME NEW w \in Seq(Conn), AllDiffer(w), w # <<>>
    PROVE  /\ Tail(w) \in Seq(Conn) /\ Len(Tail(w)) = Len(w) - 1
           /\ AllDiffer(Tail(w)) /\ Head(w) \in Conn /\ In(Head(w), w)
           /\ \A d : In(d, Tail(w)) <=> In(d, w) /\ d # Head(w)
<1>1. /\ Tail(w) \in Seq(Conn) /\ Len(Tail(w)) = Len(w) - 1 /\ Head(w) \in Conn
      /\ \A k \in 1..Len(Tail(w)) : Tail(w)[k] = w[k + 1]
      /\ Head(w) = w[1]
  BY HeadTailProperties
<1>2. 1 \in DOMAIN w
  BY LenProperties, EmptySeq
<1> DEFINE v == Tail(w)
<1>3. v \in Seq(Conn) /\ Len(v) = Len(w) - 1 /\ Len(w) \in Nat
  BY <1>1, LenProperties
<1>4. \A k \in 1..Len(v) : v[k] = IF k < 1 THEN w[k] ELSE w[k + 1]
  BY <1>1, <1>3
<1> HIDE DEF v
<1>5. /\ AllDiffer(v)
      /\ \A d : In(d, v) <=> In(d, w) /\ d # w[1]
  BY <1>2, <1>3, <1>4, WaitingWithout
<1>6. In(w[1], w)
  BY <1>2 DEF In
<1> QED
  BY <1>1, <1>5, <1>6 DEF v

LEMMA WaitingErase ==
    ASSUME waiting \in Seq(Conn), AllDiffer(waiting), NEW c, Erase(c)
    PROVE  /\ waiting' \in Seq(Conn) /\ Len(waiting') = Len(waiting) - 1
           /\ AllDiffer(waiting')
           /\ \A d : In(d, waiting') <=> In(d, waiting) /\ d # c
<1>1. PICK i \in DOMAIN waiting :
        /\ waiting[i] = c
        /\ waiting' = SubSeq(waiting, 1, i - 1) \o SubSeq(waiting, i + 1, Len(waiting))
  BY DEF Erase
<1>2. Len(waiting) \in Nat /\ i \in 1..Len(waiting)
  BY LenProperties
<1> DEFINE front == SubSeq(waiting, 1, i - 1)
           back == SubSeq(waiting, i + 1, Len(waiting))
<1>3. /\ front \in Seq(Conn) /\ Len(front) = i - 1
      /\ \A k \in 1..i - 1 : front[k] = waiting[k]
  BY <1>2, SubSeqProperties
<1>4. /\ back \in Seq(Conn) /\ Len(back) = Len(waiting) - i
      /\ \A k \in 1..Len(waiting) - i : back[k] = waiting[k + i]
  BY <1>2, SubSeqProperties
<1> HIDE DEF front, back
<1>5. /\ waiting' \in Seq(Conn) /\ Len(waiting') = Len(waiting) - 1
      /\ \A k \in 1..Len(waiting') : waiting'[k] = IF k < i THEN waiting[k] ELSE waiting[k + 1]
  <2>1. waiting' = front \o back
    BY <1>1 DEF front, back
  <2> QED
    BY <1>2, <1>3, <1>4, <2>1, ConcatProperties
<1> DEFINE v == waiting'
<1>6. /\ v \in Seq(Conn) /\ Len(v) = Len(waiting) - 1
      /\ \A k \in 1..Len(v) : v[k] = IF k < i THEN waiting[k] ELSE waiting[k + 1]
  BY <1>5
<1> HIDE DEF v
<1>7. AllDiffer(v) /\ \A d : In(d, v) <=> In(d, waiting) /\ d # waiting[i]
  BY <1>6, WaitingWithout
<1> QED
  BY <1>1, <1>5, <1>7 DEF v

-----------------------------------------------------------------------------
\* The announcements on the way.
AnnouncedIn(q) == {i \in DOMAIN q : q[i][1] = "connected"}
Announced(q) == Cardinality(AnnouncedIn(q))

LEMMA FiniteAnnouncements ==
    ASSUME NEW q \in Seq(EventType \X Conn)
    PROVE  IsFiniteSet(AnnouncedIn(q)) /\ Announced(q) \in Nat
<1>1. DOMAIN q = 1..Len(q) /\ Len(q) \in Nat
  BY LenProperties
<1>2. IsFiniteSet(1..Len(q))
  BY <1>1, FS_Interval
<1>3. AnnouncedIn(q) \subseteq 1..Len(q)
  BY <1>1 DEF AnnouncedIn
<1> QED
  BY <1>2, <1>3, FS_Subset, FS_CardinalityType DEF Announced

LEMMA AnnouncedAppend ==
    ASSUME NEW q \in Seq(EventType \X Conn), NEW u \in EventType, NEW c \in Conn
    PROVE  Announced(Append(q, Event(u, c))) = Announced(q) + (IF u = "connected" THEN 1 ELSE 0)
<1> DEFINE more == Append(q, Event(u, c))
<1>1. Len(q) \in Nat /\ DOMAIN q = 1..Len(q) /\ Event(u, c) \in EventType \X Conn
  BY LenProperties, EventIs
<1>2. /\ more \in Seq(EventType \X Conn) /\ Len(more) = Len(q) + 1
      /\ \A i \in 1..Len(q) : more[i] = q[i]
      /\ more[Len(q) + 1] = Event(u, c)
  BY <1>1, AppendProperties
<1> HIDE DEF more
<1>3. DOMAIN more = 1..Len(q) + 1
  BY <1>2, LenProperties
<1>4. more[Len(q) + 1][1] = u
  BY <1>2 DEF Event
<1>5. CASE u = "connected"
  <2>1. AnnouncedIn(more) = AnnouncedIn(q) \cup {Len(q) + 1} /\ Len(q) + 1 \notin AnnouncedIn(q)
    BY <1>1, <1>2, <1>3, <1>4, <1>5 DEF AnnouncedIn
  <2> QED
    BY <2>1, <1>5, FiniteAnnouncements, FS_AddElement DEF Announced, more
<1>6. CASE u # "connected"
  <2>1. AnnouncedIn(more) = AnnouncedIn(q)
    BY <1>1, <1>2, <1>3, <1>4, <1>6 DEF AnnouncedIn
  <2> QED
    BY <2>1, <1>6, FiniteAnnouncements DEF Announced, more
<1> QED
  BY <1>5, <1>6

LEMMA AnnouncedTail ==
    ASSUME NEW q \in Seq(EventType \X Conn), q # <<>>, NEW t, NEW c, Head(q) = Event(t, c)
    PROVE  Announced(Tail(q)) = Announced(q) - (IF t = "connected" THEN 1 ELSE 0)
<1> DEFINE rest == Tail(q)
<1>1. /\ Len(q) \in Nat /\ Len(q) # 0 /\ DOMAIN q = 1..Len(q)
      /\ rest \in Seq(EventType \X Conn) /\ Len(rest) = Len(q) - 1
      /\ \A i \in 1..Len(rest) : rest[i] = q[i + 1]
      /\ q[1] = Event(t, c)
  BY HeadTailProperties, LenProperties, EmptySeq
<1> HIDE DEF rest
<1>2. DOMAIN rest = 1..Len(q) - 1
  BY <1>1, LenProperties
<1>3. q[1][1] = t
  BY <1>1 DEF Event
<1> DEFINE later == AnnouncedIn(q) \ {1}
           Next1 == [i \in AnnouncedIn(rest) |-> i + 1]
<1>4. Next1 \in Bijection(AnnouncedIn(rest), later)
  <2>1. \A i \in AnnouncedIn(rest) : i \in Nat /\ i + 1 \in later
    BY <1>1, <1>2 DEF AnnouncedIn
  <2>2. \A k \in later : k - 1 \in AnnouncedIn(rest) /\ k - 1 + 1 = k
    BY <1>1, <1>2 DEF AnnouncedIn
  <2>3. Next1 \in Injection(AnnouncedIn(rest), later)
    BY <2>1 DEF Injection, IsInjective
  <2>4. Next1 \in Surjection(AnnouncedIn(rest), later)
    <3>1. Next1 \in [AnnouncedIn(rest) -> later]
      BY <2>1
    <3>2. \A k \in later : Next1[k - 1] = k
      BY <2>2
    <3>3. \A k \in later : \E i \in AnnouncedIn(rest) : Next1[i] = k
      BY <2>2, <3>2
    <3> QED
      BY <3>1, <3>3 DEF Surjection
  <2> QED
    BY <2>3, <2>4 DEF Bijection
<1>5. IsFiniteSet(AnnouncedIn(rest)) /\ IsFiniteSet(AnnouncedIn(q))
  BY <1>1, FiniteAnnouncements
<1>6. Cardinality(AnnouncedIn(rest)) = Cardinality(later)
  BY <1>4, <1>5, FS_Bijection DEF ExistsBijection
<1>9. Cardinality(AnnouncedIn(q)) \in Nat
  BY <1>5, FS_CardinalityType
<1>7. CASE t = "connected"
  <2>1. 1 \in AnnouncedIn(q)
    BY <1>1, <1>3, <1>7 DEF AnnouncedIn
  <2> QED
    BY <1>5, <1>6, <1>7, <2>1, FS_RemoveElement DEF Announced, rest
<1>8. CASE t # "connected"
  <2>1. later = AnnouncedIn(q)
    BY <1>3, <1>8 DEF AnnouncedIn
  <2> QED
    <3>1. Cardinality(AnnouncedIn(rest)) = Cardinality(AnnouncedIn(q))
      BY <1>6, <2>1
    <3>2. Cardinality(AnnouncedIn(q)) \in Nat
      BY <1>5, FS_CardinalityType
    <3> QED
      BY <1>8, <3>1, <3>2 DEF Announced, rest
<1> QED
  BY <1>7, <1>8

LEMMA AnnouncedAfter ==
    ASSUME queue \in Seq(EventType \X Conn), NEW t \in Some, NEW u \in Some, NEW c \in Conn,
           QueueStep(t, u, c)
    PROVE  Announced(queue') = Announced(queue) - (IF t = "connected" THEN 1 ELSE 0)
                                 + (IF u = "connected" THEN 1 ELSE 0)
<1> DEFINE rest == IF t = "none" THEN queue ELSE Tail(queue)
<1>1. rest \in Seq(EventType \X Conn)
  BY TailKeeps DEF QueueStep
<1>2. queue' = IF u = "none" THEN rest ELSE Append(rest, Event(u, c))
  BY DEF QueueStep
<1>3. Announced(queue) \in Nat
  BY FiniteAnnouncements
<1>4. Announced(rest) = Announced(queue) - (IF t = "connected" THEN 1 ELSE 0)
  <2>1. CASE t = "none"
    BY <2>1, <1>3
  <2>2. CASE t # "none"
    BY <2>2, <1>3, AnnouncedTail DEF QueueStep
  <2> QED
    BY <2>1, <2>2
<1> HIDE DEF rest
<1>5. Announced(rest) \in Nat
  BY <1>1, FiniteAnnouncements
<1>6. CASE u = "none"
  BY <1>2, <1>4, <1>5, <1>6
<1>7. CASE u # "none"
  <2>1. u \in EventType
    BY <1>7 DEF Some
  <2> QED
    BY <1>1, <1>2, <1>4, <1>5, <1>7, <2>1, AnnouncedAppend
<1> QED
  BY <1>6, <1>7

-----------------------------------------------------------------------------
(***************************************************************************)
(* The clients that wait.                                                  *)
(***************************************************************************)
AreAnnounced == Len(waiting) <= Announced(queue)

LEMMA AnnouncedIs == WaitingAreAnnounced <=> AreAnnounced
BY DEF WaitingAreAnnounced, AreAnnounced, Announcements, Announced, AnnouncedIn

\* What a step does to the clients that wait.
WaitingStep ==
    /\ AllDiffer(waiting') /\ WhileServing' /\ AreAnnounced'

LEMMA WaitingUnchanged ==
    ASSUME IInv, NEW c \in Conn, LocalStep(c), waiting' = waiting, app' = app,
           newClients' \subseteq newClients \/ app = "serving"
    PROVE  WaitingStep
<1>1. PICK t \in Some \ {"connected"}, u \in Some : QueueStep(t, u, c)
  BY DEF LocalStep
<1>2. Announced(queue') = Announced(queue) - 0 + (IF u = "connected" THEN 1 ELSE 0)
  BY <1>1, AnnouncedAfter DEF IInv, TypeOK
<1>3. Announced(queue) \in Nat /\ Len(waiting) \in Nat
  BY FiniteAnnouncements, LenProperties DEF IInv, TypeOK
<1>4. Len(waiting) <= Announced(queue)
  BY AnnouncedIs DEF IInv, AreAnnounced
<1>5. Len(waiting) <= Announced(queue')
  BY <1>2, <1>3, <1>4
<1> QED
  BY <1>5 DEF WaitingStep, AreAnnounced, IInv, WhileServing

LEMMA HandleUnknownClientIsOne ==
    ASSUME IInv, NEW c \in Conn, HandleUnknownClient(c)
    PROVE  LocalStep(c) /\ WaitingStep
<1>1. PICK t \in {"success", "failure"} : Handles("listener", t, c)
  BY DEF HandleUnknownClient
<1>2. /\ c \in newClients /\ newClients' = newClients \ {c}
      /\ UNCHANGED <<served, client, process>> /\ Served' = Served
  BY DEF HandleUnknownClient, served, Served
<1>3. t \in Some \ {"connected"} /\ "none" \in Some /\ "connected" \in Some
  BY TypesAre DEF Some
<1>4. Local(c) /\ Met(c) /\ Met(c)' /\ c \notin Waiting /\ c \notin Served /\ app = "serving"
  BY <1>2, KnownIsMet DEF IInv, Local, Owned, Met, WhileServing
<1>5. CASE unknown[c].ready
  <2>1. OrphanProxy(c)
    BY <1>5 DEF HandleUnknownClient
  <2>2. QueueStep(t, "connected", c)
    BY <1>1, <2>1 DEF OrphanProxy, Announce, DoneAndPost, Handles, Dispatch, QueueStep
  <2>3. waiting' = Append(waiting, c)
    BY <2>1 DEF OrphanProxy, TakenProxy
  <2>4. /\ waiting' \in Seq(Conn) /\ Len(waiting') = Len(waiting) + 1
        /\ \A d : In(d, waiting') <=> In(d, waiting) \/ d = c
        /\ AllDiffer(waiting')
    BY <2>3, <1>4, WaitingAppend, WaitingIs DEF IInv, TypeOK
  <2>5. \A d : d \in Waiting' <=> d \in Waiting \/ d = c
    BY <2>4 DEF Waiting, In
  <2>6. queue' \in Seq(EventType \X Conn) => TypeOK'
    BY <1>2, <2>1, <2>4 DEF OrphanProxy, NoLongerOwned, WatchedByListener, NoUnknown,
       IInv, TypeOK, process, served, Handled, Handler
  <2>7. \A d \in Conn : d # c => SameOf(d)
    BY <1>2, <2>1, <2>5 DEF OrphanProxy, NoLongerOwned, WatchedByListener, SameOf, IInv, TypeOK
  <2>8. /\ job'[c].stream = job[c].stream /\ job'[c].ready = "none"
        /\ job'[c].disconnected = "listener"
        /\ ~unknown'[c].proxy /\ ~unknown'[c].ready /\ proxy' = proxy
        /\ c \notin newClients' /\ c \in Waiting' /\ c \notin Served'
    BY <1>2, <1>4, <2>1, <2>5 DEF OrphanProxy, NoLongerOwned, WatchedByListener, NoUnknown,
       IInv, TypeOK, Handled
  <2>9. ASSUME After(t, "connected", c) PROVE Local(c)'
    <3>1. Fresh(c)'
      BY <1>4, <2>9, MetStaysMet
    <3>2. Live(c) /\ unknown[c].proxy
      BY <1>2, <1>4, <1>5 DEF Local, Handshake, Owned
    <3>3. Handshake(c)'
      BY <1>4, <2>8, <2>9, <3>2 DEF Local, Handshake, Live
    <3>4. ProxyPosts(c)'
      BY <1>4, <2>8, <2>9, <3>2 DEF Local, ProxyPosts, After, Live
    <3>5. Owned(c)'
      BY <2>8, <3>2 DEF Owned, Live
    <3>6. MovesOn(c)'
      BY <2>8 DEF MovesOn
    <3> QED
      BY <3>1, <3>3, <3>4, <3>5, <3>6 DEF Local
  <2>10. LocalStep(c)
    BY <1>3, <2>2, <2>6, <2>7, <2>9, LocalStepFrom
  <2>11. Announced(queue') = Announced(queue) - 0 + 1
    BY <1>3, <2>2, AnnouncedAfter DEF IInv, TypeOK
  <2>12. Announced(queue) \in Nat /\ Len(waiting) \in Nat /\ Len(waiting) <= Announced(queue)
    BY FiniteAnnouncements, LenProperties, AnnouncedIs DEF IInv, TypeOK, AreAnnounced
  <2>13. AreAnnounced'
    BY <2>4, <2>11, <2>12 DEF AreAnnounced
  <2> QED
    BY <1>2, <1>4, <2>4, <2>10, <2>13 DEF WaitingStep, WhileServing, process
<1>6. CASE ~unknown[c].ready
  <2>1. DeleteUnknown(c)
    BY <1>6 DEF HandleUnknownClient
  <2>2. QueueStep(t, "none", c)
    BY <1>1, <1>3, <2>1 DEF DeleteUnknown, Done, Handles, Dispatch, QueueStep, Some
  <2>3. Has(queue, t, c)
    BY <1>3, <2>2, QueueAfter DEF IInv, TypeOK, After, Some
  <2>4. ~unknown[c].proxy /\ job[c].stream # "unknown" /\ ~Live(c)
    BY <1>1, <1>2, <1>4, <1>6, <2>3 DEF Local, Handshake, Owned
  <2>5. /\ job' = job /\ proxy' = proxy /\ waiting' = waiting /\ Waiting' = Waiting
        /\ unknown' = [unknown EXCEPT ![c] = NoUnknown] /\ timer' = timer \ {c}
    BY <2>1, <2>4 DEF DeleteUnknown, ProxyDeleted, Waiting
  <2>6. queue' \in Seq(EventType \X Conn) => TypeOK'
    BY <1>2, <2>5 DEF NoUnknown, IInv, TypeOK, process, served
  <2>7. \A d \in Conn : d # c => SameOf(d)
    BY <1>2, <2>5 DEF SameOf, IInv, TypeOK
  <2>8. ~unknown'[c].proxy /\ ~unknown'[c].ready
    BY <2>5 DEF NoUnknown, IInv, TypeOK
  <2>9. ASSUME After(t, "none", c) PROVE Local(c)'
    <3>1. Fresh(c)'
      BY <1>4, <2>9, MetStaysMet
    <3>2. c \notin newClients' /\ c \notin Waiting' /\ c \notin Served'
      BY <1>2, <1>4, <2>5
    <3>3. Handshake(c)'
      BY <1>4, <2>4, <2>5, <2>8, <2>9, <3>2 DEF Local, Handshake, Live, After
    <3>4. ProxyPosts(c)'
      BY <1>4, <2>5, <2>9 DEF Local, ProxyPosts, After
    <3>5. Owned(c)'
      BY <2>4, <2>5, <3>2 DEF Owned, Live
    <3>6. MovesOn(c)'
      BY <3>2 DEF MovesOn
    <3> QED
      BY <3>1, <3>3, <3>4, <3>5, <3>6 DEF Local
  <2>10. LocalStep(c)
    BY <1>3, <2>2, <2>6, <2>7, <2>9, LocalStepFrom
  <2> QED
    BY <1>2, <1>4, <2>5, <2>10, WaitingUnchanged DEF process
<1> QED
  BY <1>5, <1>6

LEMMA HandleUnlistedClientIsLocal ==
    ASSUME IInv, NEW c \in Conn, HandleUnlistedClient(c)
    PROVE  LocalStep(c)
<1>1. PICK t \in {"success", "failure"} : Handles("listener", t, c)
  BY DEF HandleUnlistedClient
<1>2. t \in EventType \ {"connected", "connecting"} /\ QueueStep(t, "none", c)
  BY <1>1, TypesAre DEF HandleUnlistedClient, Done, Handles, Dispatch, QueueStep
<1> QED
  BY <1>2, TakingIsLocal DEF HandleUnlistedClient, Fault

\* The proxy is deleted by whoever watches it when its connection ends, or when
\* the server's patience does.
LEMMA ProxyDeletedIsLocal ==
    ASSUME IInv, NEW c \in Conn, job[c].disconnected \in {"listener", "server"},
           NEW t \in {"disconnected", "none"}, QueueStep(t, "none", c),
           t = "none" => queue = <<>> /\ c \in Served,
           queue' \in Seq(EventType \X Conn) => TypeOK',
           \A d \in Conn : d # c => SameOf(d),
           job'[c] = [job[c] EXCEPT !.stream = "none", !.disconnected = "none"],
           proxy'[c] = "deleted", c \notin Waiting', c \notin Served',
           client'[c] \in {"gone", client[c]},
           UNCHANGED <<timer, unknown, newClients>>
    PROVE  LocalStep(c)
<1>1. t \in Some \ {"connected"} /\ "none" \in Some
  BY TypesAre DEF Some
<1>2. t = "none" => \A w : ~Has(queue, w, c)
  BY DEF Has
<1>3. Local(c)
  BY DEF IInv
<1>4. t # "none" => Has(queue, "disconnected", c)
  BY <1>1, QueueAfter DEF IInv, TypeOK, After
<1>5. Met(c) /\ Met(c)'
  <2>1. Met(c)
    <3>1. CASE t = "none"
      BY <3>1, <1>3, KnownIsMet
    <3>2. CASE t # "none"
      BY <3>2, <1>3, <1>4, KnownIsMet, TypesAre
    <3> QED
      BY <3>1, <3>2
  <2> QED
    BY <2>1 DEF Met
<1>6. /\ job'[c].stream = "none" /\ job'[c].ready = job[c].ready
      /\ job'[c].disconnected = "none" /\ proxy'[c] = "deleted"
      /\ job'[c].success = job[c].success /\ job'[c].failure = job[c].failure
  BY DEF IInv, TypeOK, Handled
<1>7. ~unknown[c].proxy
  BY <1>3 DEF Local, Handshake, Owned
<1>8. ASSUME After(t, "none", c) PROVE Local(c)'
  <2>1. Fresh(c)'
    BY <1>3, <1>5, <1>8, MetStaysMet
  <2>2. ~Has(queue', "ready", c) /\ ~Has(queue', "disconnected", c)
    BY <1>2, <1>3, <1>8 DEF Local, ProxyPosts, After
  <2>3. Handshake(c)'
    BY <1>3, <1>6, <1>7, <1>8, <2>2 DEF Local, Handshake, After, Live
  <2>4. ProxyPosts(c)'
    BY <1>3, <1>6, <1>8, <2>2 DEF Local, ProxyPosts, After
  <2>5. Owned(c)'
    BY <1>6, <1>7 DEF Owned, Live
  <2>6. MovesOn(c)'
    BY <1>3, <1>8 DEF Local, MovesOn, After
  <2> QED
    BY <2>1, <2>3, <2>4, <2>5, <2>6 DEF Local
<1> QED
  BY <1>1, <1>8, LocalStepFrom

LEMMA RemoveClientIsLocal ==
    ASSUME IInv, NEW c \in Conn, job[c].disconnected = "server", c \notin abandoned,
           NEW t \in {"disconnected", "none"}, QueueStep(t, "none", c),
           t = "none" => queue = <<>> /\ c \in adopted,
           RemoveClient(c)
    PROVE  LocalStep(c)
<1>1. c \notin Waiting
  BY DEF IInv, Local, Owned
<1>2. /\ Served' = Served \ {c} /\ Waiting' = Waiting
      /\ job' = [job EXCEPT ![c].stream = "none", ![c].disconnected = "none"]
      /\ proxy' = [proxy EXCEPT ![c] = "deleted"]
      /\ client' = [client EXCEPT ![c] = "gone"]
      /\ UNCHANGED <<timer, unknown, newClients, process>>
  BY DEF RemoveClient, Served, Waiting
<1>3. queue' \in Seq(EventType \X Conn) => TypeOK'
  BY DEF RemoveClient, IInv, TypeOK, process, Handled, Handler
<1>4. \A d \in Conn : d # c => SameOf(d)
  BY <1>2 DEF SameOf, IInv, TypeOK
<1>5. /\ job'[c] = [job[c] EXCEPT !.stream = "none", !.disconnected = "none"]
      /\ proxy'[c] = "deleted" /\ client'[c] = "gone" /\ c \notin Waiting' /\ c \notin Served'
  BY <1>1, <1>2 DEF IInv, TypeOK, Handled
<1> QED
  BY <1>2, <1>3, <1>4, <1>5, ProxyDeletedIsLocal DEF Served

LEMMA ServerRemovalsAreLocal ==
    ASSUME IInv, NEW c \in Conn, DisconnectedFromServer(c) \/ HandleClientCloseTimeout(c)
    PROVE  LocalStep(c)
<1>1. CASE DisconnectedFromServer(c)
  <2>1. QueueStep("disconnected", "none", c) /\ job[c].disconnected = "server"
    BY <1>1 DEF DisconnectedFromServer, Handles, HandlerOf, StreamEvent, Dispatch, Done, QueueStep
  <2> QED
    BY <1>1, <2>1, RemoveClientIsLocal DEF DisconnectedFromServer
<1>2. CASE HandleClientCloseTimeout(c)
  <2>1. QueueStep("none", "none", c) /\ queue = <<>> /\ RemoveClient(c)
    BY <1>2 DEF HandleClientCloseTimeout, Idle, QueueStep
  <2>2. c \in adopted /\ c \notin abandoned
    BY <1>2 DEF HandleClientCloseTimeout, IInv, ServerKnows, WaitsForToldOnly
  <2>3. job[c].disconnected = "server"
    BY <2>2 DEF IInv, Local, Owned, Served
  <2> QED
    BY <2>1, <2>2, <2>3, RemoveClientIsLocal
<1> QED
  BY <1>1, <1>2

\* The use of a deleted server: what is known of the connection stays so.
LEMMA LateUsesAreLocal ==
    ASSUME IInv, NEW c \in Conn, LateCloseTimeout(c) \/ LateDisconnected(c)
    PROVE  LocalStep(c)
<1>1. CASE LateDisconnected(c)
  <2>1. QueueStep("disconnected", "none", c) /\ "disconnected" \in EventType \ {"connected", "connecting"}
    BY <1>1, TypesAre DEF LateDisconnected, Handles, Dispatch, Done, QueueStep
  <2>2. fault' \in Fault /\ UNCHANGED <<objects, owners, client, app, restarts>>
    BY <1>1 DEF LateDisconnected, UsesDeletedServer, Fault
  <2> QED
    BY <2>1, <2>2, TakingIsLocal
<1>2. CASE LateCloseTimeout(c)
  <2>1. /\ UNCHANGED <<queue, objects, owners, client, app, restarts>> /\ fault' \in Fault
    BY <1>2 DEF LateCloseTimeout, UsesDeletedServer, Fault
  <2>2. TypeOK'
    BY <2>1 DEF IInv, TypeOK, objects, owners, served, Fault
  <2>3. \A d \in Conn : SameFor(d) /\ SameOf(d)
    BY <2>1 DEF SameFor, SameOf, objects, owners, served, Served, Waiting
  <2>4. QueueStep("none", "none", c) /\ "none" \in Some \ {"connected"}
    BY <2>1, TypesAre DEF QueueStep, Some
  <2> QED
    BY <2>2, <2>3, <2>4, OthersStayLocal DEF LocalStep, IInv
<1> QED
  BY <1>1, <1>2

LEMMA DisconnectedWhileWaitingIsOne ==
    ASSUME IInv, NEW c \in Conn, DisconnectedWhileWaiting(c)
    PROVE  LocalStep(c) /\ WaitingStep
<1>1. QueueStep("disconnected", "none", c) /\ job[c].disconnected = "listener"
  BY DEF DisconnectedWhileWaiting, Handles, HandlerOf, StreamEvent, Dispatch, Done, QueueStep
<1>2. c \notin Served
  BY <1>1 DEF IInv, Local, Owned
<1>3. UNCHANGED <<timer, unknown, newClients, served, client, process>> /\ Served' = Served
  BY DEF DisconnectedWhileWaiting, served, Served
<1>4. CASE c \in Waiting
  <2>1. /\ Erase(c)
        /\ job' = [job EXCEPT ![c].disconnected = "none"]
        /\ proxy' = [proxy EXCEPT ![c] = "deleted"]
    BY <1>4 DEF DisconnectedWhileWaiting
  <2>2. /\ waiting' \in Seq(Conn) /\ Len(waiting') = Len(waiting) - 1
        /\ AllDiffer(waiting')
        /\ \A d : In(d, waiting') <=> In(d, waiting) /\ d # c
    BY <2>1, WaitingErase DEF IInv, TypeOK
  <2>3. \A d : d \in Waiting' <=> d \in Waiting /\ d # c
    BY <2>2 DEF Waiting, In
  <2>4. job[c].stream = "none"
    <3>1. Has(queue, "disconnected", c)
      BY <1>1, TypesAre, QueueAfter DEF IInv, TypeOK, After, Some
    <3> QED
      BY <3>1 DEF IInv, Local, ProxyPosts
  <2>5. LocalStep(c)
    <3>1. queue' \in Seq(EventType \X Conn) => TypeOK'
      BY <1>3, <2>1, <2>2 DEF IInv, TypeOK, process, served, Handled, Handler
    <3>2. \A d \in Conn : d # c => SameOf(d)
      BY <1>3, <2>1, <2>3 DEF SameOf, IInv, TypeOK
    <3>3. job'[c] = [job[c] EXCEPT !.stream = "none", !.disconnected = "none"]
      BY <2>1, <2>4 DEF IInv, TypeOK, Handled
    <3>4. proxy'[c] = "deleted" /\ c \notin Waiting' /\ c \notin Served'
      BY <1>2, <1>3, <2>1, <2>3 DEF IInv, TypeOK
    <3> QED
      BY <1>1, <1>3, <3>1, <3>2, <3>3, <3>4, ProxyDeletedIsLocal
  <2>6. "disconnected" \in Some /\ "none" \in Some
    BY TypesAre DEF Some
  <2>7. Announced(queue') = Announced(queue) - 0 + 0
    BY <1>1, <2>6, AnnouncedAfter DEF IInv, TypeOK
  <2>8. Announced(queue) \in Nat /\ Len(waiting) \in Nat /\ Len(waiting) <= Announced(queue)
    BY FiniteAnnouncements, LenProperties, AnnouncedIs DEF IInv, TypeOK, AreAnnounced
  <2>9. AreAnnounced'
    BY <2>2, <2>7, <2>8 DEF AreAnnounced
  <2>10. app = "serving"
    BY <1>4 DEF IInv, WhileServing, Waiting
  <2> QED
    BY <1>3, <2>2, <2>5, <2>9, <2>10 DEF WaitingStep, WhileServing, process
<1>5. CASE c \notin Waiting
  <2>1. UNCHANGED <<objects, owners, client, app, restarts>> /\ fault' = fault
    BY <1>3, <1>5 DEF DisconnectedWhileWaiting, objects, owners, process
  <2>2. "disconnected" \in EventType \ {"connected", "connecting"}
    BY TypesAre
  <2>3. fault' \in Fault
    BY <2>1 DEF IInv, TypeOK, Fault
  <2>4. LocalStep(c)
    BY <1>1, <2>1, <2>2, <2>3, TakingIsLocal
  <2> QED
    BY <2>1, <2>4, WaitingUnchanged DEF owners
<1> QED
  BY <1>4, <1>5

-----------------------------------------------------------------------------
(***************************************************************************)
(* CServerApp: it adopts the client at the front, whichever was announced, *)
(* and closes and starts the server.                                       *)
(***************************************************************************)
IStep == TypeOK' /\ WaitingStep /\ \A d \in Conn : Local(d)'

LEMMA HandleClientConnectedKeeps ==
    ASSUME IInv, NEW c \in Conn, HandleClientConnected(c)
    PROVE  IStep
<1>1. QueueStep("connected", "none", c) /\ "connected" \in Some /\ "none" \in Some
  BY TypesAre DEF HandleClientConnected, Dispatch, Done, QueueStep, Some
<1>2. /\ queue' \in Seq(EventType \X Conn)
      /\ Announced(queue') = Announced(queue) - 1
  <2>1. queue \in Seq(EventType \X Conn)
    BY DEF IInv, TypeOK
  <2>2. /\ queue' \in Seq(EventType \X Conn)
        /\ Announced(queue') = Announced(queue) - 1 + 0
    BY <1>1, <2>1, QueueAfter, AnnouncedAfter
  <2>3. Announced(queue) \in Nat
    BY <2>1, FiniteAnnouncements
  <2> QED
    BY <2>2, <2>3
<1>3. \A d \in Conn : SameFor(d)
  <2>1. SameFor(c)
    BY <1>1, QueueAfter DEF IInv, TypeOK, After, SameFor
  <2> QED
    BY <1>1, <2>1, QueueAfter DEF IInv, TypeOK
<1>4. Announced(queue) \in Nat /\ Len(waiting) \in Nat /\ Len(waiting) <= Announced(queue)
  BY FiniteAnnouncements, LenProperties, AnnouncedIs DEF IInv, TypeOK, AreAnnounced
<1>5. Announced(queue') \in Nat
  BY <1>2, FiniteAnnouncements
<1>6. UNCHANGED <<timer, unknown, proxy, newClients, client, process>>
  BY DEF HandleClientConnected
<1>7. CASE app = "serving" /\ waiting # <<>>
  <2>0. PICK f \in Conn : f = Head(waiting)
    BY <1>7, WaitingTail DEF IInv, TypeOK
  <2>1. /\ waiting' = Tail(waiting) /\ adopted' = adopted \cup {f} /\ Served' = Served \cup {f}
        /\ closing' \subseteq closing \cup {f} /\ UNCHANGED abandoned
        /\ job' = [job EXCEPT ![f].disconnected = "server"]
    BY <1>7, <2>0 DEF HandleClientConnected, Served
  <2>2. /\ waiting' \in Seq(Conn) /\ Len(waiting') = Len(waiting) - 1
        /\ AllDiffer(waiting') /\ f \in Conn /\ In(f, waiting)
        /\ \A d : In(d, waiting') <=> In(d, waiting) /\ d # f
    BY <1>7, <2>0, <2>1, WaitingTail DEF IInv, TypeOK
  <2>3. f \in Waiting /\ \A d : d \in Waiting' <=> d \in Waiting /\ d # f
    BY <2>2, WaitingIs DEF Waiting, In
  <2>4. WaitingStep
    BY <1>2, <1>4, <1>6, <1>7, <2>2 DEF WaitingStep, WhileServing, AreAnnounced, process
  <2>5. TypeOK'
    BY <1>2, <1>6, <2>1, <2>2 DEF IInv, TypeOK, process, Handled, Handler
  <2>6. \A d \in Conn : d # f => SameOf(d)
    BY <1>6, <2>1, <2>3 DEF SameOf, IInv, TypeOK
  <2>7. Local(f)'
    <3>1. Local(f) /\ SameFor(f) /\ Met(f)
      BY <1>3, <2>2, <2>3, KnownIsMet DEF IInv
    <3>2. /\ job'[f].stream = job[f].stream /\ job'[f].ready = job[f].ready
          /\ job'[f].disconnected = "server"
          /\ job'[f].success = job[f].success /\ job'[f].failure = job[f].failure
          /\ f \in Served' /\ f \notin Waiting'
      BY <2>1, <2>2, <2>3 DEF IInv, TypeOK, Handled
    <3>3. Live(f) /\ f \notin newClients /\ ~unknown[f].proxy
      BY <2>3, <3>1 DEF Local, Owned, Handshake
    <3>4. Fresh(f)'
      BY <1>6, <3>1 DEF Local, Fresh, SameFor, Met
    <3>5. Handshake(f)'
      BY <1>6, <3>1, <3>2, <3>3 DEF Local, Handshake, SameFor, Live
    <3>6. ProxyPosts(f)'
      BY <1>6, <3>1, <3>2 DEF Local, ProxyPosts, SameFor
    <3>7. Owned(f)'
      BY <1>6, <3>2, <3>3 DEF Owned, Live
    <3>8. MovesOn(f)'
      BY <1>6, <3>3 DEF MovesOn
    <3> QED
      BY <3>4, <3>5, <3>6, <3>7, <3>8 DEF Local
  <2>8. \A d \in Conn : Local(d)'
    BY <1>3, <2>6, <2>7, OthersStayLocal DEF IInv
  <2> QED
    BY <2>4, <2>5, <2>8 DEF IStep
<1>8. CASE ~(app = "serving" /\ waiting # <<>>)
  <2>1. UNCHANGED <<waiting, served, job>> /\ Waiting' = Waiting /\ Served' = Served
    BY <1>8 DEF HandleClientConnected, Waiting, served, Served
  <2>2. waiting = <<>>
    BY <1>8 DEF IInv, WhileServing
  <2>3. Len(waiting') = 0
    BY <2>1, <2>2
  <2>4. WaitingStep
    BY <1>5, <1>6, <2>1, <2>3 DEF WaitingStep, WhileServing, AreAnnounced, process, IInv
  <2>5. TypeOK'
    BY <1>2, <1>6, <2>1 DEF IInv, TypeOK, process, served
  <2>6. \A d \in Conn : SameOf(d)
    BY <1>6, <2>1 DEF SameOf
  <2>7. \A d \in Conn : Local(d)'
    BY <1>3, <2>6, OthersStayLocal DEF IInv
  <2> QED
    BY <2>4, <2>5, <2>7 DEF IStep
<1> QED
  BY <1>7, <1>8

LEMMA NoneWait ==
    ASSUME queue \in Seq(EventType \X Conn), queue' = queue, waiting' = <<>>,
           app' # "serving" => newClients' = {}
    PROVE  WaitingStep
<1>1. AllDiffer(<<>>) /\ Len(<<>>) = 0
  BY DEF AllDiffer
<1>2. Announced(queue) \in Nat
  BY FiniteAnnouncements
<1> QED
  BY <1>1, <1>2 DEF WaitingStep, WhileServing, AreAnnounced

LEMMA CloseClientListenerKeeps ==
    ASSUME IInv, CloseClientListener
    PROVE  IStep
<1>1. WaitingStep
  BY NoneWait DEF CloseClientListener, IInv, TypeOK
<1>2. /\ queue' = queue /\ Waiting' = {} /\ newClients' = {} /\ Served' = Served
  BY DEF CloseClientListener, Waiting, Served
<1>3. TypeOK'
  <2>1. \A d \in Conn : JobsAfterClose(d) \in [Handled -> Handler]
    BY DEF JobsAfterClose, NoJobs, Handled, Handler, IInv, TypeOK
  <2>2. job' \in [Conn -> [Handled -> Handler]]
    BY <2>1 DEF CloseClientListener
  <2>3. <<>> \in Seq(Conn)
    OBVIOUS
  <2> QED
    BY <1>2, <2>2, <2>3 DEF CloseClientListener, NoUnknown, IInv, TypeOK
<1>4. ASSUME NEW d \in Conn PROVE Local(d)'
  <2>1. Local(d)
    BY DEF IInv
  <2>2. /\ job'[d] = JobsAfterClose(d)
        /\ proxy'[d] = IF d \in Waiting \/ (d \in newClients /\ unknown[d].proxy)
                       THEN "deleted" ELSE proxy[d]
        /\ unknown'[d] = IF d \in newClients THEN NoUnknown ELSE unknown[d]
        /\ client'[d] = IF d \in Waiting \cup newClients THEN "gone" ELSE client[d]
    BY DEF CloseClientListener
  <2>3. /\ job'[d].stream = IF d \in newClients \cup Waiting THEN "none" ELSE job[d].stream
        /\ job'[d].disconnected =
             IF (d \in newClients /\ unknown[d].proxy) \/ d \in Waiting THEN "none"
             ELSE job[d].disconnected
        /\ job'[d].ready = IF d \in newClients /\ unknown[d].proxy THEN "none" ELSE job[d].ready
    BY <2>1, <2>2 DEF JobsAfterClose, NoJobs, Handled, IInv, TypeOK, Local, Owned
  <2>4. CASE d \in newClients \/ d \in Waiting
    <3>1. Met(d) /\ Met(d)'
      BY <2>1, <2>2, <2>4, KnownIsMet DEF Met
    <3>2. Fresh(d)'
      BY <1>2, <2>1, <3>1 DEF Local, Fresh, Met
    <3>3. ~unknown'[d].proxy /\ ~unknown'[d].ready /\ ~Live(d)' /\ d \notin Served
      BY <2>1, <2>2, <2>4 DEF Local, Owned, Handshake, Live, NoUnknown
    <3>4. Handshake(d)'
      BY <1>2, <2>1, <2>2, <2>3, <2>4, <3>3 DEF Local, Handshake, Owned, Live
    <3>5. ProxyPosts(d)'
      BY <1>2, <2>1, <2>2, <2>3, <2>4 DEF Local, ProxyPosts
    <3>6. Owned(d)'
      BY <1>2, <3>3 DEF Owned
    <3>7. MovesOn(d)'
      BY <1>2 DEF MovesOn
    <3> QED
      BY <3>2, <3>4, <3>5, <3>6, <3>7 DEF Local
  <2>5. CASE d \notin newClients /\ d \notin Waiting
    <3>1. job'[d] = job[d] /\ proxy'[d] = proxy[d] /\ unknown'[d] = unknown[d] /\ client'[d] = client[d]
      BY <2>2, <2>5 DEF JobsAfterClose
    <3>2. Fresh(d)'
      BY <1>2, <2>1, <2>5, <3>1 DEF Local, Fresh
    <3>3. Handshake(d)'
      BY <1>2, <2>1, <2>5, <3>1 DEF Local, Handshake, Live
    <3>4. ProxyPosts(d)'
      BY <1>2, <2>1, <2>5, <3>1 DEF Local, ProxyPosts
    <3>5. Owned(d)'
      BY <1>2, <2>1, <2>5, <3>1 DEF Local, Owned, Live
    <3>6. MovesOn(d)'
      BY <1>2 DEF MovesOn
    <3> QED
      BY <3>2, <3>3, <3>4, <3>5, <3>6 DEF Local
  <2> QED
    BY <2>4, <2>5
<1> QED
  BY <1>1, <1>3, <1>4 DEF IStep

\* What changes hands when the server is closed, configured or started is told
\* by app and by who of its clients is to go.
LEMMA ServerStepsKeep ==
    ASSUME IInv, SetConfig \/ CloseServer \/ StartServer
    PROVE  IStep
<1>1. /\ UNCHANGED <<queue, job, timer, unknown, proxy, newClients, waiting, client, fault>>
      /\ Waiting' = Waiting /\ Served' = Served
  <2>1. CASE SetConfig
    BY <2>1 DEF SetConfig, objects, process, Waiting, Served
  <2>2. CASE CloseServer
    BY <2>2 DEF CloseServer, objects, Waiting, Served
  <2>3. CASE StartServer
    BY <2>3 DEF StartServer, objects, owners, served, Waiting, Served
  <2> QED
    BY <2>1, <2>2, <2>3
<1>2. WaitingStep
  <2>1. CASE SetConfig
    <3>1. app' = app
      BY <2>1 DEF SetConfig, process
    <3> QED
      BY <1>1, <3>1, AnnouncedIs DEF WaitingStep, AreAnnounced, Announced, AnnouncedIn, WhileServing, IInv
  <2>2. CASE CloseServer \/ StartServer
    <3>1. waiting = <<>> /\ newClients = {}
      BY <2>2 DEF CloseServer, StartServer, IInv, WhileServing
    <3> QED
      BY <1>1, <3>1, NoneWait DEF IInv, TypeOK
  <2> QED
    BY <2>1, <2>2
<1>3. TypeOK'
  <2>1. CASE SetConfig
    BY <1>1, <2>1 DEF SetConfig, process, IInv, TypeOK
  <2>2. CASE CloseServer
    BY <1>1, <2>2 DEF CloseServer, IInv, TypeOK
  <2>3. CASE StartServer
    BY <1>1, <2>3, AdmissionAssumption DEF StartServer, owners, served, IInv, TypeOK
  <2> QED
    BY <2>1, <2>2, <2>3
<1>4. \A d \in Conn : Local(d)'
  <2> SUFFICES ASSUME NEW d \in Conn PROVE Local(d)'
    OBVIOUS
  <2>1. Local(d) /\ SameFor(d) /\ SameOf(d)
    BY <1>1 DEF IInv, SameFor, SameOf
  <2> QED
    BY <2>1, OthersStayLocal
<1> QED
  BY <1>2, <1>3, <1>4 DEF IStep

\* Whom the server waits for.
LEMMA ServerKnowsStays ==
    ASSUME IInv, Next
    PROVE  ServerKnows'
<1> USE DEF ServerKnows, WaitsForToldOnly
<1>1. ASSUME NEW c \in Conn, HandleClientConnected(c) PROVE ServerKnows'
  <2>1. CASE app = "serving" /\ waiting # <<>>
    <3>1. /\ adopted' = adopted \cup {Head(waiting)} /\ closing' \subseteq closing \cup {Head(waiting)}
          /\ UNCHANGED <<abandoned, app>>
      BY <1>1, <2>1 DEF HandleClientConnected, process
    <3>2. Head(waiting) \in Conn /\ Head(waiting) \in Waiting
      BY <2>1, WaitingTail, WaitingIs DEF IInv, TypeOK
    <3>3. Head(waiting) \notin abandoned
      BY <3>2 DEF IInv, Local, Owned, Served
    <3> QED
      BY <2>1, <3>1, <3>3 DEF IInv
  <2>2. CASE ~(app = "serving" /\ waiting # <<>>)
    BY <1>1, <2>2 DEF HandleClientConnected, process, IInv
  <2> QED
    BY <2>1, <2>2
<1>2. ASSUME NEW c \in Conn, DisconnectedFromServer(c) \/ HandleClientCloseTimeout(c)
      PROVE  ServerKnows'
  BY <1>2 DEF DisconnectedFromServer, HandleClientCloseTimeout, RemoveClient, process, IInv
<1>3. CASE SetConfig
  BY <1>3 DEF SetConfig, process, IInv
<1>4. CASE CloseClientListener
  BY <1>4 DEF CloseClientListener, IInv
<1>5. CASE CloseServer
  BY <1>5 DEF CloseServer, IInv
<1>6. CASE StartServer
  BY <1>6 DEF StartServer, owners, served, IInv
<1>7. ASSUME NEW c \in Conn,
             \/ Environment(c) \/ \E type \in EventType : Dropped(type, c)
             \/ HandleReply(c) \/ HandleInfo(c) \/ StreamFails(c) \/ ProxyFails(c)
             \/ HandleReady(c) \/ DisconnectedWhileNew(c)
             \/ HandleConnecting(c) \/ HandleUnknownClient(c) \/ HandleUnlistedClient(c)
             \/ DisconnectedWhileWaiting(c) \/ LateDisconnected(c)
             \/ HandleTimeout(c) \/ HandleFlatline(c) \/ LateCloseTimeout(c)
      PROVE  ServerKnows'
  <2>1. UNCHANGED <<served, app>>
    BY <1>7 DEF Environment, Connects, RepliesToHello, SendsInfo, Breaks, Sends, Dropped,
       HandleReply, HandleInfo, StreamFails, ProxyFails, HandleReady, DisconnectedWhileNew,
       HandleConnecting, HandleUnknownClient, HandleUnlistedClient, DisconnectedWhileWaiting,
       LateDisconnected, HandleTimeout, HandleFlatline, LateCloseTimeout, UsesDeletedServer,
       sendFailure, disconnect, owners, process
  <2> QED
    BY <2>1 DEF served, IInv
<1> QED
  BY <1>1, <1>2, <1>3, <1>4, <1>5, <1>6, <1>7 DEF Next, App, Handle, Expire

-----------------------------------------------------------------------------
(***************************************************************************)
(* The theorem.                                                            *)
(***************************************************************************)
LEMMA StepIsInvariant ==
    ASSUME IInv, IStep, ServerKnows'
    PROVE  IInv'
BY AnnouncedIs DEF IInv, IStep, WaitingStep, WaitingAreAnnounced, Announcements,
   AreAnnounced, Announced, AnnouncedIn

LEMMA OneIsStep ==
    ASSUME NEW c \in Conn, LocalStep(c), WaitingStep
    PROVE  IStep
BY DEF LocalStep, IStep

LEMMA WaitersUnmoved ==
    ASSUME IInv, NEW c \in Conn,
           \/ Environment(c) \/ \E type \in EventType : Dropped(type, c)
           \/ HandleReply(c) \/ HandleInfo(c) \/ StreamFails(c) \/ ProxyFails(c)
           \/ HandleReady(c) \/ DisconnectedWhileNew(c)
           \/ HandleConnecting(c) \/ HandleUnlistedClient(c)
           \/ DisconnectedFromServer(c) \/ LateDisconnected(c)
           \/ HandleTimeout(c) \/ HandleFlatline(c) \/ HandleClientCloseTimeout(c)
           \/ LateCloseTimeout(c)
    PROVE  waiting' = waiting /\ app' = app /\ (newClients' \subseteq newClients \/ app = "serving")
BY DEF Environment, Connects, RepliesToHello, SendsInfo, Breaks, Sends, Dropped, HandleReply,
   HandleInfo, StreamFails, ProxyFails, HandleReady, DisconnectedWhileNew, HandleConnecting,
   HandleUnlistedClient, DisconnectedFromServer, HandleTimeout, HandleFlatline,
   HandleClientCloseTimeout, RemoveClient, LateDisconnected, LateCloseTimeout, UsesDeletedServer,
   sendFailure, disconnect, owners, process

\* The invariant is inductive.
THEOREM OwnersInductive == IInv /\ [Next]_vars => IInv'
<1> SUFFICES ASSUME IInv, [Next]_vars PROVE IInv'
  OBVIOUS
<1>1. ASSUME NEW c \in Conn, Environment(c) \/ Handle(c) \/ Expire(c) PROVE IStep
  <2>1. CASE HandleUnknownClient(c)
    BY <2>1, HandleUnknownClientIsOne, OneIsStep
  <2>2. CASE DisconnectedWhileWaiting(c)
    BY <2>2, DisconnectedWhileWaitingIsOne, OneIsStep
  <2>3. CASE HandleClientConnected(c)
    BY <2>3, HandleClientConnectedKeeps
  <2>4. CASE \/ Environment(c) \/ \E type \in EventType : Dropped(type, c)
             \/ HandleReply(c) \/ HandleInfo(c) \/ StreamFails(c) \/ ProxyFails(c)
             \/ HandleReady(c) \/ DisconnectedWhileNew(c)
             \/ HandleConnecting(c) \/ HandleUnlistedClient(c)
             \/ DisconnectedFromServer(c) \/ LateDisconnected(c)
             \/ HandleTimeout(c) \/ HandleFlatline(c) \/ HandleClientCloseTimeout(c)
             \/ LateCloseTimeout(c)
    <3>1. LocalStep(c)
      BY <2>4, EnvironmentIsLocal, DroppedIsLocal, HandleReplyIsLocal, HandleInfoIsLocal,
         FailuresAreLocal, DisconnectsAreLocal, HandleReadyIsLocal, HandleConnectingIsLocal,
         HandleUnlistedClientIsLocal, ServerRemovalsAreLocal, LateUsesAreLocal
    <3> QED
      BY <2>4, <3>1, WaitersUnmoved, WaitingUnchanged, OneIsStep
  <2> QED
    BY <1>1, <2>1, <2>2, <2>3, <2>4 DEF Handle, Expire
<1>2. CASE App
  BY <1>2, CloseClientListenerKeeps, ServerStepsKeep, ServerKnowsStays, StepIsInvariant
     DEF App, Next
<1>3. CASE UNCHANGED vars
  BY <1>3 DEF vars, objects, owners, served, process, ServerKnows, WaitsForToldOnly, Served, IInv, TypeOK, AllDiffer, WhileServing,
     WaitingAreAnnounced, Announcements, Waiting, Local, Fresh, Handshake, ProxyPosts, Owned,
     MovesOn, Live
<1> QED
  BY <1>1, <1>2, <1>3, ServerKnowsStays, StepIsInvariant DEF Next

LEMMA InitHolds == Init => IInv
<1> SUFFICES ASSUME Init PROVE IInv
  OBVIOUS
<1>1. TypeOK
  <2>1. queue \in Seq(EventType \X Conn) /\ waiting \in Seq(Conn)
    BY DEF Init
  <2>2. NoJobs \in [Handled -> Handler]
    BY DEF NoJobs, Handler
  <2> QED
    <3>1. job \in [Conn -> [Handled -> Handler]]
      BY <2>2 DEF Init
    <3>2. unknown \in [Conn -> [proxy : BOOLEAN, ready : BOOLEAN]]
      BY DEF Init, NoUnknown
    <3>3. restarts \in 0..MaxRestarts
      BY AdmissionAssumption DEF Init
    <3> QED
      BY <2>1, <3>1, <3>2, <3>3 DEF Init, TypeOK, Fault
<1>2. queue = <<>> /\ waiting = <<>> /\ DOMAIN queue = {} /\ DOMAIN waiting = {} /\ Len(waiting) = 0
  BY DEF Init
<1>3. WaitingAreAnnounced
  <2>1. Announced(queue) \in Nat
    BY <1>1, FiniteAnnouncements DEF TypeOK
  <2> QED
    BY <1>2, <2>1, AnnouncedIs DEF AreAnnounced
<1>4. \A w, c : ~Has(queue, w, c) /\ Once(queue, w, c) /\ ReadyFirst(queue, c)
  BY <1>2 DEF Has, Once, ReadyFirst
<1>5. ASSUME NEW c \in Conn PROVE Local(c)
  <2>1. /\ job[c] = NoJobs /\ unknown[c] = NoUnknown /\ proxy[c] = "none" /\ ~unknown[c].proxy
        /\ ~unknown[c].ready
        /\ job[c].stream = "none" /\ job[c].ready = "none" /\ job[c].disconnected = "none"
        /\ c \notin newClients /\ c \notin Waiting /\ c \notin Served /\ client[c] = "away"
    BY <1>2 DEF Init, NoJobs, NoUnknown, Handled, Waiting, Served
  <2> QED
    BY <1>4, <2>1 DEF Local, Fresh, Handshake, ProxyPosts, Owned, MovesOn, Live
<1> QED
  BY <1>1, <1>2, <1>3, <1>5 DEF IInv, AllDiffer, WhileServing, Init, ServerKnows, WaitsForToldOnly

LEMMA WaitersAreCounted ==
    ASSUME waiting \in Seq(Conn), AllDiffer(waiting)
    PROVE  Cardinality(Waiting) = Len(waiting)
<1>1. DOMAIN waiting = 1..Len(waiting) /\ Len(waiting) \in Nat
  BY LenProperties
<1>2. waiting \in [1..Len(waiting) -> Waiting]
  BY <1>1, LenProperties DEF Waiting
<1>3. waiting \in Bijection(1..Len(waiting), Waiting)
  <2>1. waiting \in Injection(1..Len(waiting), Waiting)
    BY <1>1, <1>2 DEF AllDiffer, Injection, IsInjective
  <2>2. waiting \in Surjection(1..Len(waiting), Waiting)
    BY <1>1, <1>2 DEF Waiting, Surjection
  <2> QED
    BY <2>1, <2>2 DEF Bijection
<1>4. IsFiniteSet(1..Len(waiting)) /\ Cardinality(1..Len(waiting)) = Len(waiting)
  BY <1>1, FS_Interval
<1> QED
  BY <1>3, <1>4, FS_Bijection DEF ExistsBijection

LEMMA InvariantImplies == IInv => ConnectionsAreOwned
<1> SUFFICES ASSUME IInv PROVE ConnectionsAreOwned
  OBVIOUS
<1>1. OneOwner
  <2>1. \A c \in Conn : Owned(c)
    BY DEF IInv, Local
  <2>2. /\ newClients \cap Waiting = {} /\ newClients \cap adopted = {} /\ Waiting \cap adopted = {}
        /\ (newClients \cup Waiting \cup adopted) \cap abandoned = {}
    BY <2>1 DEF Owned, Served, ServerKnows, IInv, TypeOK, Waiting
  <2>3. Cardinality(Waiting) = Len(waiting)
    BY WaitersAreCounted DEF IInv, TypeOK
  <2> QED
    BY <2>1, <2>2, <2>3 DEF OneOwner, Owned, Served
<1>2. OwnerWatches
  BY DEF IInv, Local, Owned, Served, OwnerWatches
<1>3. HandshakeEnds
  BY DEF IInv, TypeOK, Local, MovesOn, HandshakeEnds, Pending, Has
<1> QED
  BY <1>1, <1>2, <1>3 DEF IInv, ServerKnows, ConnectionsAreOwned

\* Each connection has one owner, who hears of its end, and something that is
\* still to come moves it on, however many connections there are and however
\* often the server is started again.
THEOREM OwnersAreKept == Spec => []ConnectionsAreOwned
<1>1. Init => IInv
  BY InitHolds
<1>2. IInv /\ [Next]_vars => IInv'
  BY OwnersInductive
<1>3. IInv => ConnectionsAreOwned
  BY InvariantImplies
<1> QED
  BY <1>1, <1>2, <1>3, PTL DEF Spec

===============================================================================
