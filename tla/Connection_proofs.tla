-------------------------- MODULE Connection_proofs ---------------------------
(***************************************************************************)
(* What a connection promises above the socket: its packets (PacketFilter) *)
(* and its keep-alives (KeepAlive).  No theorem is about both.             *)
(*                                                                         *)
(* Keep-alives: EndsAgree and LiveIsKept are invariants, for every rate,   *)
(* every set of options and every delay that KeepAliveAssumption admits.   *)
(* The argument has two parts.  What is on its way to the client brings it *)
(* the server's rate (Brings): options come right after a reset, and the   *)
(* last ones are the server's.  And each alarm of two ends in contact is   *)
(* answered for by something that resets it before it goes off (InTime):   *)
(* a message that arrives in time, or the next keep-alive, which leaves    *)
(* when keepAlive is down to 0 and takes MaxDelay there and MaxDelay back; *)
(* in the handshake, what is left of its four messages.  Each second takes *)
(* one from the alarm and one from what it waits for, so that the strict   *)
(* inequality stays, and an alarm at 0 contradicts it.                     *)
(*                                                                         *)
(* Packets: PacketsAreWhole is an invariant and the filter implements      *)
(* PacketStream, for headers of any length and base, any packets, and      *)
(* bytes cut anywhere.  What the buffers hold, and what was lost behind    *)
(* them, is what was written and not read (BytesFit): the header that is   *)
(* read from it is the length of the next packet, because the digits that  *)
(* write makes of a length make it again (DecodedIsLength).  When the end  *)
(* is told nothing is left in any buffer, since a socket announces its     *)
(* input before its end (InputFirst) and the filter keeps the end back     *)
(* while a packet is unfinished (EndFits).                                 *)
(***************************************************************************)
EXTENDS KeepAlive, PacketFilter, SequenceTheorems, WellFoundedInduction, TLAPS

\* The messages on the way, in any order.
Msgs(q) == {q[i] : i \in DOMAIN q}

LEMMA MsgsOfTail ==
    ASSUME NEW q \in Seq(Messages), q # <<>>
    PROVE  /\ Tail(q) \in Seq(Messages) /\ Head(q) \in Messages
           /\ Msgs(q) = {Head(q)} \cup Msgs(Tail(q))
<1>1. /\ Tail(q) \in Seq(Messages) /\ Len(Tail(q)) = Len(q) - 1 /\ Head(q) \in Messages
      /\ \A i \in 1..Len(Tail(q)) : Tail(q)[i] = q[i + 1]
      /\ Head(q) = q[1]
  BY HeadTailProperties
<1>2. /\ Len(q) \in Nat /\ Len(q) # 0 /\ DOMAIN q = 1..Len(q)
      /\ DOMAIN Tail(q) = 1..Len(q) - 1
  BY <1>1, LenProperties, EmptySeq
<1>3. \A i \in DOMAIN q : i = 1 \/ (i - 1 \in DOMAIN Tail(q) /\ Tail(q)[i - 1] = q[i])
  BY <1>1, <1>2
<1>4. \A i \in DOMAIN Tail(q) : i + 1 \in DOMAIN q /\ Tail(q)[i] = q[i + 1]
  BY <1>1, <1>2
<1>5. 1 \in DOMAIN q
  BY <1>2
<1>6. ASSUME NEW m \in Msgs(q) PROVE m \in {Head(q)} \cup Msgs(Tail(q))
  <2>1. PICK i \in DOMAIN q : m = q[i]
    BY DEF Msgs
  <2> QED
    BY <1>1, <1>3, <2>1 DEF Msgs
<1>7. ASSUME NEW m \in {Head(q)} \cup Msgs(Tail(q)) PROVE m \in Msgs(q)
  BY <1>1, <1>4, <1>5 DEF Msgs
<1> QED
  BY <1>1, <1>6, <1>7

LEMMA MsgsOfEmpty == Msgs(<<>>) = {} /\ <<>> \in Seq(Messages)
BY DEF Msgs

LEMMA MsgsOfAppend ==
    ASSUME NEW q \in Seq(Messages), NEW m \in Messages
    PROVE  /\ q \o <<m>> \in Seq(Messages)
           /\ q \o <<m>> = Append(q, m)
           /\ Msgs(q \o <<m>>) = Msgs(q) \cup {m}
<1>1. q \o <<m>> = Append(q, m) /\ <<m>> \in Seq(Messages)
  OBVIOUS
<1> DEFINE more == Append(q, m)
<1>2. /\ Len(q) \in Nat /\ DOMAIN q = 1..Len(q)
      /\ more \in Seq(Messages) /\ Len(more) = Len(q) + 1
      /\ \A i \in 1..Len(q) : more[i] = q[i]
      /\ more[Len(q) + 1] = m
  BY AppendProperties, LenProperties
<1> HIDE DEF more
<1>3. DOMAIN more = 1..Len(q) + 1
  BY <1>2, LenProperties
<1>4. Msgs(more) = Msgs(q) \cup {m}
  BY <1>2, <1>3 DEF Msgs
<1> QED
  BY <1>1, <1>2, <1>4 DEF more

LEMMA MsgsOfOlder ==
    ASSUME NEW q \in Seq(Messages), \A i \in DOMAIN q : q[i].age < MaxDelay
    PROVE  /\ Older(q) \in Seq(Messages)
           /\ Msgs(Older(q)) = {[m EXCEPT !.age = @ + 1] : m \in Msgs(q)}
           /\ DOMAIN Older(q) = DOMAIN q
           /\ \A i \in DOMAIN q : /\ Older(q)[i].type = q[i].type
                                  /\ Older(q)[i].option = q[i].option
<1>1. /\ Len(q) \in Nat /\ DOMAIN q = 1..Len(q)
      /\ \A i \in DOMAIN q : q[i] \in Messages
  BY LenProperties, ElementOfSeq
<1>2. \A i \in DOMAIN q : /\ [q[i] EXCEPT !.age = @ + 1] \in Messages
                          /\ [q[i] EXCEPT !.age = @ + 1].type = q[i].type
                          /\ [q[i] EXCEPT !.age = @ + 1].option = q[i].option
  <2> SUFFICES ASSUME NEW i \in DOMAIN q
               PROVE  /\ [q[i] EXCEPT !.age = @ + 1] \in Messages
                      /\ [q[i] EXCEPT !.age = @ + 1].type = q[i].type
                      /\ [q[i] EXCEPT !.age = @ + 1].option = q[i].option
    OBVIOUS
  <2>1. q[i] \in Messages /\ q[i].age \in 0..MaxDelay /\ q[i].age < MaxDelay
    BY <1>1 DEF Messages
  <2>2. q[i].age + 1 \in 0..MaxDelay
    BY <2>1, KeepAliveAssumption
  <2> QED
    BY <2>1, <2>2 DEF Messages
<1>3. Older(q) \in [1..Len(q) -> Messages]
  BY <1>1, <1>2 DEF Older
<1>4. Older(q) \in Seq(Messages)
  BY <1>1, <1>3, SeqDef
<1>5. DOMAIN Older(q) = DOMAIN q /\ \A i \in DOMAIN q : Older(q)[i] = [q[i] EXCEPT !.age = @ + 1]
  BY DEF Older
<1>6. Msgs(Older(q)) = {[m EXCEPT !.age = @ + 1] : m \in Msgs(q)}
  <2>1. ASSUME NEW m \in Msgs(Older(q)) PROVE m \in {[n EXCEPT !.age = @ + 1] : n \in Msgs(q)}
    <3>1. PICK i \in DOMAIN q : m = [q[i] EXCEPT !.age = @ + 1]
      BY <1>5 DEF Msgs
    <3> QED
      BY <3>1 DEF Msgs
  <2>2. ASSUME NEW i \in DOMAIN q PROVE [q[i] EXCEPT !.age = @ + 1] \in Msgs(Older(q))
    BY <1>5 DEF Msgs
  <2> QED
    BY <2>1, <2>2 DEF Msgs
<1> QED
  BY <1>2, <1>4, <1>5, <1>6

-----------------------------------------------------------------------------
(***************************************************************************)
(* The rate the client will have.                                          *)
(***************************************************************************)
RateOf(option) == IF option = NoOption THEN KeepAliveRate ELSE option
Resets(m) == m.type = "kMsgCResetOptions"
Sets(m) == m.type = "kMsgDSetOptions"

\* A client of the given rate that handles q has the final rate then: the options
\* are always preceded by a reset, and the last ones are those of the server.
Brings(q, rate, final) ==
    /\ \A i \in DOMAIN q : Resets(q[i]) => i + 1 \in DOMAIN q /\ Sets(q[i + 1])
    /\ \A i \in DOMAIN q : Sets(q[i]) => IF i = 1 THEN rate = KeepAliveRate ELSE Resets(q[i - 1])
    /\ (\A i \in DOMAIN q : ~Sets(q[i])) => rate = final
    /\ \A i \in DOMAIN q :
          Sets(q[i]) /\ (\A j \in DOMAIN q : j > i => ~Sets(q[j])) => RateOf(q[i].option) = final

RateAfter(rate, m) ==
    IF Resets(m) THEN KeepAliveRate
    ELSE IF Sets(m) /\ m.option # NoOption THEN m.option ELSE rate

LEMMA BringsTail ==
    ASSUME NEW q \in Seq(Messages), q # <<>>, NEW rate, NEW final, Brings(q, rate, final)
    PROVE  Brings(Tail(q), RateAfter(rate, Head(q)), final)
<1> DEFINE rest == Tail(q)
           rate2 == RateAfter(rate, Head(q))
<1>1. /\ Len(q) \in Nat /\ Len(q) # 0 /\ DOMAIN q = 1..Len(q) /\ DOMAIN rest = 1..Len(q) - 1
      /\ \A i \in DOMAIN rest : rest[i] = q[i + 1]
      /\ q[1] = Head(q)
  <2>1. /\ Len(rest) = Len(q) - 1 /\ rest \in Seq(Messages)
        /\ \A i \in 1..Len(rest) : rest[i] = q[i + 1]
        /\ q[1] = Head(q)
    BY HeadTailProperties
  <2> QED
    BY <2>1, LenProperties, EmptySeq
<1>2. rate2 = RateAfter(rate, q[1])
  BY <1>1
<1> HIDE DEF rest, rate2
<1>3. ~(Sets(q[1]) /\ Resets(q[1]))
  BY DEF Sets, Resets
<1>4. \A i \in DOMAIN rest : i + 1 \in DOMAIN q /\ i + 1 # 1 /\ i \in Nat /\ rest[i] = q[i + 1]
  BY <1>1
<1>5. \A i \in DOMAIN q : i # 1 => i - 1 \in DOMAIN rest /\ rest[i - 1] = q[i] /\ i \in Nat
  BY <1>1
<1>6. \A i \in DOMAIN rest : Resets(rest[i]) => i + 1 \in DOMAIN rest /\ Sets(rest[i + 1])
  <2> SUFFICES ASSUME NEW i \in DOMAIN rest, Resets(rest[i])
               PROVE  i + 1 \in DOMAIN rest /\ Sets(rest[i + 1])
    OBVIOUS
  <2>1. (i + 1) + 1 \in DOMAIN q /\ Sets(q[(i + 1) + 1])
    BY <1>4 DEF Brings
  <2>2. (i + 1) + 1 # 1 /\ ((i + 1) + 1) - 1 = i + 1
    BY <1>4
  <2> QED
    BY <1>5, <2>1, <2>2
<1>7. \A i \in DOMAIN rest :
         Sets(rest[i]) => IF i = 1 THEN rate2 = KeepAliveRate ELSE Resets(rest[i - 1])
  <2> SUFFICES ASSUME NEW i \in DOMAIN rest, Sets(rest[i])
               PROVE  IF i = 1 THEN rate2 = KeepAliveRate ELSE Resets(rest[i - 1])
    OBVIOUS
  <2>1. Resets(q[(i + 1) - 1]) /\ (i + 1) - 1 = i
    BY <1>4 DEF Brings
  <2>2. CASE i = 1
    BY <1>2, <2>1, <2>2 DEF RateAfter
  <2>3. CASE i # 1
    BY <1>1, <1>5, <2>1, <2>3
  <2> QED
    BY <2>2, <2>3
<1>8. 1 \in DOMAIN q
  BY <1>1
<1>9. (\A i \in DOMAIN rest : ~Sets(rest[i])) => rate2 = final
  <2> SUFFICES ASSUME \A i \in DOMAIN rest : ~Sets(rest[i]) PROVE rate2 = final
    OBVIOUS
  <2>1. \A i \in DOMAIN q : i # 1 => ~Sets(q[i])
    BY <1>5
  <2>2. ~Resets(q[1])
    BY <1>8, <1>1, <2>1 DEF Brings
  <2>3. CASE Sets(q[1])
    <3>1. rate = KeepAliveRate
      BY <1>8, <2>3 DEF Brings
    <3>2. \A j \in DOMAIN q : j > 1 => ~Sets(q[j])
      BY <2>1
    <3>3. RateOf(q[1].option) = final
      BY <1>8, <2>3, <3>2 DEF Brings
    <3> QED
      BY <1>2, <1>3, <2>3, <3>1, <3>3 DEF RateAfter, RateOf
  <2>4. CASE ~Sets(q[1])
    <3>1. \A i \in DOMAIN q : ~Sets(q[i])
      BY <2>1, <2>4
    <3> QED
      BY <1>2, <2>2, <2>4, <3>1 DEF Brings, RateAfter
  <2> QED
    BY <2>3, <2>4
<1>10. \A i \in DOMAIN rest :
          Sets(rest[i]) /\ (\A j \in DOMAIN rest : j > i => ~Sets(rest[j]))
             => RateOf(rest[i].option) = final
  <2> SUFFICES ASSUME NEW i \in DOMAIN rest, Sets(rest[i]),
                      \A j \in DOMAIN rest : j > i => ~Sets(rest[j])
               PROVE  RateOf(rest[i].option) = final
    OBVIOUS
  <2>1. \A j \in DOMAIN q : j > i + 1 => ~Sets(q[j])
    BY <1>1, <1>4, <1>5
  <2> QED
    BY <1>4, <2>1 DEF Brings
<1> QED
  BY <1>6, <1>7, <1>9, <1>10 DEF Brings, rest, rate2

LEMMA BringsOther ==
    ASSUME NEW q \in Seq(Messages), NEW m \in Messages, NEW rate, NEW final,
           ~Resets(m), ~Sets(m), Brings(q, rate, final)
    PROVE  Brings(q \o <<m>>, rate, final)
<1> DEFINE more == Append(q, m)
<1>1. /\ Len(q) \in Nat /\ DOMAIN q = 1..Len(q) /\ DOMAIN more = 1..Len(q) + 1
      /\ \A i \in DOMAIN q : more[i] = q[i]
      /\ more[Len(q) + 1] = m
  <2>1. /\ more \in Seq(Messages) /\ Len(more) = Len(q) + 1
        /\ \A i \in 1..Len(q) : more[i] = q[i]
        /\ more[Len(q) + 1] = m
    BY AppendProperties
  <2> QED
    BY <2>1, LenProperties
<1>2. more = q \o <<m>>
  BY MsgsOfAppend
<1> HIDE DEF more
<1>3. \A i \in DOMAIN more : Sets(more[i]) \/ Resets(more[i]) => i \in DOMAIN q /\ more[i] = q[i]
  BY <1>1
<1>4. \A i \in DOMAIN q : i \in DOMAIN more /\ more[i] = q[i] /\ (i # 1 => i - 1 \in DOMAIN q)
  BY <1>1
<1>5. Brings(more, rate, final)
  <2>1. \A i \in DOMAIN more : Resets(more[i]) => i + 1 \in DOMAIN more /\ Sets(more[i + 1])
    BY <1>3, <1>4 DEF Brings
  <2>2. \A i \in DOMAIN more :
           Sets(more[i]) => IF i = 1 THEN rate = KeepAliveRate ELSE Resets(more[i - 1])
    BY <1>3, <1>4 DEF Brings
  <2>3. (\A i \in DOMAIN more : ~Sets(more[i])) => rate = final
    BY <1>4 DEF Brings
  <2>4. \A i \in DOMAIN more :
           Sets(more[i]) /\ (\A j \in DOMAIN more : j > i => ~Sets(more[j]))
              => RateOf(more[i].option) = final
    BY <1>3, <1>4 DEF Brings
  <2> QED
    BY <2>1, <2>2, <2>3, <2>4 DEF Brings
<1> QED
  BY <1>2, <1>5

LEMMA BringsOptions ==
    ASSUME NEW q \in Seq(Messages), NEW a \in Messages, NEW b \in Messages,
           NEW rate, NEW final, NEW other,
           Resets(a), Sets(b), Brings(q, rate, other)
    PROVE  Brings(q \o <<a, b>>, rate, RateOf(b.option))
<1> DEFINE more == q \o <<a, b>>
<1>0. <<a, b>> \in Seq(Messages) /\ Len(<<a, b>>) = 2 /\ <<a, b>>[1] = a /\ <<a, b>>[2] = b
  OBVIOUS
<1>1. /\ Len(q) \in Nat /\ DOMAIN q = 1..Len(q) /\ DOMAIN more = 1..Len(q) + 2
      /\ \A i \in DOMAIN q : more[i] = q[i]
      /\ more[Len(q) + 1] = a /\ more[Len(q) + 2] = b
  <2>1. /\ more \in Seq(Messages) /\ Len(more) = Len(q) + 2
        /\ \A i \in 1..Len(q) + 2 :
              more[i] = IF i <= Len(q) THEN q[i] ELSE <<a, b>>[i - Len(q)]
    BY <1>0, ConcatProperties
  <2>2. Len(q) \in Nat /\ DOMAIN q = 1..Len(q) /\ DOMAIN more = 1..Len(q) + 2
    BY <2>1, LenProperties
  <2> HIDE DEF more
  <2>3. more[Len(q) + 1] = <<a, b>>[(Len(q) + 1) - Len(q)]
    BY <2>1, <2>2
  <2>4. more[Len(q) + 2] = <<a, b>>[(Len(q) + 2) - Len(q)]
    BY <2>1, <2>2
  <2>5. (Len(q) + 1) - Len(q) = 1 /\ (Len(q) + 2) - Len(q) = 2
    BY <2>2
  <2>6. \A i \in DOMAIN q : more[i] = q[i]
    BY <2>1, <2>2
  <2> QED
    BY <1>0, <2>2, <2>3, <2>4, <2>5, <2>6
<1> HIDE DEF more
<1>2. ~Sets(a) /\ ~Resets(b)
  BY DEF Sets, Resets
<1>3. \A i \in DOMAIN more : i \in DOMAIN q \/ i = Len(q) + 1 \/ i = Len(q) + 2
  BY <1>1
<1>4. \A i \in DOMAIN q : i \in DOMAIN more /\ more[i] = q[i] /\ (i # 1 => i - 1 \in DOMAIN q)
  BY <1>1
<1>5. \A i \in DOMAIN more : Resets(more[i]) => i + 1 \in DOMAIN more /\ Sets(more[i + 1])
  <2> SUFFICES ASSUME NEW i \in DOMAIN more, Resets(more[i])
               PROVE  i + 1 \in DOMAIN more /\ Sets(more[i + 1])
    OBVIOUS
  <2>1. CASE i \in DOMAIN q
    BY <1>4, <2>1 DEF Brings
  <2>2. CASE i = Len(q) + 1
    <3>1. i + 1 = Len(q) + 2 /\ i + 1 \in DOMAIN more
      BY <1>1, <2>2
    <3> QED
      BY <1>1, <3>1
  <2> QED
    BY <1>1, <1>2, <1>3, <2>1, <2>2
<1>6. \A i \in DOMAIN more :
         Sets(more[i]) => IF i = 1 THEN rate = KeepAliveRate ELSE Resets(more[i - 1])
  <2> SUFFICES ASSUME NEW i \in DOMAIN more, Sets(more[i])
               PROVE  IF i = 1 THEN rate = KeepAliveRate ELSE Resets(more[i - 1])
    OBVIOUS
  <2>1. CASE i \in DOMAIN q
    BY <1>4, <2>1 DEF Brings
  <2>2. CASE i = Len(q) + 2
    <3>1. i - 1 = Len(q) + 1 /\ i # 1
      BY <1>1, <2>2
    <3> QED
      BY <1>1, <3>1
  <2> QED
    BY <1>1, <1>2, <1>3, <2>1, <2>2
<1>7. Len(q) + 2 \in DOMAIN more /\ \A i \in DOMAIN more : i # Len(q) + 2 => Len(q) + 2 > i
  BY <1>1
<1>8. (\A i \in DOMAIN more : ~Sets(more[i])) => rate = RateOf(b.option)
  BY <1>1, <1>7
<1>9. \A i \in DOMAIN more :
         Sets(more[i]) /\ (\A j \in DOMAIN more : j > i => ~Sets(more[j]))
            => RateOf(more[i].option) = RateOf(b.option)
  BY <1>1, <1>7
<1> QED
  BY <1>5, <1>6, <1>8, <1>9 DEF Brings, more

LEMMA BringsOlder ==
    ASSUME NEW q \in Seq(Messages), \A i \in DOMAIN q : q[i].age < MaxDelay,
           NEW rate, NEW final, Brings(q, rate, final)
    PROVE  Brings(Older(q), rate, final)
<1>1. /\ DOMAIN Older(q) = DOMAIN q
      /\ \A i \in DOMAIN q : /\ Sets(Older(q)[i]) <=> Sets(q[i])
                             /\ Resets(Older(q)[i]) <=> Resets(q[i])
                             /\ Older(q)[i].option = q[i].option
  BY MsgsOfOlder DEF Sets, Resets
<1>2. \A i \in DOMAIN q : i # 1 => i - 1 \in DOMAIN q
  BY LenProperties
<1> DEFINE old == Older(q)
<1> HIDE DEF old
<1>3. /\ DOMAIN old = DOMAIN q
      /\ \A i \in DOMAIN q : /\ Sets(old[i]) <=> Sets(q[i])
                             /\ Resets(old[i]) <=> Resets(q[i])
                             /\ old[i].option = q[i].option
  BY <1>1 DEF old
<1>4. Brings(old, rate, final)
  BY <1>2, <1>3 DEF Brings
<1> QED
  BY <1>4 DEF old

\* Without a message that changes it, the client's rate is the final one.
LEMMA BringsQuiet ==
    ASSUME NEW q \in Seq(Messages), NEW rate, NEW final, Brings(q, rate, final),
           \A m \in Msgs(q) : ~Resets(m) /\ (Sets(m) => m.option = NoOption)
    PROVE  rate = final
<1>1. \A i \in DOMAIN q : ~Resets(q[i]) /\ (Sets(q[i]) => q[i].option = NoOption)
  BY DEF Msgs
<1>2. CASE \A i \in DOMAIN q : ~Sets(q[i])
  BY <1>2 DEF Brings
<1>3. ASSUME NEW k \in DOMAIN q, Sets(q[k]) PROVE rate = final
  <2>1. DOMAIN q = 1..Len(q) /\ Len(q) \in Nat
    BY LenProperties
  <2>2. \A i \in DOMAIN q : Sets(q[i]) => i = 1
    BY <1>1, <2>1 DEF Brings
  <2>3. k = 1 /\ rate = KeepAliveRate
    BY <1>3, <2>2 DEF Brings
  <2>4. \A j \in DOMAIN q : j > k => ~Sets(q[j])
    BY <2>1, <2>2, <2>3
  <2>5. RateOf(q[k].option) = final
    BY <1>3, <2>4 DEF Brings
  <2> QED
    BY <1>1, <1>3, <2>3, <2>5 DEF RateOf
<1> QED
  BY <1>2, <1>3

-----------------------------------------------------------------------------
(***************************************************************************)
(* The inductive invariant.                                                *)
(***************************************************************************)
\* the alarm of an end that has just heard of the other
Full(rate) == rate * KeepAlivesUntilDeath

\* The server asks for the client's information first and has the default rate
\* until it sends the options.  A polite client sends nothing but its information.
Handshake ==
    /\ server.state \in {"handshake", "ready"} =>
          /\ server.rate = KeepAliveRate /\ client.state # "ready"
          /\ \A m \in Msgs(toClient) : m.type \in {"kMsgQInfo", "kMsgCInfoAck", "close"}
    /\ server.state = "handshake" =>
          /\ server.keepAlive = NoTimer
          /\ client.polite =>
                /\ server.alarm = NoTimer
                /\ \A m \in Msgs(toServer) : m.type \in {"kMsgDInfo", "close"}

\* The keep-alives are sent at the rate, and not before the options are to be sent.
KeepsPace ==
    /\ server.keepAlive <= server.rate
    /\ server.state = "ready" => server.keepAlive = server.rate
    /\ server.state \in {"ready", "adopted"} =>
          /\ server.rate > 0 <=> server.alarm # NoTimer
          /\ server.rate > 0 <=> server.keepAlive # NoTimer
    /\ client.polite => server.leaked = NoTimer
    /\ ClientRuns => (client.rate > 0 <=> client.alarm # NoTimer)

\* What RatesAgree rests on.
OptionsArrive ==
    ServerRuns /\ ClientRuns /\ gone = "nobody" => Brings(toClient, client.rate, server.rate)

\* What LiveIsKept is about.
InContact == gone = "nobody" /\ client.polite
Closes(m) == m.type = "close"

\* Nobody leaves before the client does, and the server is told.
ClientLeavesFirst ==
    InContact =>
        /\ flatlined = {}
        /\ ClientRuns => ServerRuns /\ \A m \in Msgs(toServer) : ~Closes(m)
        /\ ServerRuns => \A m \in Msgs(toClient) : ~Closes(m)
        /\ ~ClientRuns /\ ServerRuns => \E m \in Msgs(toServer) : Closes(m)

KeepsAlive(m) == m.type = "kMsgCKeepAlive"
Rewinds(m) == KeepsAlive(m) \/ Resets(m) \/ (Sets(m) /\ m.option # NoOption)

\* The server hears of the client before its alarm goes off: from a message that is
\* on its way, from the echo of a keep-alive that is, or of the next one.
ServerHears ==
    \/ \E m \in Msgs(toServer) : server.alarm > MaxDelay - m.age
    \/ /\ ClientRuns
       /\ \E m \in Msgs(toClient) : KeepsAlive(m) /\ server.alarm > 2 * MaxDelay - m.age
    \/ ClientRuns /\ server.keepAlive # NoTimer /\ server.alarm > server.keepAlive + 2 * MaxDelay

\* The client hears of the server before its alarm goes off: from a message that
\* rewinds the alarm, from the next keep-alive, or at the end of the handshake.
ClientHears ==
    \/ \E m \in Msgs(toClient) : Rewinds(m) /\ client.alarm > MaxDelay - m.age
    \/ /\ server.state = "adopted" /\ server.keepAlive # NoTimer
       /\ client.alarm > server.keepAlive + MaxDelay
    \/ /\ server.state = "handshake"
       /\ \E m \in Msgs(toClient) : m.type = "kMsgQInfo" /\ client.alarm > 3 * MaxDelay - m.age
    \/ /\ server.state = "handshake"
       /\ \E m \in Msgs(toServer) : m.type = "kMsgDInfo" /\ client.alarm > 2 * MaxDelay - m.age
    \/ server.state = "ready" /\ client.alarm > MaxDelay

InTime ==
    InContact =>
        /\ ServerRuns /\ server.alarm # NoTimer => ServerHears
        /\ ClientRuns /\ client.alarm # NoTimer => ClientHears

\* MouseIsAcknowledged, of the sets of messages.
MouseAnswered ==
    client.ignoreMouse /\ ClientRuns /\ ServerRuns /\ gone = "nobody" =>
        \/ \E m \in Msgs(toServer) : m.type = "kMsgDInfo"
        \/ \E m \in Msgs(toClient) : m.type = "kMsgCInfoAck"

IInv == /\ TypeOK /\ Handshake /\ KeepsPace /\ OptionsArrive /\ ClientLeavesFirst
        /\ InTime /\ MouseAnswered

-----------------------------------------------------------------------------
(***************************************************************************)
(* The timers.                                                             *)
(***************************************************************************)
Pauses == UNION {NoTimer..rate : rate \in Rates}
ServerStates ==
    [state : {"handshake", "ready", "adopted", "closed", "deleted"}, rate : Rates,
     keepAlive : Pauses, alarm : Alarms, leaked : Alarms]
ClientStates ==
    [state : {"handshake", "ready", "closed"}, polite : BOOLEAN, rate : Rates,
     alarm : Alarms, ignoreMouse : BOOLEAN]

LEMMA RatesInTime ==
    ASSUME NEW rate \in Rates
    PROVE  /\ rate \in Nat /\ Full(rate) \in Nat /\ Full(rate) \in Alarms /\ rate \in Pauses
           /\ rate > 0 => rate + 2 * MaxDelay < Full(rate)
<1>1. rate \in Nat /\ KeepAlivesUntilDeath \in Nat /\ MaxDelay \in Nat
  BY KeepAliveAssumption DEF Rates
<1>2. Full(rate) \in Nat
  BY <1>1 DEF Full
<1>3. Full(rate) \in NoTimer..Full(rate) /\ rate \in NoTimer..rate
  BY <1>1, <1>2 DEF NoTimer
<1>4. Full(rate) \in Alarms /\ rate \in Pauses
  BY <1>3 DEF Alarms, Pauses, Full
<1>5. rate > 0 => rate \in {KeepAliveRate} \cup (Options \ {0})
  BY <1>1 DEF Rates
<1>6. rate > 0 => rate + 2 * MaxDelay < Full(rate)
  BY <1>5, KeepAliveAssumption DEF Full
<1> QED
  BY <1>1, <1>2, <1>4, <1>6

LEMMA DefaultRate ==
    /\ KeepAliveRate \in Rates /\ KeepAliveRate > 0 /\ 4 * MaxDelay < Full(KeepAliveRate)
    /\ MaxDelay \in Nat /\ 0 \in 0..MaxDelay
<1>1. KeepAliveRate \in Rates
  BY DEF Rates
<1>2. MaxDelay \in Nat /\ 4 * MaxDelay < Full(KeepAliveRate)
  BY KeepAliveAssumption DEF Full
<1>3. KeepAliveRate \in Nat /\ KeepAlivesUntilDeath \in Nat
  BY KeepAliveAssumption
<1>4. ASSUME KeepAliveRate = 0 PROVE FALSE
  <2>1. Full(KeepAliveRate) = 0
    BY <1>3, <1>4 DEF Full
  <2> QED
    BY <1>2, <2>1
<1> QED
  BY <1>1, <1>2, <1>3, <1>4

LEMMA AlarmsGoDown ==
    /\ NoTimer \in Alarms /\ NoTimer \in Pauses
    /\ \A a \in Alarms : a \in Int /\ a >= -1 /\ (a # 0 => CountDown(a) \in Alarms)
    /\ \A a \in Pauses : a \in Int /\ a >= -1 /\ (a # 0 => CountDown(a) \in Pauses)
<1>1. NoTimer \in NoTimer..Full(KeepAliveRate) /\ NoTimer \in NoTimer..KeepAliveRate
  BY RatesInTime, DefaultRate DEF NoTimer
<1>2. NoTimer \in Alarms /\ NoTimer \in Pauses
  BY <1>1, DefaultRate DEF Alarms, Pauses, Full
<1>3. ASSUME NEW a \in Alarms PROVE a \in Int /\ a >= -1 /\ (a # 0 => CountDown(a) \in Alarms)
  <2>1. PICK rate \in Rates : a \in NoTimer..Full(rate)
    BY DEF Alarms, Full
  <2>2. Full(rate) \in Nat /\ a \in Int /\ a >= -1
    BY <2>1, RatesInTime DEF NoTimer
  <2>3. a # 0 => CountDown(a) \in NoTimer..Full(rate)
    BY <2>1, <2>2 DEF CountDown, NoTimer
  <2> QED
    BY <2>2, <2>3 DEF Alarms, Full
<1>4. ASSUME NEW a \in Pauses PROVE a \in Int /\ a >= -1 /\ (a # 0 => CountDown(a) \in Pauses)
  <2>1. PICK rate \in Rates : a \in NoTimer..rate
    BY DEF Pauses
  <2>2. rate \in Nat /\ a \in Int /\ a >= -1
    BY <2>1, RatesInTime DEF NoTimer
  <2>3. a # 0 => CountDown(a) \in NoTimer..rate
    BY <2>1, <2>2 DEF CountDown, NoTimer
  <2> QED
    BY <2>2, <2>3 DEF Pauses
<1> QED
  BY <1>2, <1>3, <1>4

LEMMA ResetsServer ==
    ASSUME NEW s \in ServerStates
    PROVE  /\ ResetHeartbeatTimer(s) \in ServerStates
           /\ ResetHeartbeatTimer(s) =
                 [s EXCEPT !.alarm = IF s.rate = 0 THEN NoTimer ELSE Full(s.rate)]
<1>1. s.rate \in Rates /\ Full(s.rate) \in Alarms /\ NoTimer \in Alarms
  BY RatesInTime, AlarmsGoDown DEF ServerStates
<1>2. ResetHeartbeatTimer(s) =
         [s EXCEPT !.alarm = IF s.rate = 0 THEN NoTimer ELSE Full(s.rate)]
  BY DEF ResetHeartbeatTimer, AddAlarm, Full, ServerStates
<1> QED
  BY <1>1, <1>2 DEF ServerStates

LEMMA AddsTimers ==
    ASSUME NEW s \in ServerStates, s.rate # 0
    PROVE  /\ AddHeartbeatTimer(s) \in ServerStates
           /\ AddHeartbeatTimer(s) =
                 [s EXCEPT !.keepAlive = s.rate, !.alarm = Full(s.rate),
                           !.leaked = IF s.alarm = NoTimer THEN s.leaked ELSE s.alarm]
<1>1. s.rate \in Rates /\ Full(s.rate) \in Alarms /\ s.rate \in Pauses /\ s.alarm \in Alarms
  BY RatesInTime DEF ServerStates
<1>2. AddHeartbeatTimer(s) =
         [s EXCEPT !.keepAlive = s.rate, !.alarm = Full(s.rate),
                   !.leaked = IF s.alarm = NoTimer THEN s.leaked ELSE s.alarm]
  BY DEF AddHeartbeatTimer, AddAlarm, Full, ServerStates
<1> QED
  BY <1>1, <1>2 DEF ServerStates

LEMMA SetsServer ==
    ASSUME NEW s \in ServerStates, NEW option \in Options \cup {NoOption}
    PROVE  /\ SetOptions(s, option) \in ServerStates /\ RateOf(option) \in Rates
           /\ SetOptions(s, option) =
                 [s EXCEPT !.rate = RateOf(option),
                           !.keepAlive = IF RateOf(option) = 0 THEN NoTimer ELSE RateOf(option),
                           !.alarm = IF RateOf(option) = 0 THEN NoTimer ELSE Full(RateOf(option))]
<1> DEFINE rate == RateOf(option)
           bare == RemoveHeartbeatTimer([s EXCEPT !.rate = rate])
<1>1. rate \in Rates /\ NoTimer \in Alarms /\ NoTimer \in Pauses
  BY AlarmsGoDown DEF RateOf, Rates
<1>2. bare = [s EXCEPT !.rate = rate, !.keepAlive = NoTimer, !.alarm = NoTimer]
  BY DEF RemoveHeartbeatTimer, ServerStates
<1>3. /\ bare \in ServerStates /\ bare.rate = rate /\ bare.alarm = NoTimer
      /\ bare.keepAlive = NoTimer /\ bare.leaked = s.leaked /\ bare.state = s.state
  BY <1>1, <1>2 DEF ServerStates
<1>4. SetOptions(s, option) = AddHeartbeatTimer(bare)
  BY DEF SetOptions, RateOf
<1> HIDE DEF bare, rate
<1>5. CASE rate = 0
  <2>1. AddHeartbeatTimer(bare) = bare
    BY <1>3, <1>5 DEF AddHeartbeatTimer, AddAlarm
  <2> QED
    BY <1>1, <1>2, <1>3, <1>4, <1>5, <2>1 DEF rate
<1>6. CASE rate # 0
  <2>1. /\ AddHeartbeatTimer(bare) \in ServerStates
        /\ AddHeartbeatTimer(bare) = [bare EXCEPT !.keepAlive = rate, !.alarm = Full(rate),
                                                  !.leaked = s.leaked]
    BY <1>3, <1>6, AddsTimers
  <2>2. [bare EXCEPT !.keepAlive = rate, !.alarm = Full(rate), !.leaked = s.leaked]
           = [s EXCEPT !.rate = rate, !.keepAlive = rate, !.alarm = Full(rate)]
    BY <1>2 DEF ServerStates
  <2> QED
    BY <1>1, <1>4, <1>6, <2>1, <2>2 DEF rate
<1> QED
  BY <1>5, <1>6

LEMMA ResetsClient ==
    ASSUME NEW c \in ClientStates, NEW rate \in Rates
    PROVE  /\ SetKeepAliveRate(c, rate) \in ClientStates
           /\ SetKeepAliveRate(c, rate) =
                 [c EXCEPT !.rate = rate, !.alarm = IF rate = 0 THEN NoTimer ELSE Full(rate)]
           /\ ResetKeepAliveAlarm(c) = SetKeepAliveRate(c, c.rate)
<1>1. Full(rate) \in Alarms /\ NoTimer \in Alarms
  BY RatesInTime, AlarmsGoDown
<1>2. SetKeepAliveRate(c, rate) =
         [c EXCEPT !.rate = rate, !.alarm = IF rate = 0 THEN NoTimer ELSE Full(rate)]
  BY DEF SetKeepAliveRate, ResetKeepAliveAlarm, Full, ClientStates
<1>3. [c EXCEPT !.rate = c.rate] = c
  BY DEF ClientStates
<1> QED
  BY <1>1, <1>2, <1>3 DEF ClientStates, SetKeepAliveRate

-----------------------------------------------------------------------------
(***************************************************************************)
(* The messages.                                                           *)
(***************************************************************************)
LEMMA MessagesOnTheWay ==
    ASSUME NEW q \in Seq(Messages)
    PROVE  \A m \in Msgs(q) : m \in Messages /\ m.age \in Nat /\ m.age <= MaxDelay
<1>1. \A m \in Msgs(q) : m \in Messages
  BY ElementOfSeq, LenProperties DEF Msgs
<1>2. \A m \in Messages : m.age \in 0..MaxDelay
  BY DEF Messages
<1> QED
  BY <1>1, <1>2, DefaultRate

LEMMA NewMessages ==
    /\ \A type \in Types : /\ Message(type) \in Messages /\ Message(type).type = type
                           /\ Message(type).age = 0
    /\ \A option \in Options \cup {NoOption} :
          LET m == [Message("kMsgDSetOptions") EXCEPT !.option = option]
          IN  m \in Messages /\ m.type = "kMsgDSetOptions" /\ m.option = option /\ m.age = 0
BY DefaultRate DEF Message, Messages, Types

LEMMA MsgsOfConcat ==
    ASSUME NEW q \in Seq(Messages), NEW r \in Seq(Messages)
    PROVE  q \o r \in Seq(Messages) /\ Msgs(q \o r) = Msgs(q) \cup Msgs(r)
<1> DEFINE more == q \o r
<1>1. /\ more \in Seq(Messages) /\ Len(more) = Len(q) + Len(r)
      /\ \A i \in 1..Len(q) + Len(r) :
            more[i] = IF i <= Len(q) THEN q[i] ELSE r[i - Len(q)]
  BY ConcatProperties
<1> HIDE DEF more
<1>2. /\ Len(q) \in Nat /\ DOMAIN q = 1..Len(q) /\ Len(r) \in Nat /\ DOMAIN r = 1..Len(r)
      /\ DOMAIN more = 1..Len(q) + Len(r)
  BY <1>1, LenProperties
<1>3. \A i \in DOMAIN more : (i \in DOMAIN q /\ more[i] = q[i])
                             \/ (i - Len(q) \in DOMAIN r /\ more[i] = r[i - Len(q)])
  BY <1>1, <1>2
<1>4. \A i \in DOMAIN q : i \in DOMAIN more /\ more[i] = q[i]
  BY <1>1, <1>2
<1>5. ASSUME NEW i \in DOMAIN r PROVE r[i] \in Msgs(more)
  <2>1. i + Len(q) \in DOMAIN more /\ (i + Len(q)) - Len(q) = i /\ ~(i + Len(q) <= Len(q))
    BY <1>2
  <2>2. more[i + Len(q)] = r[i]
    BY <1>1, <1>2, <2>1
  <2> QED
    BY <2>1, <2>2 DEF Msgs
<1>6. Msgs(more) = Msgs(q) \cup Msgs(r)
  <2>1. Msgs(more) \subseteq Msgs(q) \cup Msgs(r)
    BY <1>3 DEF Msgs
  <2>2. Msgs(q) \subseteq Msgs(more)
    BY <1>4 DEF Msgs
  <2>3. Msgs(r) \subseteq Msgs(more)
    BY <1>5 DEF Msgs
  <2> QED
    BY <2>1, <2>2, <2>3
<1> QED
  BY <1>1, <1>6 DEF more

LEMMA MsgsOfFew ==
    /\ \A a \in Messages : <<a>> \in Seq(Messages) /\ Msgs(<<a>>) = {a}
    /\ \A a, b \in Messages : <<a, b>> \in Seq(Messages) /\ Msgs(<<a, b>>) = {a, b}
<1>1. ASSUME NEW a \in Messages PROVE <<a>> \in Seq(Messages) /\ Msgs(<<a>>) = {a}
  <2>1. <<a>> \in Seq(Messages) /\ DOMAIN <<a>> = {1} /\ <<a>>[1] = a
    OBVIOUS
  <2> QED
    BY <2>1 DEF Msgs
<1>2. ASSUME NEW a \in Messages, NEW b \in Messages
      PROVE  <<a, b>> \in Seq(Messages) /\ Msgs(<<a, b>>) = {a, b}
  <2>1. <<a, b>> \in Seq(Messages) /\ DOMAIN <<a, b>> = {1, 2}
        /\ <<a, b>>[1] = a /\ <<a, b>>[2] = b
    OBVIOUS
  <2> QED
    BY <2>1 DEF Msgs
<1> QED
  BY <1>1, <1>2

LEMMA Sends ==
    ASSUME NEW q \in Seq(Messages), NEW reachable \in BOOLEAN
    PROVE  /\ Send(q, <<>>, reachable) = q
           /\ \A r \in Seq(Messages) :
                 /\ Send(q, r, reachable) \in Seq(Messages)
                 /\ Msgs(Send(q, r, reachable)) = IF reachable THEN Msgs(q) \cup Msgs(r) ELSE Msgs(q)
<1>1. q \o <<>> = q
  BY ConcatEmptySeq
<1>2. \A r \in Seq(Messages) : q \o r \in Seq(Messages) /\ Msgs(q \o r) = Msgs(q) \cup Msgs(r)
  BY MsgsOfConcat
<1> QED
  BY <1>1, <1>2 DEF Send

LEMMA Answers ==
    ASSUME NEW c, NEW m
    PROVE  /\ Answer(c, m) \in Seq(Messages)
           /\ Msgs(Answer(c, m)) =
                 (IF m.type = "kMsgQInfo" THEN {Message("kMsgDInfo")}
                  ELSE IF m.type = "kMsgCKeepAlive" THEN {Message("kMsgCKeepAlive")} ELSE {})
                 \cup (IF c.state = "ready" THEN {Message("kMsgCNoop")} ELSE {})
<1>1. /\ Message("kMsgDInfo") \in Messages /\ Message("kMsgCKeepAlive") \in Messages
      /\ Message("kMsgCNoop") \in Messages
  BY NewMessages DEF Types
<1> DEFINE reply == IF m.type = "kMsgQInfo" THEN <<Message("kMsgDInfo")>>
                    ELSE IF m.type = "kMsgCKeepAlive" THEN <<Message("kMsgCKeepAlive")>> ELSE <<>>
           noop == IF c.state = "ready" THEN <<Message("kMsgCNoop")>> ELSE <<>>
<1>2. /\ reply \in Seq(Messages)
      /\ Msgs(reply) = IF m.type = "kMsgQInfo" THEN {Message("kMsgDInfo")}
                       ELSE IF m.type = "kMsgCKeepAlive" THEN {Message("kMsgCKeepAlive")} ELSE {}
  BY <1>1, MsgsOfFew, MsgsOfEmpty
<1>3. noop \in Seq(Messages) /\ Msgs(noop) = IF c.state = "ready" THEN {Message("kMsgCNoop")} ELSE {}
  BY <1>1, MsgsOfFew, MsgsOfEmpty
<1>4. Answer(c, m) = reply \o noop
  BY DEF Answer
<1> HIDE DEF reply, noop
<1> QED
  BY <1>2, <1>3, <1>4, MsgsOfConcat

LEMMA Typed ==
    TypeOK => /\ server \in ServerStates /\ client \in ClientStates
              /\ toClient \in Seq(Messages) /\ toServer \in Seq(Messages)
              /\ gone \in {"nobody", "client", "server", "network"}
BY DEF TypeOK, ServerStates, ClientStates, Pauses

-----------------------------------------------------------------------------
(***************************************************************************)
(* The steps of the server.                                                *)
(***************************************************************************)
LEMMA ServerHandlesDataKeeps ==
    ASSUME IInv, ServerHandlesData
    PROVE  IInv'
<1> DEFINE msg == Head(toServer)
<1>1. /\ server \in ServerStates /\ client \in ClientStates
      /\ toClient \in Seq(Messages) /\ toServer \in Seq(Messages)
  BY Typed DEF IInv
<1>2. /\ ServerRuns /\ toServer # <<>> /\ msg.type # "close"
      /\ server' = ResetHeartbeatTimer(Parsed(server, msg.type))
      /\ toClient' = ToClient(toClient, Acknowledge(msg.type)) /\ toServer' = Tail(toServer)
      /\ client' = client /\ gone' = gone /\ flatlined' = flatlined
      /\ reloads' = reloads /\ changes' = changes
  BY DEF ServerHandlesData
<1>3. /\ toServer' \in Seq(Messages) /\ msg \in Messages
      /\ Msgs(toServer) = {msg} \cup Msgs(toServer')
  BY <1>1, <1>2, MsgsOfTail
<1> DEFINE ready == server.state = "handshake" /\ msg.type = "kMsgDInfo"
           ack == Message("kMsgCInfoAck")
<1> HIDE DEF msg
<1>4. ack \in Messages /\ ack.type = "kMsgCInfoAck" /\ ack.age = 0
  BY NewMessages DEF Types
<1>5. /\ toClient' \in Seq(Messages)
      /\ Msgs(toClient') = IF msg.type = "kMsgDInfo" /\ gone = "nobody" /\ ClientRuns
                           THEN Msgs(toClient) \cup {ack} ELSE Msgs(toClient)
      /\ toClient' = toClient \/ toClient' = toClient \o <<ack>>
  <2>1. CASE msg.type = "kMsgDInfo"
    <3>1. toClient' = Send(toClient, <<ack>>, gone = "nobody" /\ ClientRuns)
      BY <1>2, <2>1 DEF ToClient, Acknowledge
    <3>2. <<ack>> \in Seq(Messages) /\ Msgs(<<ack>>) = {ack}
      BY <1>4, MsgsOfFew
    <3>3. toClient' = toClient \/ toClient' = toClient \o <<ack>>
      BY <3>1 DEF Send
    <3> QED
      BY <1>1, <2>1, <3>1, <3>2, <3>3, Sends
  <2>2. CASE msg.type # "kMsgDInfo"
    <3>1. toClient' = Send(toClient, <<>>, gone = "nobody" /\ ClientRuns)
      BY <1>2, <2>2 DEF ToClient, Acknowledge
    <3> QED
      BY <1>1, <2>2, <3>1, Sends
  <2> QED
    BY <2>1, <2>2
<1> HIDE DEF ack
<1>6. /\ KeepAliveRate \in Nat /\ KeepAliveRate > 0
      /\ server.state = "handshake" => server.rate = KeepAliveRate /\ server.rate # 0
  BY DefaultRate, RatesInTime DEF IInv, Handshake
<1>7. /\ server' \in ServerStates
      /\ server'.state = (IF ready THEN "ready" ELSE server.state)
      /\ server'.rate = server.rate
      /\ server'.keepAlive = (IF ready THEN server.rate ELSE server.keepAlive)
      /\ server'.alarm = (IF server.rate = 0 THEN NoTimer ELSE Full(server.rate))
      /\ server'.leaked = (IF ready /\ server.alarm # NoTimer THEN server.alarm ELSE server.leaked)
  <2>1. CASE ready
    <3> DEFINE s == AddHeartbeatTimer(server)
               t == [s EXCEPT !.state = "ready"]
    <3>1. /\ s \in ServerStates
          /\ s = [server EXCEPT !.keepAlive = server.rate, !.alarm = Full(server.rate),
                           !.leaked = IF server.alarm = NoTimer THEN server.leaked ELSE server.alarm]
      BY <1>1, <1>6, <2>1, AddsTimers
    <3>2. Parsed(server, msg.type) = t
      BY <2>1 DEF Parsed
    <3> HIDE DEF s
    <3>3. /\ t \in ServerStates /\ t.state = "ready" /\ t.rate = server.rate
          /\ t.keepAlive = server.rate
          /\ t.leaked = IF server.alarm = NoTimer THEN server.leaked ELSE server.alarm
      BY <1>1, <3>1 DEF ServerStates
    <3> HIDE DEF t
    <3>4. /\ server' \in ServerStates
          /\ server' = [t EXCEPT !.alarm = IF t.rate = 0 THEN NoTimer ELSE Full(t.rate)]
      BY <1>2, <3>2, <3>3, ResetsServer
    <3> QED
      BY <2>1, <3>3, <3>4 DEF ServerStates
  <2>2. CASE ~ready
    <3>1. Parsed(server, msg.type) = server
      BY <2>2 DEF Parsed
    <3>2. /\ server' \in ServerStates
          /\ server' = [server EXCEPT !.alarm = IF server.rate = 0 THEN NoTimer ELSE Full(server.rate)]
      BY <1>1, <1>2, <3>1, ResetsServer
    <3> QED
      BY <1>1, <2>2, <3>2 DEF ServerStates
  <2> QED
    BY <2>1, <2>2
<1>8. ServerRuns' /\ (ClientRuns' <=> ClientRuns) /\ (InContact' <=> InContact)
  BY <1>2, <1>7 DEF ServerRuns, ClientRuns, InContact
<1>9. TypeOK'
  BY <1>1, <1>2, <1>3, <1>5, <1>7 DEF IInv, TypeOK, ServerStates, ClientStates, Pauses
<1>10. client.polite /\ server.state = "handshake" => ready
  BY <1>2, <1>3 DEF IInv, Handshake
<1>11. Handshake'
  BY <1>2, <1>3, <1>4, <1>5, <1>7, <1>10 DEF IInv, Handshake
<1>12. server.rate \in Nat /\ NoTimer = -1 /\ Full(server.rate) \in Nat
  BY <1>1, RatesInTime DEF ServerStates, NoTimer
<1>13. KeepsPace'
  <2>1. /\ server'.keepAlive <= server'.rate
        /\ server'.state = "ready" => server'.keepAlive = server'.rate
    BY <1>7, <1>12 DEF IInv, KeepsPace
  <2>2. server'.rate > 0 <=> server'.alarm # NoTimer
    BY <1>7, <1>12
  <2>3. server'.state \in {"ready", "adopted"} => (server'.rate > 0 <=> server'.keepAlive # NoTimer)
    BY <1>6, <1>7, <1>12 DEF IInv, KeepsPace
  <2>4. client'.polite => server'.leaked = NoTimer
    BY <1>2, <1>7 DEF IInv, KeepsPace, Handshake
  <2>5. ClientRuns' => (client'.rate > 0 <=> client'.alarm # NoTimer)
    BY <1>2, <1>8 DEF IInv, KeepsPace
  <2> QED
    BY <2>1, <2>2, <2>3, <2>4, <2>5 DEF KeepsPace
<1>14. OptionsArrive'
  <2> SUFFICES ASSUME ClientRuns, gone = "nobody"
               PROVE  Brings(toClient', client'.rate, server'.rate)
    BY <1>2, <1>8 DEF OptionsArrive
  <2>1. Brings(toClient, client.rate, server.rate)
    BY <1>2 DEF IInv, OptionsArrive
  <2>2. ~Resets(ack) /\ ~Sets(ack)
    BY <1>4 DEF Resets, Sets
  <2>3. Brings(toClient \o <<ack>>, client.rate, server.rate)
    BY <1>1, <1>4, <2>1, <2>2, BringsOther
  <2> QED
    BY <1>2, <1>5, <1>7, <2>1, <2>3
<1>15. ClientLeavesFirst'
  BY <1>2, <1>3, <1>4, <1>5, <1>8 DEF IInv, ClientLeavesFirst, Closes
<1>16. InTime'
  <2> SUFFICES ASSUME InContact
               PROVE  /\ server'.alarm # NoTimer => ServerHears'
                      /\ ClientRuns /\ client'.alarm # NoTimer => ClientHears'
    BY <1>2, <1>8 DEF InTime
  <2>1. client.polite /\ gone = "nobody" /\ MaxDelay \in Nat
    BY DefaultRate DEF InContact
  <2>2. server'.alarm # NoTimer => ServerHears'
    <3> SUFFICES ASSUME server'.alarm # NoTimer PROVE ServerHears'
      OBVIOUS
    <3>1. /\ server'.rate > 0 /\ server'.rate \in Rates
          /\ server'.alarm = Full(server'.rate) /\ server'.rate \in Nat
      BY <1>7, <1>12 DEF ServerStates
    <3>2. server'.rate + 2 * MaxDelay < server'.alarm
      BY <3>1, RatesInTime
    <3>3. CASE ClientRuns
      <4>1. server'.state \in {"ready", "adopted"}
        BY <1>7, <1>8, <1>10, <2>1 DEF ServerRuns
      <4>2. server'.keepAlive # NoTimer /\ server'.keepAlive <= server'.rate
        BY <1>13, <3>1, <4>1 DEF KeepsPace
      <4>3. server'.keepAlive \in Int /\ server'.alarm \in Int
        BY <1>7, AlarmsGoDown DEF ServerStates
      <4>4. server'.alarm > server'.keepAlive + 2 * MaxDelay
        BY <2>1, <3>1, <3>2, <4>2, <4>3
      <4> QED
        BY <1>8, <3>3, <4>2, <4>4 DEF ServerHears
    <3>4. CASE ~ClientRuns
      <4>1. PICK m \in Msgs(toServer') : Closes(m)
        BY <1>8, <1>15, <3>4 DEF ClientLeavesFirst
      <4>2. m.age \in Nat
        BY <1>3, <4>1, MessagesOnTheWay
      <4>3. server'.alarm \in Int
        BY <1>7, AlarmsGoDown DEF ServerStates
      <4>4. server'.alarm > MaxDelay - m.age
        BY <2>1, <3>1, <3>2, <4>2, <4>3
      <4> QED
        BY <4>1, <4>4 DEF ServerHears
    <3> QED
      BY <3>3, <3>4
  <2>3. ClientRuns /\ client'.alarm # NoTimer => ClientHears'
    <3> SUFFICES ASSUME ClientRuns, client'.alarm # NoTimer PROVE ClientHears'
      OBVIOUS
    <3>1. ClientHears /\ client.alarm \in Int
      BY <1>1, <1>2, AlarmsGoDown DEF IInv, InTime, ClientStates
    <3>2. ASSUME NEW m \in Msgs(toClient), Rewinds(m), client.alarm > MaxDelay - m.age
          PROVE  ClientHears'
      BY <1>2, <1>5, <3>2 DEF ClientHears
    <3>3. CASE /\ server.state = "adopted" /\ server.keepAlive # NoTimer
               /\ client.alarm > server.keepAlive + MaxDelay
      BY <1>2, <1>7, <3>3 DEF ClientHears
    <3>4. CASE server.state = "handshake" /\ client.alarm > MaxDelay
      BY <1>2, <1>7, <1>10, <2>1, <3>4 DEF ClientHears
    <3>5. CASE server.state = "ready" /\ client.alarm > MaxDelay
      BY <1>2, <1>7, <3>5 DEF ClientHears
    <3>6. ASSUME NEW m \in Msgs(toClient), client.alarm > 3 * MaxDelay - m.age
          PROVE  client.alarm > MaxDelay
      <4>1. m.age \in Nat /\ m.age <= MaxDelay
        BY <1>1, <3>6, MessagesOnTheWay
      <4> QED
        BY <2>1, <3>1, <3>6, <4>1
    <3>7. ASSUME NEW m \in Msgs(toServer), client.alarm > 2 * MaxDelay - m.age
          PROVE  client.alarm > MaxDelay
      <4>1. m.age \in Nat /\ m.age <= MaxDelay
        BY <1>1, <3>7, MessagesOnTheWay
      <4> QED
        BY <2>1, <3>1, <3>7, <4>1
    <3> QED
      BY <3>1, <3>2, <3>3, <3>4, <3>5, <3>6, <3>7 DEF ClientHears
  <2> QED
    BY <2>2, <2>3
<1>17. MouseAnswered'
  <2> SUFFICES ASSUME client.ignoreMouse, ClientRuns, gone = "nobody"
               PROVE  \/ \E m \in Msgs(toServer') : m.type = "kMsgDInfo"
                      \/ \E m \in Msgs(toClient') : m.type = "kMsgCInfoAck"
    BY <1>2, <1>8 DEF MouseAnswered
  <2>1. \/ \E m \in Msgs(toServer) : m.type = "kMsgDInfo"
        \/ \E m \in Msgs(toClient) : m.type = "kMsgCInfoAck"
    BY <1>2 DEF IInv, MouseAnswered
  <2>2. CASE msg.type = "kMsgDInfo"
    BY <1>4, <1>5, <2>2
  <2>3. CASE msg.type # "kMsgDInfo"
    BY <1>3, <1>5, <2>1, <2>3
  <2> QED
    BY <2>2, <2>3
<1> QED
  BY <1>9, <1>11, <1>13, <1>14, <1>15, <1>16, <1>17 DEF IInv

\* What AdoptClient and SetConfig do.
LEMMA SendOptionsKeeps ==
    ASSUME IInv, NEW option \in Options \cup {NoOption}, SendOptions(option),
           server.state \in {"ready", "adopted", "closed"},
           UNCHANGED <<client, toServer, gone, flatlined, changes>>, reloads' \in 0..MaxReloads
    PROVE  IInv'
<1> DEFINE reset == Message("kMsgCResetOptions")
           set == [Message("kMsgDSetOptions") EXCEPT !.option = option]
           rate == RateOf(option)
<1>1. /\ server \in ServerStates /\ client \in ClientStates
      /\ toClient \in Seq(Messages) /\ toServer \in Seq(Messages)
  BY Typed DEF IInv
<1>2. /\ client' = client /\ toServer' = toServer /\ gone' = gone /\ flatlined' = flatlined
      /\ changes' = changes
  OBVIOUS
<1>3. /\ reset \in Messages /\ reset.type = "kMsgCResetOptions" /\ reset.age = 0
      /\ set \in Messages /\ set.type = "kMsgDSetOptions" /\ set.option = option /\ set.age = 0
  BY NewMessages DEF Types
<1>4. toClient' = Send(toClient, <<reset, set>>, gone = "nobody" /\ ClientRuns)
  BY DEF SendOptions, ToClient
<1> HIDE DEF reset, set
<1>5. /\ toClient' \in Seq(Messages)
      /\ Msgs(toClient') = IF gone = "nobody" /\ ClientRuns
                           THEN Msgs(toClient) \cup {reset, set} ELSE Msgs(toClient)
  <2> DEFINE options == <<reset, set>>
  <2>1. options \in Seq(Messages) /\ Msgs(options) = {reset, set}
    BY <1>3, MsgsOfFew
  <2>2. toClient' = Send(toClient, options, gone = "nobody" /\ ClientRuns)
    BY <1>4
  <2> HIDE DEF options
  <2> QED
    BY <1>1, <2>1, <2>2, Sends
<1>6. /\ server' \in ServerStates /\ rate \in Rates
      /\ server'.state = (IF server.state = "ready" THEN "adopted" ELSE server.state)
      /\ server'.rate = rate
      /\ server'.keepAlive = (IF rate = 0 THEN NoTimer ELSE rate)
      /\ server'.alarm = (IF rate = 0 THEN NoTimer ELSE Full(rate))
      /\ server'.leaked = server.leaked
  <2>1. server' = [SetOptions(server, option) EXCEPT
                      !.state = IF @ = "ready" THEN "adopted" ELSE @]
    BY DEF SendOptions
  <2> DEFINE s == SetOptions(server, option)
  <2>2. /\ s \in ServerStates /\ rate \in Rates
        /\ s = [server EXCEPT !.rate = rate,
                              !.keepAlive = IF rate = 0 THEN NoTimer ELSE rate,
                              !.alarm = IF rate = 0 THEN NoTimer ELSE Full(rate)]
    BY <1>1, SetsServer
  <2>3. server' = [s EXCEPT !.state = IF s.state = "ready" THEN "adopted" ELSE s.state]
    BY <2>1, <2>2 DEF ServerStates
  <2> HIDE DEF s, rate
  <2> QED
    BY <1>1, <2>2, <2>3 DEF ServerStates
<1>7. rate \in Nat /\ NoTimer = -1 /\ Full(rate) \in Nat /\ MaxDelay \in Nat
      /\ (rate > 0 => rate + 2 * MaxDelay < Full(rate))
  BY <1>6, RatesInTime, DefaultRate DEF NoTimer
<1>8. /\ (ServerRuns' <=> ServerRuns) /\ (ClientRuns' <=> ClientRuns)
      /\ (InContact' <=> InContact) /\ (ServerRuns' => server'.state = "adopted")
  BY <1>2, <1>6 DEF ServerRuns, ClientRuns, InContact
<1> HIDE DEF rate
<1>9. TypeOK'
  BY <1>1, <1>2, <1>5, <1>6 DEF IInv, TypeOK, ServerStates, ClientStates, Pauses
<1>10. Handshake'
  BY <1>6 DEF Handshake
<1>11. KeepsPace'
  BY <1>2, <1>6, <1>7, <1>8 DEF IInv, KeepsPace
<1>12. OptionsArrive'
  <2> SUFFICES ASSUME ServerRuns, ClientRuns, gone = "nobody"
               PROVE  Brings(toClient', client'.rate, server'.rate)
    BY <1>2, <1>8 DEF OptionsArrive
  <2>1. Brings(toClient, client.rate, server.rate)
    BY DEF IInv, OptionsArrive
  <2>2. Resets(reset) /\ Sets(set)
    BY <1>3 DEF Resets, Sets
  <2>3. Brings(toClient \o <<reset, set>>, client.rate, RateOf(set.option))
    BY <1>1, <1>3, <2>1, <2>2, BringsOptions
  <2>4. toClient' = toClient \o <<reset, set>>
    BY <1>4 DEF Send
  <2> QED
    BY <1>2, <1>3, <1>6, <2>3, <2>4 DEF rate
<1>13. ClientLeavesFirst'
  BY <1>2, <1>3, <1>5, <1>8 DEF IInv, ClientLeavesFirst, Closes
<1>14. InTime'
  <2> SUFFICES ASSUME InContact
               PROVE  /\ ServerRuns /\ server'.alarm # NoTimer => ServerHears'
                      /\ ClientRuns /\ client'.alarm # NoTimer => ClientHears'
    BY <1>8 DEF InTime
  <2>1. gone = "nobody"
    BY DEF InContact
  <2>2. ASSUME ServerRuns, server'.alarm # NoTimer PROVE ServerHears'
    <3>1. rate > 0 /\ server'.alarm = Full(rate) /\ server'.keepAlive = rate
      BY <1>6, <1>7, <2>2
    <3>2. CASE ClientRuns
      BY <1>7, <1>8, <3>1, <3>2 DEF ServerHears
    <3>3. CASE ~ClientRuns
      <4>1. PICK m \in Msgs(toServer') : Closes(m)
        BY <1>8, <1>13, <2>2, <3>3 DEF ClientLeavesFirst
      <4>2. m.age \in Nat
        BY <1>1, <1>2, <4>1, MessagesOnTheWay
      <4>3. server'.alarm > MaxDelay - m.age
        BY <1>7, <3>1, <4>2
      <4> QED
        BY <4>1, <4>3 DEF ServerHears
    <3> QED
      BY <3>2, <3>3
  <2>3. ASSUME ClientRuns, client'.alarm # NoTimer PROVE ClientHears'
    <3>1. ClientHears /\ ServerRuns
      BY <1>2, <2>3 DEF IInv, InTime, ClientLeavesFirst
    <3>2. server.state \in {"ready", "adopted"}
      BY <3>1 DEF ServerRuns
    <3>3. client.alarm \in Int /\ server.keepAlive \in Int /\ server.keepAlive >= -1
      BY <1>1, AlarmsGoDown DEF ClientStates, ServerStates
    <3>4. reset \in Msgs(toClient') /\ Rewinds(reset)
      BY <1>3, <1>5, <2>1, <2>3 DEF Rewinds, Resets
    <3>5. ASSUME NEW m \in Msgs(toClient), Rewinds(m), client.alarm > MaxDelay - m.age
          PROVE  ClientHears'
      BY <1>2, <1>5, <3>5 DEF ClientHears
    <3>6. CASE server.keepAlive # NoTimer /\ client.alarm > server.keepAlive + MaxDelay
      <4>1. client.alarm > MaxDelay - reset.age
        BY <1>3, <1>7, <3>3, <3>6
      <4> QED
        BY <1>2, <3>4, <4>1 DEF ClientHears
    <3>7. CASE client.alarm > MaxDelay
      <4>1. client.alarm > MaxDelay - reset.age
        BY <1>3, <1>7, <3>3, <3>7
      <4> QED
        BY <1>2, <3>4, <4>1 DEF ClientHears
    <3> QED
      BY <3>1, <3>2, <3>5, <3>6, <3>7 DEF ClientHears
  <2> QED
    BY <2>2, <2>3
<1>15. MouseAnswered'
  BY <1>2, <1>5, <1>8 DEF IInv, MouseAnswered
<1> QED
  BY <1>9, <1>10, <1>11, <1>12, <1>13, <1>14, <1>15 DEF IInv

LEMMA AdoptClientKeeps ==
    ASSUME IInv, AdoptClient
    PROVE  IInv'
<1>1. reloads' \in 0..MaxReloads /\ server.state = "ready"
  BY DEF AdoptClient, IInv, TypeOK
<1>2. PICK option \in Options \cup {NoOption} : SendOptions(option)
  BY DEF AdoptClient
<1>3. UNCHANGED <<client, toServer, gone, flatlined, changes>>
  BY DEF AdoptClient
<1> QED
  BY <1>1, <1>2, <1>3, SendOptionsKeeps

LEMMA SetConfigKeeps ==
    ASSUME IInv, SetConfig
    PROVE  IInv'
<1>1. reloads' \in 0..MaxReloads /\ server.state \in {"adopted", "closed"}
  BY KeepAliveAssumption DEF SetConfig, IInv, TypeOK
<1>2. PICK option \in Options \cup {NoOption} : SendOptions(option)
  BY DEF SetConfig
<1>3. UNCHANGED <<client, toServer, gone, flatlined, changes>>
  BY DEF SetConfig
<1> QED
  BY <1>1, <1>2, <1>3, SendOptionsKeeps

LEMMA HandleKeepAliveKeeps ==
    ASSUME IInv, HandleKeepAlive
    PROVE  IInv'
<1> DEFINE alive == Message("kMsgCKeepAlive")
<1>1. /\ server \in ServerStates /\ client \in ClientStates
      /\ toClient \in Seq(Messages) /\ toServer \in Seq(Messages)
  BY Typed DEF IInv
<1>2. /\ server.keepAlive = 0 /\ server' = [server EXCEPT !.keepAlive = server.rate]
      /\ client' = client /\ toServer' = toServer /\ gone' = gone /\ flatlined' = flatlined
      /\ reloads' = reloads /\ changes' = changes
      /\ toClient' = Send(toClient, <<alive>>, gone = "nobody" /\ ClientRuns)
  BY DEF HandleKeepAlive, ToClient
<1>3. alive \in Messages /\ alive.type = "kMsgCKeepAlive" /\ alive.age = 0
  BY NewMessages DEF Types
<1> HIDE DEF alive
<1>4. /\ toClient' \in Seq(Messages)
      /\ Msgs(toClient') = IF gone = "nobody" /\ ClientRuns
                           THEN Msgs(toClient) \cup {alive} ELSE Msgs(toClient)
      /\ toClient' = toClient \/ toClient' = toClient \o <<alive>>
  <2>1. toClient' = toClient \/ toClient' = toClient \o <<alive>>
    BY <1>2 DEF Send
  <2> QED
    BY <1>1, <1>2, <1>3, <2>1, MsgsOfFew, Sends
<1>5. /\ server.rate \in Rates /\ server.rate \in Nat /\ server.rate \in Pauses
      /\ NoTimer = -1 /\ MaxDelay \in Nat
  BY <1>1, RatesInTime, DefaultRate DEF ServerStates, NoTimer
<1>6. /\ server' \in ServerStates
      /\ server'.state = server.state /\ server'.rate = server.rate
      /\ server'.keepAlive = server.rate
      /\ server'.alarm = server.alarm /\ server'.leaked = server.leaked
  BY <1>1, <1>2, <1>5 DEF ServerStates
<1>7. /\ (ServerRuns' <=> ServerRuns) /\ (ClientRuns' <=> ClientRuns)
      /\ (InContact' <=> InContact)
  BY <1>2, <1>6 DEF ServerRuns, ClientRuns, InContact
<1>8. server.state # "handshake" /\ server.state # "ready"
  BY <1>2, <1>5, DefaultRate DEF IInv, Handshake, KeepsPace
<1>9. TypeOK'
  BY <1>1, <1>2, <1>4, <1>6 DEF IInv, TypeOK, ServerStates, ClientStates, Pauses
<1>10. Handshake'
  BY <1>6, <1>8 DEF Handshake
<1>11. KeepsPace'
  BY <1>2, <1>5, <1>6, <1>7 DEF IInv, KeepsPace
<1>12. OptionsArrive'
  <2> SUFFICES ASSUME ServerRuns, ClientRuns, gone = "nobody"
               PROVE  Brings(toClient', client'.rate, server'.rate)
    BY <1>2, <1>7 DEF OptionsArrive
  <2>1. Brings(toClient, client.rate, server.rate)
    BY DEF IInv, OptionsArrive
  <2>2. ~Resets(alive) /\ ~Sets(alive)
    BY <1>3 DEF Resets, Sets
  <2>3. Brings(toClient \o <<alive>>, client.rate, server.rate)
    BY <1>1, <1>3, <2>1, <2>2, BringsOther
  <2> QED
    BY <1>2, <1>4, <1>6, <2>1, <2>3
<1>13. ClientLeavesFirst'
  BY <1>2, <1>3, <1>4, <1>7 DEF IInv, ClientLeavesFirst, Closes
<1>14. InTime'
  <2> SUFFICES ASSUME InContact
               PROVE  /\ ServerRuns /\ server'.alarm # NoTimer => ServerHears'
                      /\ ClientRuns /\ client'.alarm # NoTimer => ClientHears'
    BY <1>7 DEF InTime
  <2>1. gone = "nobody" /\ server.alarm \in Int /\ client.alarm \in Int
    BY <1>1, AlarmsGoDown DEF InContact, ServerStates, ClientStates
  <2>2. ASSUME ClientRuns PROVE alive \in Msgs(toClient') /\ KeepsAlive(alive) /\ Rewinds(alive)
    BY <1>3, <1>4, <2>1, <2>2 DEF Rewinds, KeepsAlive
  <2>3. ASSUME ServerRuns, server'.alarm # NoTimer PROVE ServerHears'
    <3>1. ServerHears
      BY <1>6, <2>3 DEF IInv, InTime
    <3>2. ASSUME NEW m \in Msgs(toServer), server.alarm > MaxDelay - m.age PROVE ServerHears'
      BY <1>2, <1>6, <3>2 DEF ServerHears
    <3>3. ASSUME ClientRuns, NEW m \in Msgs(toClient), KeepsAlive(m),
                 server.alarm > 2 * MaxDelay - m.age
          PROVE  ServerHears'
      BY <1>4, <1>6, <1>7, <3>3 DEF ServerHears
    <3>4. CASE ClientRuns /\ server.alarm > server.keepAlive + 2 * MaxDelay
      <4>1. server.alarm > 2 * MaxDelay - alive.age
        BY <1>2, <1>3, <1>5, <2>1, <3>4
      <4> QED
        BY <1>6, <1>7, <2>2, <3>4, <4>1 DEF ServerHears
    <3> QED
      BY <3>1, <3>2, <3>3, <3>4 DEF ServerHears
  <2>4. ASSUME ClientRuns, client'.alarm # NoTimer PROVE ClientHears'
    <3>1. ClientHears
      BY <1>2, <2>4 DEF IInv, InTime
    <3>2. ASSUME NEW m \in Msgs(toClient), Rewinds(m), client.alarm > MaxDelay - m.age
          PROVE  ClientHears'
      BY <1>2, <1>4, <3>2 DEF ClientHears
    <3>3. CASE client.alarm > server.keepAlive + MaxDelay
      <4>1. client.alarm > MaxDelay - alive.age
        BY <1>2, <1>3, <1>5, <2>1, <3>3
      <4> QED
        BY <1>2, <2>2, <2>4, <4>1 DEF ClientHears
    <3> QED
      BY <1>8, <3>1, <3>2, <3>3 DEF ClientHears
  <2> QED
    BY <2>3, <2>4
<1>15. MouseAnswered'
  BY <1>2, <1>4, <1>7 DEF IInv, MouseAnswered
<1> QED
  BY <1>9, <1>10, <1>11, <1>12, <1>13, <1>14, <1>15 DEF IInv

\* What HandleFlatline and ServerHandlesDisconnect do.
LEMMA ServerDisconnectsKeeps ==
    ASSUME IInv, ServerRuns, ServerDisconnects,
           UNCHANGED <<client, gone, reloads, changes>>,
           toServer' \in Seq(Messages), flatlined' \subseteq {"server", "client"},
           InContact => ~ClientRuns /\ flatlined' = {}
    PROVE  IInv'
<1> DEFINE closing == Message("close")
<1>1. /\ server \in ServerStates /\ client \in ClientStates /\ toClient \in Seq(Messages)
  BY Typed DEF IInv
<1>2. client' = client /\ gone' = gone /\ reloads' = reloads /\ changes' = changes
  OBVIOUS
<1>3. closing \in Messages
  BY NewMessages DEF Types
<1>4. toClient' = Send(toClient, <<closing>>, gone = "nobody" /\ ClientRuns)
  BY DEF ServerDisconnects, ToClient
<1> HIDE DEF closing
<1>5. toClient' \in Seq(Messages)
  BY <1>1, <1>3, <1>4, MsgsOfFew, Sends
<1>6. /\ server' \in ServerStates
      /\ server'.state \in {"closed", "deleted"} /\ server'.rate = server.rate
      /\ server'.keepAlive = NoTimer /\ server'.leaked = NoTimer
  <2>1. server' = [RemoveHeartbeatTimer(server) EXCEPT
                     !.state = IF @ = "adopted" THEN "closed" ELSE "deleted", !.leaked = NoTimer]
    BY DEF ServerDisconnects
  <2>2. server' = [server EXCEPT !.state = IF server.state = "adopted" THEN "closed" ELSE "deleted",
                                 !.keepAlive = NoTimer, !.alarm = NoTimer, !.leaked = NoTimer]
    BY <1>1, <2>1 DEF RemoveHeartbeatTimer, ServerStates
  <2> QED
    BY <1>1, <2>2, AlarmsGoDown DEF ServerStates
<1>7. ~ServerRuns' /\ (ClientRuns' <=> ClientRuns) /\ (InContact' <=> InContact)
  BY <1>2, <1>6 DEF ServerRuns, ClientRuns, InContact
<1>8. TypeOK'
  BY <1>1, <1>2, <1>5, <1>6 DEF IInv, TypeOK, ServerStates, ClientStates, Pauses
<1>9. server.rate \in Nat /\ NoTimer = -1
  BY <1>1, RatesInTime DEF ServerStates, NoTimer
<1>10. KeepsPace'
  BY <1>2, <1>6, <1>7, <1>9 DEF IInv, KeepsPace
<1>11. Handshake' /\ OptionsArrive' /\ MouseAnswered'
  BY <1>6, <1>7 DEF Handshake, OptionsArrive, MouseAnswered
<1>12. ClientLeavesFirst' /\ InTime'
  BY <1>7 DEF ClientLeavesFirst, InTime
<1> QED
  BY <1>8, <1>10, <1>11, <1>12 DEF IInv

\* While the two are in contact an alarm that has gone off contradicts ServerHears.
LEMMA HandleFlatlineKeeps ==
    ASSUME IInv, HandleFlatline
    PROVE  IInv'
<1>1. /\ ServerRuns /\ (server.alarm = 0 \/ server.leaked = 0)
      /\ ServerDisconnects /\ flatlined' = flatlined \cup {"server"}
      /\ toServer' = toServer
      /\ UNCHANGED <<client, gone, reloads, changes>>
  BY DEF HandleFlatline
<1>2. /\ server \in ServerStates /\ toClient \in Seq(Messages) /\ toServer \in Seq(Messages)
      /\ flatlined \subseteq {"server", "client"}
  BY Typed DEF IInv, TypeOK
<1>3. ASSUME InContact PROVE FALSE
  <2>1. server.leaked = NoTimer /\ server.alarm = 0 /\ NoTimer = -1
    BY <1>1, <1>3 DEF IInv, KeepsPace, InContact, NoTimer
  <2>2. ServerHears
    BY <1>1, <1>3, <2>1 DEF IInv, InTime
  <2>3. \A m \in Msgs(toServer) \cup Msgs(toClient) : m.age \in Nat /\ m.age <= MaxDelay
    BY <1>2, MessagesOnTheWay
  <2>4. MaxDelay \in Nat /\ server.keepAlive \in Int /\ server.keepAlive >= -1
    BY <1>2, DefaultRate, AlarmsGoDown DEF ServerStates
  <2>5. \A m \in Msgs(toServer) \cup Msgs(toClient) :
           ~(0 > MaxDelay - m.age) /\ ~(0 > 2 * MaxDelay - m.age)
    BY <2>3, <2>4
  <2>6. server.keepAlive # NoTimer => ~(0 > server.keepAlive + 2 * MaxDelay)
    BY <2>1, <2>4
  <2> QED
    BY <2>1, <2>2, <2>5, <2>6 DEF ServerHears
<1> QED
  BY <1>1, <1>2, <1>3, ServerDisconnectsKeeps

LEMMA ServerHandlesDisconnectKeeps ==
    ASSUME IInv, ServerHandlesDisconnect
    PROVE  IInv'
<1>1. /\ ServerRuns /\ toServer # <<>> /\ Head(toServer).type = "close"
      /\ ServerDisconnects /\ flatlined' = flatlined /\ toServer' = Tail(toServer)
      /\ UNCHANGED <<client, gone, reloads, changes>>
  BY DEF ServerHandlesDisconnect
<1>2. toServer \in Seq(Messages) /\ flatlined \subseteq {"server", "client"}
  BY Typed DEF IInv, TypeOK
<1>3. toServer' \in Seq(Messages) /\ Head(toServer) \in Msgs(toServer)
  BY <1>1, <1>2, MsgsOfTail
<1>4. InContact => ~ClientRuns /\ flatlined' = {}
  BY <1>1, <1>3 DEF IInv, ClientLeavesFirst, Closes
<1> QED
  BY <1>1, <1>2, <1>3, <1>4, ServerDisconnectsKeeps

LEMMA DeleteProxyKeeps ==
    ASSUME IInv, DeleteProxy
    PROVE  IInv'
<1>1. server \in ServerStates /\ client \in ClientStates
  BY Typed DEF IInv
<1>2. /\ server.state = "closed"
      /\ server' = [RemoveHeartbeatTimer(server) EXCEPT !.state = "deleted"]
      /\ client' = client /\ toClient' = toClient /\ toServer' = toServer
      /\ gone' = gone /\ flatlined' = flatlined /\ reloads' = reloads /\ changes' = changes
  BY DEF DeleteProxy
<1>3. /\ server' \in ServerStates
      /\ server'.state = "deleted" /\ server'.rate = server.rate
      /\ server'.keepAlive = NoTimer /\ server'.leaked = server.leaked
  <2>1. server' = [server EXCEPT !.state = "deleted", !.keepAlive = NoTimer, !.alarm = NoTimer]
    BY <1>1, <1>2 DEF RemoveHeartbeatTimer, ServerStates
  <2> QED
    BY <1>1, <2>1, AlarmsGoDown DEF ServerStates
<1>4. /\ ~ServerRuns /\ ~ServerRuns' /\ (ClientRuns' <=> ClientRuns) /\ (InContact' <=> InContact)
  BY <1>2, <1>3 DEF ServerRuns, ClientRuns, InContact
<1>5. TypeOK'
  BY <1>1, <1>2, <1>3 DEF IInv, TypeOK, ServerStates, ClientStates, Pauses
<1>6. server.rate \in Nat /\ NoTimer = -1
  BY <1>1, RatesInTime DEF ServerStates, NoTimer
<1>7. KeepsPace'
  BY <1>2, <1>3, <1>4, <1>6 DEF IInv, KeepsPace
<1>8. Handshake' /\ OptionsArrive' /\ MouseAnswered'
  BY <1>3, <1>4 DEF Handshake, OptionsArrive, MouseAnswered
<1>9. ClientLeavesFirst' /\ InTime'
  BY <1>2, <1>4 DEF IInv, ClientLeavesFirst, InTime
<1> QED
  BY <1>5, <1>7, <1>8, <1>9 DEF IInv

-----------------------------------------------------------------------------
(***************************************************************************)
(* The steps of the client.                                                *)
(***************************************************************************)
\* What a client that leaves does, of itself or because it was told to.
LEMMA ClientDisconnectsKeeps ==
    ASSUME IInv, ClientRuns, ClientDisconnects,
           UNCHANGED <<server, gone, reloads, changes>>,
           toClient' \in Seq(Messages), Msgs(toClient') \subseteq Msgs(toClient),
           toServer' \in Seq(Messages), Msgs(toServer) \subseteq Msgs(toServer'),
           Msgs(toServer') \subseteq Msgs(toServer) \cup {Message("close")},
           flatlined' \subseteq {"server", "client"},
           InContact => flatlined' = {} /\ Message("close") \in Msgs(toServer')
    PROVE  IInv'
<1>1. /\ server \in ServerStates /\ client \in ClientStates
      /\ toClient \in Seq(Messages) /\ toServer \in Seq(Messages)
  BY Typed DEF IInv
<1>2. /\ server' = server /\ gone' = gone /\ reloads' = reloads /\ changes' = changes
      /\ client' = [client EXCEPT !.state = "closed", !.alarm = NoTimer]
  BY DEF ClientDisconnects
<1>3. client' \in ClientStates /\ client'.state = "closed" /\ client'.polite = client.polite
  BY <1>1, <1>2, AlarmsGoDown DEF ClientStates
<1>4. Message("close").type = "close" /\ Message("close").age = 0
  BY NewMessages DEF Types
<1>5. /\ (ServerRuns' <=> ServerRuns) /\ ~ClientRuns' /\ (InContact' <=> InContact)
  BY <1>2, <1>3 DEF ServerRuns, ClientRuns, InContact
<1>6. TypeOK'
  BY <1>1, <1>2, <1>3 DEF IInv, TypeOK, ServerStates, ClientStates, Pauses
<1>7. Handshake'
  BY <1>2, <1>3, <1>4 DEF IInv, Handshake
<1>8. KeepsPace'
  BY <1>2, <1>3, <1>5 DEF IInv, KeepsPace
<1>9. OptionsArrive' /\ MouseAnswered'
  BY <1>5 DEF OptionsArrive, MouseAnswered
<1>10. ClientLeavesFirst'
  BY <1>4, <1>5 DEF IInv, ClientLeavesFirst, Closes
<1>11. InTime'
  <2> SUFFICES ASSUME InContact, ServerRuns, server.alarm # NoTimer PROVE ServerHears'
    BY <1>2, <1>5 DEF InTime
  <2>1. ServerHears
    BY DEF IInv, InTime
  <2>2. MaxDelay \in Nat /\ server.alarm \in Int /\ server.keepAlive \in Int /\ server.keepAlive >= -1
    BY <1>1, DefaultRate, AlarmsGoDown DEF ServerStates
  <2>3. CASE server.alarm > MaxDelay
    <3>1. server.alarm > MaxDelay - Message("close").age
      BY <1>4, <2>2, <2>3
    <3> QED
      BY <1>2, <3>1 DEF ServerHears
  <2>4. ASSUME NEW m \in Msgs(toServer), server.alarm > MaxDelay - m.age PROVE ServerHears'
    BY <1>2, <2>4 DEF ServerHears
  <2>5. ASSUME NEW m \in Msgs(toClient), server.alarm > 2 * MaxDelay - m.age
        PROVE  server.alarm > MaxDelay
    <3>1. m.age \in Nat /\ m.age <= MaxDelay
      BY <1>1, <2>5, MessagesOnTheWay
    <3> QED
      BY <2>2, <2>5, <3>1
  <2>6. server.keepAlive # NoTimer /\ server.alarm > server.keepAlive + 2 * MaxDelay
           => server.alarm > MaxDelay
    BY <2>2 DEF NoTimer
  <2> QED
    BY <2>1, <2>3, <2>4, <2>5, <2>6 DEF ServerHears
<1> QED
  BY <1>6, <1>7, <1>8, <1>9, <1>10, <1>11 DEF IInv

\* The queue to the server when the client says that it leaves.
LEMMA ClosingIsSent ==
    ASSUME IInv, ClientRuns, toServer' = ToServer(toServer, <<Message("close")>>)
    PROVE  /\ toServer' \in Seq(Messages) /\ Msgs(toServer) \subseteq Msgs(toServer')
           /\ Msgs(toServer') \subseteq Msgs(toServer) \cup {Message("close")}
           /\ InContact => Message("close") \in Msgs(toServer')
<1> DEFINE closing == Message("close")
<1>1. closing \in Messages
  BY NewMessages DEF Types
<1>2. toServer' = Send(toServer, <<closing>>, gone = "nobody" /\ ServerRuns)
  BY DEF ToServer
<1>3. toServer \in Seq(Messages) /\ (InContact => gone = "nobody" /\ ServerRuns)
  BY Typed DEF IInv, InContact, ClientLeavesFirst
<1> HIDE DEF closing
<1>4. /\ toServer' \in Seq(Messages)
      /\ Msgs(toServer') = IF gone = "nobody" /\ ServerRuns
                           THEN Msgs(toServer) \cup {closing} ELSE Msgs(toServer)
  <2>1. <<closing>> \in Seq(Messages) /\ Msgs(<<closing>>) = {closing}
    BY <1>1, MsgsOfFew
  <2> DEFINE queue == Send(toServer, <<closing>>, gone = "nobody" /\ ServerRuns)
  <2>2. Msgs(queue) = IF gone = "nobody" /\ ServerRuns
                     THEN Msgs(toServer) \cup Msgs(<<closing>>) ELSE Msgs(toServer)
    BY <1>3, <2>1, Sends
  <2>3. queue \in Seq(Messages)
    BY <1>3, <2>1, Sends
  <2> QED
    BY <1>2, <2>1, <2>2, <2>3
<1> QED
  BY <1>3, <1>4 DEF closing

LEMMA HandleKeepAliveAlarmKeeps ==
    ASSUME IInv, HandleKeepAliveAlarm
    PROVE  IInv'
<1>1. /\ ClientRuns /\ client.alarm = 0 /\ ClientDisconnects
      /\ flatlined' = flatlined \cup {"client"}
      /\ toServer' = ToServer(toServer, <<Message("close")>>)
      /\ toClient' = toClient /\ UNCHANGED <<server, gone, reloads, changes>>
  BY DEF HandleKeepAliveAlarm
<1>2. /\ server \in ServerStates /\ client \in ClientStates
      /\ toClient \in Seq(Messages) /\ toServer \in Seq(Messages)
      /\ flatlined \subseteq {"server", "client"}
  BY Typed DEF IInv, TypeOK
<1>3. ASSUME InContact PROVE FALSE
  <2>1. ClientHears /\ NoTimer = -1
    BY <1>1, <1>3 DEF IInv, InTime, NoTimer
  <2>2. \A m \in Msgs(toServer) \cup Msgs(toClient) : m.age \in Nat /\ m.age <= MaxDelay
    BY <1>2, MessagesOnTheWay
  <2>3. MaxDelay \in Nat /\ server.keepAlive \in Int /\ server.keepAlive >= -1
    BY <1>2, DefaultRate, AlarmsGoDown DEF ServerStates
  <2>4. \A m \in Msgs(toServer) \cup Msgs(toClient) :
           ~(0 > MaxDelay - m.age) /\ ~(0 > 2 * MaxDelay - m.age) /\ ~(0 > 3 * MaxDelay - m.age)
    BY <2>2, <2>3
  <2>5. server.keepAlive # NoTimer => ~(0 > server.keepAlive + MaxDelay)
    BY <2>1, <2>3
  <2>6. ~(0 > MaxDelay)
    BY <2>3
  <2> QED
    BY <1>1, <2>1, <2>4, <2>5, <2>6 DEF ClientHears
<1>4. flatlined' \subseteq {"server", "client"}
  BY <1>1, <1>2
<1>5. /\ toServer' \in Seq(Messages) /\ Msgs(toServer) \subseteq Msgs(toServer')
      /\ Msgs(toServer') \subseteq Msgs(toServer) \cup {Message("close")}
  BY <1>1, ClosingIsSent
<1> QED
  BY <1>1, <1>2, <1>3, <1>4, <1>5, ClientDisconnectsKeeps

LEMMA DisconnectKeeps ==
    ASSUME IInv, Disconnect
    PROVE  IInv'
<1>1. /\ ClientRuns /\ ClientDisconnects /\ flatlined' = flatlined
      /\ toServer' = ToServer(toServer, <<Message("close")>>)
      /\ toClient' = toClient /\ UNCHANGED <<server, gone, reloads, changes>>
  BY DEF Disconnect
<1>2. /\ toClient \in Seq(Messages) /\ flatlined \subseteq {"server", "client"}
      /\ InContact => flatlined = {}
  BY Typed DEF IInv, TypeOK, ClientLeavesFirst
<1>3. /\ toServer' \in Seq(Messages) /\ Msgs(toServer) \subseteq Msgs(toServer')
      /\ Msgs(toServer') \subseteq Msgs(toServer) \cup {Message("close")}
      /\ InContact => Message("close") \in Msgs(toServer')
  BY <1>1, ClosingIsSent
<1> QED
  BY <1>1, <1>2, <1>3, ClientDisconnectsKeeps

LEMMA ClientHandlesDisconnectKeeps ==
    ASSUME IInv, ClientHandlesDisconnect
    PROVE  IInv'
<1>1. /\ ClientRuns /\ toClient # <<>> /\ Head(toClient).type = "close"
      /\ ClientDisconnects /\ flatlined' = flatlined /\ toClient' = Tail(toClient)
      /\ toServer' = toServer /\ UNCHANGED <<server, gone, reloads, changes>>
  BY DEF ClientHandlesDisconnect
<1>2. /\ toClient \in Seq(Messages) /\ toServer \in Seq(Messages)
      /\ flatlined \subseteq {"server", "client"}
  BY Typed DEF IInv, TypeOK
<1>3. /\ toClient' \in Seq(Messages) /\ Msgs(toClient') \subseteq Msgs(toClient)
      /\ Head(toClient) \in Msgs(toClient)
  BY <1>1, <1>2, MsgsOfTail
<1>4. ~InContact
  BY <1>1, <1>3 DEF IInv, ClientLeavesFirst, Closes
<1> QED
  BY <1>1, <1>2, <1>3, <1>4, ClientDisconnectsKeeps

LEMMA EarlyNoopKeeps ==
    ASSUME IInv, EarlyNoop
    PROVE  IInv'
<1> DEFINE noop == Message("kMsgCNoop")
<1>1. /\ ~client.polite /\ toServer' = ToServer(toServer, <<noop>>)
      /\ server' = server /\ client' = client /\ toClient' = toClient /\ gone' = gone
      /\ flatlined' = flatlined /\ reloads' = reloads /\ changes' = changes
  BY DEF EarlyNoop
<1>2. toServer \in Seq(Messages)
  BY Typed DEF IInv
<1>3. noop \in Messages
  BY NewMessages DEF Types
<1> HIDE DEF noop
<1>4. toServer' \in Seq(Messages) /\ Msgs(toServer) \subseteq Msgs(toServer')
  <2>1. <<noop>> \in Seq(Messages)
    BY <1>3, MsgsOfFew
  <2>2. toServer' = Send(toServer, <<noop>>, gone = "nobody" /\ ServerRuns)
    BY <1>1 DEF ToServer
  <2>3. Msgs(Send(toServer, <<noop>>, gone = "nobody" /\ ServerRuns))
           = IF gone = "nobody" /\ ServerRuns THEN Msgs(toServer) \cup Msgs(<<noop>>)
             ELSE Msgs(toServer)
    BY <1>2, <2>1, Sends
  <2>4. Send(toServer, <<noop>>, gone = "nobody" /\ ServerRuns) \in Seq(Messages)
    BY <1>2, <2>1, Sends
  <2> QED
    BY <2>2, <2>3, <2>4
<1>5. TypeOK'
  BY <1>1, <1>4 DEF IInv, TypeOK
<1>6. /\ (ServerRuns' <=> ServerRuns) /\ (ClientRuns' <=> ClientRuns) /\ ~InContact'
  BY <1>1 DEF ServerRuns, ClientRuns, InContact
<1>7. Handshake' /\ KeepsPace' /\ OptionsArrive'
  BY <1>1, <1>6 DEF IInv, Handshake, KeepsPace, OptionsArrive
<1>8. ClientLeavesFirst' /\ InTime'
  BY <1>6 DEF ClientLeavesFirst, InTime
<1>9. MouseAnswered'
  BY <1>1, <1>4, <1>6 DEF IInv, MouseAnswered
<1> QED
  BY <1>5, <1>7, <1>8, <1>9 DEF IInv

LEMMA OnInfoChangedKeeps ==
    ASSUME IInv, OnInfoChanged
    PROVE  IInv'
<1> DEFINE info == Message("kMsgDInfo")
<1>1. /\ client.state = "ready" /\ changes < MaxChanges /\ changes' = changes + 1
      /\ client' = [client EXCEPT !.ignoreMouse = TRUE]
      /\ toServer' = Send(toServer, <<info>>, gone = "nobody" /\ ServerRuns)
      /\ server' = server /\ toClient' = toClient /\ gone' = gone
      /\ flatlined' = flatlined /\ reloads' = reloads
  BY DEF OnInfoChanged, ToServer
<1>2. /\ server \in ServerStates /\ client \in ClientStates
      /\ toClient \in Seq(Messages) /\ toServer \in Seq(Messages)
  BY Typed DEF IInv
<1>3. info \in Messages /\ info.type = "kMsgDInfo"
  BY NewMessages DEF Types
<1> HIDE DEF info
<1>4. /\ toServer' \in Seq(Messages)
      /\ Msgs(toServer') = IF gone = "nobody" /\ ServerRuns
                           THEN Msgs(toServer) \cup {info} ELSE Msgs(toServer)
  <2>1. <<info>> \in Seq(Messages) /\ Msgs(<<info>>) = {info}
    BY <1>3, MsgsOfFew
  <2> QED
    BY <1>1, <1>2, <2>1, Sends
<1>5. /\ client' \in ClientStates /\ client'.state = client.state /\ client'.rate = client.rate
      /\ client'.polite = client.polite /\ client'.alarm = client.alarm
  BY <1>1, <1>2 DEF ClientStates
<1>6. /\ (ServerRuns' <=> ServerRuns) /\ (ClientRuns' <=> ClientRuns)
      /\ (InContact' <=> InContact) /\ ClientRuns
  BY <1>1, <1>5 DEF ServerRuns, ClientRuns, InContact
<1>7. TypeOK'
  <2>1. changes' \in 0..MaxChanges
    BY <1>1, KeepAliveAssumption DEF IInv, TypeOK
  <2> QED
    BY <1>1, <1>4, <1>5, <2>1 DEF IInv, TypeOK, ClientStates
<1>8. server.state \notin {"handshake", "ready"}
  BY <1>1 DEF IInv, Handshake
<1>9. Handshake'
  BY <1>1, <1>8 DEF Handshake
<1>10. KeepsPace' /\ OptionsArrive'
  BY <1>1, <1>5, <1>6 DEF IInv, KeepsPace, OptionsArrive
<1>11. ClientLeavesFirst'
  BY <1>1, <1>3, <1>4, <1>6 DEF IInv, ClientLeavesFirst, Closes
<1>12. InTime'
  <2>1. ServerHears => ServerHears'
    BY <1>1, <1>4, <1>6 DEF ServerHears
  <2>2. ClientHears => ClientHears'
    BY <1>1, <1>4, <1>5, <1>8 DEF ClientHears
  <2> QED
    BY <1>1, <1>5, <1>6, <2>1, <2>2 DEF IInv, InTime
<1>13. MouseAnswered'
  BY <1>1, <1>3, <1>4, <1>6 DEF MouseAnswered
<1> QED
  BY <1>7, <1>9, <1>10, <1>11, <1>12, <1>13 DEF IInv

LEMMA ClientHandlesDataKeeps ==
    ASSUME IInv, ClientHandlesData
    PROVE  IInv'
<1> DEFINE msg == Head(toClient)
<1>1. /\ server \in ServerStates /\ client \in ClientStates
      /\ toClient \in Seq(Messages) /\ toServer \in Seq(Messages)
  BY Typed DEF IInv
<1>2. /\ ClientRuns /\ toClient # <<>> /\ msg.type # "close"
      /\ client' = Received(client, msg)
      /\ toServer' = Send(toServer, Answer(client, msg), gone = "nobody" /\ ServerRuns)
      /\ toClient' = Tail(toClient)
      /\ server' = server /\ gone' = gone /\ flatlined' = flatlined
      /\ reloads' = reloads /\ changes' = changes
  BY DEF ClientHandlesData, ToServer
<1>3. /\ toClient' \in Seq(Messages) /\ msg \in Messages
      /\ Msgs(toClient) = {msg} \cup Msgs(toClient')
  BY <1>1, <1>2, MsgsOfTail
<1>4. ServerRuns /\ ClientRuns /\ gone = "nobody" =>
         Brings(toClient', RateAfter(client.rate, msg), server.rate)
  <2> SUFFICES ASSUME ServerRuns, ClientRuns, gone = "nobody"
               PROVE  Brings(toClient', RateAfter(client.rate, msg), server.rate)
    OBVIOUS
  <2>1. Brings(toClient, client.rate, server.rate)
    BY DEF IInv, OptionsArrive
  <2> QED
    BY <1>1, <1>2, <2>1, BringsTail
<1> HIDE DEF msg
<1> DEFINE info == Message("kMsgDInfo")
           echo == Message("kMsgCKeepAlive")
           noop == Message("kMsgCNoop")
<1>5. /\ info.type = "kMsgDInfo" /\ info.age = 0
      /\ echo.type = "kMsgCKeepAlive" /\ echo.age = 0
      /\ noop.type = "kMsgCNoop" /\ noop.age = 0
  BY NewMessages DEF Types
<1> DEFINE reply == (IF msg.type = "kMsgQInfo" THEN {info}
                     ELSE IF msg.type = "kMsgCKeepAlive" THEN {echo} ELSE {})
                    \cup (IF client.state = "ready" THEN {noop} ELSE {})
<1>6. /\ toServer' \in Seq(Messages)
      /\ Msgs(toServer') = IF gone = "nobody" /\ ServerRuns
                           THEN Msgs(toServer) \cup reply ELSE Msgs(toServer)
  <2> DEFINE answer == Answer(client, msg)
  <2>1. answer \in Seq(Messages) /\ Msgs(answer) = reply
    BY Answers
  <2>2. toServer' = Send(toServer, answer, gone = "nobody" /\ ServerRuns)
    BY <1>2
  <2> HIDE DEF answer, reply
  <2> QED
    BY <1>1, <2>1, <2>2, Sends
<1> HIDE DEF info, echo, noop
<1>7. /\ (msg.type = "kMsgQInfo" => info \in reply) /\ (msg.type = "kMsgCKeepAlive" => echo \in reply)
      /\ \A m \in reply : /\ m.type # "close"
                          /\ client.state # "ready" /\ msg.type # "kMsgCKeepAlive"
                                => m.type = "kMsgDInfo"
  BY <1>5
<1> HIDE DEF reply
<1> DEFINE rate == RateAfter(client.rate, msg)
<1>8. /\ client' \in ClientStates /\ client'.polite = client.polite /\ client'.rate = rate
      /\ client'.state = (IF Sets(msg) THEN "ready" ELSE client.state)
      /\ client'.ignoreMouse = (IF msg.type = "kMsgCInfoAck" THEN FALSE ELSE client.ignoreMouse)
      /\ client'.alarm = (IF Rewinds(msg) THEN (IF rate = 0 THEN NoTimer ELSE Full(rate))
                          ELSE client.alarm)
      /\ rate \in Rates
  <2>1. KeepAliveRate \in Rates /\ client.rate \in Rates
    BY <1>1, DefaultRate DEF ClientStates
  <2>2. CASE msg.type = "kMsgCInfoAck"
    <3>1. client' = [client EXCEPT !.ignoreMouse = FALSE] /\ rate = client.rate /\ ~Rewinds(msg)
          /\ ~Sets(msg)
      BY <1>2, <2>2 DEF Received, RateAfter, Rewinds, Sets, Resets, KeepsAlive
    <3> QED
      BY <1>1, <2>1, <2>2, <3>1 DEF ClientStates
  <2>3. CASE msg.type = "kMsgCResetOptions"
    <3>1. client' = SetKeepAliveRate(client, KeepAliveRate) /\ rate = KeepAliveRate /\ Rewinds(msg)
          /\ ~Sets(msg)
      BY <1>2, <2>3 DEF Received, RateAfter, Rewinds, Sets, Resets, KeepsAlive
    <3>2. /\ client' \in ClientStates
          /\ client' = [client EXCEPT !.rate = rate, !.alarm = IF rate = 0 THEN NoTimer ELSE Full(rate)]
      BY <1>1, <2>1, <3>1, ResetsClient
    <3> QED
      BY <1>1, <2>1, <2>3, <3>1, <3>2 DEF ClientStates
  <2>4. CASE msg.type = "kMsgCKeepAlive"
    <3>1. client' = ResetKeepAliveAlarm(client) /\ rate = client.rate /\ Rewinds(msg) /\ ~Sets(msg)
      BY <1>2, <2>4 DEF Received, RateAfter, Rewinds, Sets, Resets, KeepsAlive
    <3>2. client' = SetKeepAliveRate(client, rate) /\ rate \in Rates
      BY <1>1, <2>1, <3>1, ResetsClient
    <3> HIDE DEF rate
    <3>3. /\ client' \in ClientStates
          /\ client' = [client EXCEPT !.rate = rate, !.alarm = IF rate = 0 THEN NoTimer ELSE Full(rate)]
      BY <1>1, <3>2, ResetsClient
    <3> QED
      BY <1>1, <2>1, <2>4, <3>1, <3>3 DEF ClientStates
  <2>5. CASE msg.type = "kMsgDSetOptions" /\ msg.option = NoOption
    <3>1. client' = [client EXCEPT !.state = "ready"] /\ rate = client.rate /\ ~Rewinds(msg)
          /\ Sets(msg)
      BY <1>2, <2>5 DEF Received, RateAfter, Rewinds, Sets, Resets, KeepsAlive
    <3> QED
      BY <1>1, <2>1, <2>5, <3>1 DEF ClientStates
  <2>6. CASE msg.type = "kMsgDSetOptions" /\ msg.option # NoOption
    <3>1. msg.option \in Rates
      BY <1>3, <2>6 DEF Messages, Rates
    <3>2. client' = [SetKeepAliveRate(client, msg.option) EXCEPT !.state = "ready"]
          /\ rate = msg.option /\ Rewinds(msg) /\ Sets(msg)
      BY <1>2, <2>6 DEF Received, RateAfter, Rewinds, Sets, Resets, KeepsAlive
    <3> DEFINE c == SetKeepAliveRate(client, msg.option)
    <3>3. /\ c \in ClientStates
          /\ c = [client EXCEPT !.rate = rate, !.alarm = IF rate = 0 THEN NoTimer ELSE Full(rate)]
      BY <1>1, <3>1, <3>2, ResetsClient
    <3>4. client' = [c EXCEPT !.state = "ready"]
      BY <3>2
    <3> HIDE DEF c, rate
    <3> QED
      BY <1>1, <2>6, <3>1, <3>2, <3>3, <3>4 DEF ClientStates
  <2>7. CASE msg.type \notin {"kMsgCInfoAck", "kMsgCResetOptions", "kMsgCKeepAlive", "kMsgDSetOptions"}
    <3>1. client' = client /\ rate = client.rate /\ ~Rewinds(msg) /\ ~Sets(msg)
      BY <1>2, <2>7 DEF Received, RateAfter, Rewinds, Sets, Resets, KeepsAlive
    <3> QED
      BY <1>1, <2>1, <2>7, <3>1 DEF ClientStates
  <2> QED
    BY <2>2, <2>3, <2>4, <2>5, <2>6, <2>7
<1>9. /\ (ServerRuns' <=> ServerRuns) /\ ClientRuns' /\ (InContact' <=> InContact)
  BY <1>2, <1>8 DEF ServerRuns, ClientRuns, InContact
<1>10. TypeOK'
  BY <1>2, <1>3, <1>6, <1>8 DEF IInv, TypeOK, ClientStates
<1>11. server.state \in {"handshake", "ready"} => msg.type \in {"kMsgQInfo", "kMsgCInfoAck"}
  BY <1>2, <1>3 DEF IInv, Handshake
<1>12. Handshake'
  <2>1. server.state \in {"handshake", "ready"} => ~Sets(msg) /\ msg.type # "kMsgCKeepAlive"
    BY <1>11 DEF Sets
  <2>2. server.state \in {"handshake", "ready"} =>
           /\ server.rate = KeepAliveRate /\ client'.state # "ready"
           /\ \A m \in Msgs(toClient') : m.type \in {"kMsgQInfo", "kMsgCInfoAck", "close"}
    BY <1>3, <1>8, <2>1 DEF IInv, Handshake
  <2>3. server.state = "handshake" /\ client.polite =>
           \A m \in Msgs(toServer') : m.type \in {"kMsgDInfo", "close"}
    BY <1>6, <1>7, <2>1 DEF IInv, Handshake
  <2>4. server.state = "handshake" =>
           server.keepAlive = NoTimer /\ (client.polite => server.alarm = NoTimer)
    BY DEF IInv, Handshake
  <2> QED
    BY <1>2, <1>8, <2>2, <2>3, <2>4 DEF Handshake
<1>13. rate \in Nat /\ NoTimer = -1 /\ Full(rate) \in Nat /\ MaxDelay \in Nat
       /\ (rate > 0 => rate + 2 * MaxDelay < Full(rate))
  BY <1>8, RatesInTime, DefaultRate DEF NoTimer
<1>14. ~Rewinds(msg) => rate = client.rate
  BY DEF Rewinds, RateAfter, Resets, Sets
<1> HIDE DEF rate
<1>15. KeepsPace'
  BY <1>2, <1>8, <1>9, <1>13, <1>14 DEF IInv, KeepsPace
<1>16. OptionsArrive'
  BY <1>2, <1>4, <1>8, <1>9 DEF OptionsArrive, rate
<1>17. ClientLeavesFirst'
  BY <1>2, <1>3, <1>6, <1>7, <1>9 DEF IInv, ClientLeavesFirst, Closes
<1>18. InTime'
  <2> SUFFICES ASSUME InContact
               PROVE  /\ server.alarm # NoTimer => ServerHears'
                      /\ client'.alarm # NoTimer => ClientHears'
    BY <1>2, <1>9 DEF InTime
  <2>1. /\ gone = "nobody" /\ client.polite /\ ServerRuns
        /\ Msgs(toServer') = Msgs(toServer) \cup reply
    BY <1>2, <1>6 DEF InContact, IInv, ClientLeavesFirst
  <2>2. msg.age \in Nat /\ msg.age <= MaxDelay
    BY <1>1, <1>3, MessagesOnTheWay
  <2>3. /\ server.alarm \in Int /\ client.alarm \in Int
        /\ server.keepAlive \in Int /\ server.keepAlive >= -1
    BY <1>1, AlarmsGoDown DEF ServerStates, ClientStates
  <2>4. ASSUME server.alarm # NoTimer PROVE ServerHears'
    <3>1. ServerHears
      BY <2>1, <2>4 DEF IInv, InTime
    <3>2. ASSUME NEW m \in Msgs(toServer), server.alarm > MaxDelay - m.age PROVE ServerHears'
      BY <1>2, <2>1, <3>2 DEF ServerHears
    <3>3. ASSUME NEW m \in Msgs(toClient'), KeepsAlive(m), server.alarm > 2 * MaxDelay - m.age
          PROVE  ServerHears'
      BY <1>2, <1>9, <3>3 DEF ServerHears
    <3>4. CASE KeepsAlive(msg) /\ server.alarm > 2 * MaxDelay - msg.age
      <4>1. echo \in Msgs(toServer')
        BY <1>7, <2>1, <3>4 DEF KeepsAlive
      <4>2. server.alarm > MaxDelay - echo.age
        BY <1>5, <1>13, <2>2, <2>3, <3>4
      <4> QED
        BY <1>2, <4>1, <4>2 DEF ServerHears
    <3>5. CASE server.keepAlive # NoTimer /\ server.alarm > server.keepAlive + 2 * MaxDelay
      BY <1>2, <1>9, <3>5 DEF ServerHears
    <3> QED
      BY <1>3, <3>1, <3>2, <3>3, <3>4, <3>5 DEF ServerHears
  <2>5. ASSUME client'.alarm # NoTimer, Rewinds(msg) PROVE ClientHears'
    <3>1. rate > 0 /\ client'.alarm = Full(rate) /\ client'.alarm \in Int
      BY <1>8, <1>13, <2>5
    <3>2. server.state = "adopted"
      <4>1. msg.type \notin {"kMsgQInfo", "kMsgCInfoAck"}
        BY <2>5 DEF Rewinds, KeepsAlive, Resets, Sets
      <4> QED
        BY <1>11, <2>1, <4>1 DEF ServerRuns
    <3>3. ASSUME NEW m \in Msgs(toClient'), Rewinds(m) PROVE ClientHears'
      <4>1. m.age \in Nat
        BY <1>3, <3>3, MessagesOnTheWay
      <4>2. client'.alarm > MaxDelay - m.age
        BY <1>13, <3>1, <4>1
      <4> QED
        BY <3>3, <4>2 DEF ClientHears
    <3>4. CASE \A m \in Msgs(toClient') : ~Rewinds(m)
      <4>1. \A m \in Msgs(toClient') : ~Resets(m) /\ (Sets(m) => m.option = NoOption)
        BY <3>4 DEF Rewinds
      <4>2. Brings(toClient', rate, server.rate)
        BY <1>2, <1>4, <2>1 DEF rate
      <4>3. rate = server.rate
        BY <1>3, <4>1, <4>2, BringsQuiet
      <4>4. server.keepAlive # NoTimer /\ server.keepAlive <= rate
        BY <3>1, <3>2, <4>3 DEF IInv, KeepsPace
      <4>5. client'.alarm > server.keepAlive + MaxDelay
        BY <1>13, <2>3, <3>1, <4>4
      <4> QED
        BY <1>2, <3>2, <4>4, <4>5 DEF ClientHears
    <3> QED
      BY <3>3, <3>4
  <2>6. ASSUME client'.alarm # NoTimer, ~Rewinds(msg) PROVE ClientHears'
    <3>1. client'.alarm = client.alarm /\ ClientHears
      BY <1>2, <1>8, <2>6 DEF IInv, InTime
    <3>2. ASSUME NEW m \in Msgs(toClient), Rewinds(m), client.alarm > MaxDelay - m.age
          PROVE  ClientHears'
      <4>1. m \in Msgs(toClient')
        BY <1>3, <2>6, <3>2
      <4> QED
        BY <3>1, <3>2, <4>1 DEF ClientHears
    <3>3. CASE /\ server.state = "adopted" /\ server.keepAlive # NoTimer
               /\ client.alarm > server.keepAlive + MaxDelay
      BY <1>2, <3>1, <3>3 DEF ClientHears
    <3>4. ASSUME NEW m \in Msgs(toClient), server.state = "handshake", m.type = "kMsgQInfo",
                 client.alarm > 3 * MaxDelay - m.age
          PROVE  ClientHears'
      <4>1. CASE m = msg
        <5>1. info \in Msgs(toServer')
          BY <1>7, <2>1, <3>4, <4>1
        <5>2. client.alarm > 2 * MaxDelay - info.age
          BY <1>5, <1>13, <2>2, <2>3, <3>4, <4>1
        <5> QED
          BY <1>2, <1>5, <3>1, <3>4, <5>1, <5>2 DEF ClientHears
      <4>2. CASE m \in Msgs(toClient')
        BY <1>2, <3>1, <3>4, <4>2 DEF ClientHears
      <4> QED
        BY <1>3, <3>4, <4>1, <4>2
    <3>5. ASSUME NEW m \in Msgs(toServer), server.state = "handshake", m.type = "kMsgDInfo",
                 client.alarm > 2 * MaxDelay - m.age
          PROVE  ClientHears'
      <4>1. m \in Msgs(toServer')
        BY <2>1, <3>5
      <4> QED
        BY <1>2, <3>1, <3>5, <4>1 DEF ClientHears
    <3>6. CASE server.state = "ready" /\ client.alarm > MaxDelay
      BY <1>2, <3>1, <3>6 DEF ClientHears
    <3> QED
      BY <3>1, <3>2, <3>3, <3>4, <3>5, <3>6 DEF ClientHears
  <2> QED
    BY <2>4, <2>5, <2>6
<1>19. MouseAnswered'
  <2> SUFFICES ASSUME client'.ignoreMouse, ServerRuns, gone = "nobody"
               PROVE  \/ \E m \in Msgs(toServer') : m.type = "kMsgDInfo"
                      \/ \E m \in Msgs(toClient') : m.type = "kMsgCInfoAck"
    BY <1>2, <1>9 DEF MouseAnswered
  <2>1. client.ignoreMouse /\ msg.type # "kMsgCInfoAck"
    BY <1>8
  <2> QED
    BY <1>2, <1>3, <1>6, <2>1 DEF IInv, MouseAnswered
<1> QED
  BY <1>10, <1>12, <1>15, <1>16, <1>17, <1>18, <1>19 DEF IInv

-----------------------------------------------------------------------------
(***************************************************************************)
(* The network and time.                                                   *)
(***************************************************************************)
LEMMA VanishesKeeps ==
    ASSUME IInv, Vanishes
    PROVE  IInv'
<1>1. /\ server \in ServerStates /\ client \in ClientStates
      /\ toClient \in Seq(Messages) /\ toServer \in Seq(Messages)
  BY Typed DEF IInv
<1>2. /\ gone' \in {"client", "server", "network"}
      /\ toClient' \in {toClient, <<>>} /\ toServer' \in {toServer, <<>>}
      /\ flatlined' = flatlined /\ reloads' = reloads /\ changes' = changes
  BY DEF Vanishes
<1>3. \/ client' = client
      \/ client' = [client EXCEPT !.state = "closed", !.alarm = NoTimer]
  BY DEF Vanishes, ClientDisconnects
<1>4. \/ server' = server
      \/ server' = [RemoveHeartbeatTimer(server) EXCEPT !.state = "deleted", !.leaked = NoTimer]
  BY DEF Vanishes
<1>5. /\ client' \in ClientStates /\ client'.polite = client.polite
      /\ client' = client \/ client'.state = "closed"
  BY <1>1, <1>3, AlarmsGoDown DEF ClientStates
<1>6. /\ server' \in ServerStates
      /\ \/ server' = server
         \/ /\ server'.state = "deleted" /\ server'.rate = server.rate
            /\ server'.keepAlive = NoTimer /\ server'.leaked = NoTimer
  <2>1. CASE server' = server
    BY <1>1, <2>1
  <2>2. CASE server' # server
    <3>1. server' = [server EXCEPT !.state = "deleted", !.keepAlive = NoTimer, !.alarm = NoTimer,
                                   !.leaked = NoTimer]
      BY <1>1, <1>4, <2>2 DEF RemoveHeartbeatTimer, ServerStates
    <3> QED
      BY <1>1, <3>1, AlarmsGoDown DEF ServerStates
  <2> QED
    BY <2>1, <2>2
<1>7. ~InContact'
  BY <1>2 DEF InContact
<1>8. /\ toClient' \in Seq(Messages) /\ toServer' \in Seq(Messages)
      /\ Msgs(toClient') \subseteq Msgs(toClient) /\ Msgs(toServer') \subseteq Msgs(toServer)
  BY <1>1, <1>2, MsgsOfEmpty
<1>9. TypeOK'
  <2>1. gone' \in {"nobody", "client", "server", "network"}
    BY <1>2
  <2>2. flatlined' \subseteq {"server", "client"} /\ reloads' \in 0..MaxReloads /\ changes' \in 0..MaxChanges
    BY <1>2 DEF IInv, TypeOK
  <2> QED
    BY <1>5, <1>6, <1>8, <2>1, <2>2 DEF TypeOK, ServerStates, ClientStates, Pauses
<1>10. Handshake'
  BY <1>5, <1>6, <1>8 DEF IInv, Handshake
<1>11. KeepsPace'
  <2>1. server.rate \in Nat /\ NoTimer = -1
    BY <1>1, RatesInTime DEF ServerStates, NoTimer
  <2>2. ClientRuns' => client' = client /\ ClientRuns
    BY <1>5 DEF ClientRuns
  <2>3. /\ server'.keepAlive <= server'.rate
        /\ server'.state = "ready" => server'.keepAlive = server'.rate
        /\ server'.state \in {"ready", "adopted"} =>
              /\ server'.rate > 0 <=> server'.alarm # NoTimer
              /\ server'.rate > 0 <=> server'.keepAlive # NoTimer
        /\ client'.polite => server'.leaked = NoTimer
    BY <1>5, <1>6, <2>1 DEF IInv, KeepsPace
  <2>4. ClientRuns' => (client'.rate > 0 <=> client'.alarm # NoTimer)
    BY <2>2 DEF IInv, KeepsPace
  <2> QED
    BY <2>3, <2>4 DEF KeepsPace
<1>12. OptionsArrive' /\ ClientLeavesFirst' /\ InTime' /\ MouseAnswered'
  BY <1>2, <1>7 DEF OptionsArrive, ClientLeavesFirst, InTime, MouseAnswered
<1> QED
  BY <1>9, <1>10, <1>11, <1>12 DEF IInv

\* What a second does to messages that are on their way to an end that runs.
LEMMA Aged ==
    ASSUME NEW q \in Seq(Messages), NEW r, NEW reads \in BOOLEAN,
           MayWait(q, reads), r = IF reads THEN Older(q) ELSE q
    PROVE  /\ r \in Seq(Messages)
           /\ \A m \in Msgs(r) : \E n \in Msgs(q) : m.type = n.type
           /\ \A n \in Msgs(q) : \E m \in Msgs(r) :
                 /\ m.type = n.type /\ m.option = n.option
                 /\ m.age = IF reads THEN n.age + 1 ELSE n.age
           /\ \A rate, final : Brings(q, rate, final) => Brings(r, rate, final)
<1>1. CASE ~reads
  BY <1>1
<1>2. CASE reads
  <2>1. r = Older(q) /\ \A i \in DOMAIN q : q[i].age < MaxDelay
    BY <1>2 DEF MayWait
  <2>2. /\ r \in Seq(Messages)
        /\ Msgs(r) = {[m EXCEPT !.age = @ + 1] : m \in Msgs(q)}
    BY <2>1, MsgsOfOlder
  <2>3. \A m \in Msgs(q) : m \in Messages
    BY MessagesOnTheWay
  <2>4. \A m \in Msgs(q) : LET n == [m EXCEPT !.age = @ + 1] IN
           n.type = m.type /\ n.option = m.option /\ n.age = m.age + 1
    BY <2>3 DEF Messages
  <2>5. \A m \in Msgs(r) : \E n \in Msgs(q) : m.type = n.type
    BY <2>2, <2>4
  <2>6. \A n \in Msgs(q) : \E m \in Msgs(r) :
           m.type = n.type /\ m.option = n.option /\ m.age = n.age + 1
    <3> SUFFICES ASSUME NEW n \in Msgs(q)
                 PROVE  \E m \in Msgs(r) : m.type = n.type /\ m.option = n.option /\ m.age = n.age + 1
      OBVIOUS
    <3>1. [n EXCEPT !.age = @ + 1] \in Msgs(r)
      BY <2>2
    <3> QED
      BY <2>4, <3>1
  <2>7. ASSUME NEW rate, NEW final, Brings(q, rate, final) PROVE Brings(r, rate, final)
    BY <2>1, <2>7, BringsOlder
  <2> QED
    BY <1>2, <2>2, <2>5, <2>6, <2>7
<1> QED
  BY <1>1, <1>2

\* Every alarm and every bound on it go down by the same second.
LEMMA TickKeeps ==
    ASSUME IInv, Tick
    PROVE  IInv'
<1>1. /\ server \in ServerStates /\ client \in ClientStates
      /\ toClient \in Seq(Messages) /\ toServer \in Seq(Messages)
  BY Typed DEF IInv
<1>2. /\ server.state # "ready" /\ server.keepAlive # 0 /\ server.alarm # 0
      /\ server.leaked # 0 /\ client.alarm # 0
      /\ MayWait(toServer, ServerRuns) /\ MayWait(toClient, ClientRuns)
      /\ server' = [server EXCEPT !.keepAlive = CountDown(@), !.alarm = CountDown(@),
                                  !.leaked = CountDown(@)]
      /\ client' = [client EXCEPT !.alarm = CountDown(@)]
      /\ toServer' = IF ServerRuns THEN Older(toServer) ELSE toServer
      /\ toClient' = IF ClientRuns THEN Older(toClient) ELSE toClient
      /\ gone' = gone /\ flatlined' = flatlined /\ reloads' = reloads /\ changes' = changes
  BY DEF Tick
<1>3. ServerRuns \in BOOLEAN /\ ClientRuns \in BOOLEAN
  BY DEF ServerRuns, ClientRuns
<1>4. /\ toServer' \in Seq(Messages)
      /\ \A m \in Msgs(toServer') : \E n \in Msgs(toServer) : m.type = n.type
      /\ \A n \in Msgs(toServer) : \E m \in Msgs(toServer') :
            /\ m.type = n.type /\ m.option = n.option
            /\ m.age = IF ServerRuns THEN n.age + 1 ELSE n.age
  BY <1>1, <1>2, <1>3, Aged
<1>5. /\ toClient' \in Seq(Messages)
      /\ \A m \in Msgs(toClient') : \E n \in Msgs(toClient) : m.type = n.type
      /\ \A n \in Msgs(toClient) : \E m \in Msgs(toClient') :
            /\ m.type = n.type /\ m.option = n.option
            /\ m.age = IF ClientRuns THEN n.age + 1 ELSE n.age
      /\ \A rate, final : Brings(toClient, rate, final) => Brings(toClient', rate, final)
  BY <1>1, <1>2, <1>3, Aged
<1>6. /\ server' \in ServerStates
      /\ server'.state = server.state /\ server'.rate = server.rate
      /\ server'.keepAlive = CountDown(server.keepAlive)
      /\ server'.alarm = CountDown(server.alarm) /\ server'.leaked = CountDown(server.leaked)
  BY <1>1, <1>2, AlarmsGoDown DEF ServerStates
<1>7. /\ client' \in ClientStates
      /\ client'.state = client.state /\ client'.rate = client.rate
      /\ client'.polite = client.polite /\ client'.ignoreMouse = client.ignoreMouse
      /\ client'.alarm = CountDown(client.alarm)
  BY <1>1, <1>2, AlarmsGoDown DEF ClientStates
<1>8. /\ (ServerRuns' <=> ServerRuns) /\ (ClientRuns' <=> ClientRuns)
      /\ (InContact' <=> InContact)
  BY <1>2, <1>6, <1>7 DEF ServerRuns, ClientRuns, InContact
<1>9. /\ server.alarm \in Int /\ server.keepAlive \in Int /\ server.leaked \in Int
      /\ client.alarm \in Int /\ server.alarm >= -1 /\ server.keepAlive >= -1
      /\ server.leaked >= -1 /\ client.alarm >= -1 /\ NoTimer = -1 /\ server.rate \in Nat
      /\ MaxDelay \in Nat
  BY <1>1, AlarmsGoDown, RatesInTime, DefaultRate DEF ServerStates, ClientStates, NoTimer
<1>10. /\ (server'.alarm = NoTimer <=> server.alarm = NoTimer)
       /\ (server'.keepAlive = NoTimer <=> server.keepAlive = NoTimer)
       /\ (server'.leaked = NoTimer <=> server.leaked = NoTimer)
       /\ (client'.alarm = NoTimer <=> client.alarm = NoTimer)
       /\ server.alarm # NoTimer => server'.alarm = server.alarm - 1
       /\ server.keepAlive # NoTimer => server'.keepAlive = server.keepAlive - 1
       /\ client.alarm # NoTimer => client'.alarm = client.alarm - 1
       /\ server'.keepAlive <= server.keepAlive
  BY <1>2, <1>6, <1>7, <1>9 DEF CountDown
<1>11. TypeOK'
  BY <1>2, <1>4, <1>5, <1>6, <1>7 DEF IInv, TypeOK, ServerStates, ClientStates, Pauses
<1>12. Handshake'
  BY <1>2, <1>4, <1>5, <1>6, <1>7, <1>10 DEF IInv, Handshake
<1>13. KeepsPace'
  <2>1. server'.keepAlive <= server'.rate
    <3>1. server.keepAlive <= server.rate /\ server'.keepAlive \in Int
      BY <1>6, AlarmsGoDown DEF IInv, KeepsPace, ServerStates
    <3> QED
      BY <1>6, <1>9, <1>10, <3>1
  <2> QED
    BY <1>2, <1>6, <1>7, <1>8, <1>10, <2>1 DEF IInv, KeepsPace
<1>14. OptionsArrive'
  BY <1>2, <1>5, <1>6, <1>7, <1>8 DEF IInv, OptionsArrive
<1>15. ClientLeavesFirst'
  BY <1>2, <1>4, <1>5, <1>8 DEF IInv, ClientLeavesFirst, Closes
<1>16. InTime'
  <2> SUFFICES ASSUME InContact
               PROVE  /\ ServerRuns /\ server.alarm # NoTimer => ServerHears'
                      /\ ClientRuns /\ client.alarm # NoTimer => ClientHears'
    BY <1>8, <1>10 DEF InTime
  <2>1. ASSUME ServerRuns, server.alarm # NoTimer PROVE ServerHears'
    <3>1. ServerHears /\ server'.alarm = server.alarm - 1
      BY <1>10, <2>1 DEF IInv, InTime
    <3>2. ASSUME NEW n \in Msgs(toServer), server.alarm > MaxDelay - n.age PROVE ServerHears'
      <4>1. PICK m \in Msgs(toServer') : m.age = n.age + 1
        BY <1>4, <2>1
      <4>2. n.age \in Nat
        BY <1>1, <3>2, MessagesOnTheWay
      <4>3. server'.alarm > MaxDelay - m.age
        BY <1>9, <3>1, <3>2, <4>1, <4>2
      <4> QED
        BY <4>3 DEF ServerHears
    <3>3. ASSUME ClientRuns, NEW n \in Msgs(toClient), KeepsAlive(n),
                 server.alarm > 2 * MaxDelay - n.age
          PROVE  ServerHears'
      <4>1. PICK m \in Msgs(toClient') : m.type = n.type /\ m.age = n.age + 1
        BY <1>5, <3>3
      <4>2. n.age \in Nat
        BY <1>1, <3>3, MessagesOnTheWay
      <4>3. server'.alarm > 2 * MaxDelay - m.age
        BY <1>9, <3>1, <3>3, <4>1, <4>2
      <4> QED
        BY <1>8, <3>3, <4>1, <4>3 DEF ServerHears, KeepsAlive
    <3>4. CASE /\ ClientRuns /\ server.keepAlive # NoTimer
               /\ server.alarm > server.keepAlive + 2 * MaxDelay
      <4>1. server'.keepAlive # NoTimer /\ server'.alarm > server'.keepAlive + 2 * MaxDelay
        BY <1>9, <1>10, <3>1, <3>4
      <4> QED
        BY <1>8, <3>4, <4>1 DEF ServerHears
    <3> QED
      BY <3>1, <3>2, <3>3, <3>4 DEF ServerHears
  <2>2. ASSUME ClientRuns, client.alarm # NoTimer PROVE ClientHears'
    <3>1. ClientHears /\ client'.alarm = client.alarm - 1 /\ ServerRuns
      BY <1>10, <2>2 DEF IInv, InTime, ClientLeavesFirst
    <3>2. ASSUME NEW n \in Msgs(toClient), NEW bound \in Nat, client.alarm > bound - n.age
          PROVE  \E m \in Msgs(toClient') :
                    m.type = n.type /\ m.option = n.option /\ client'.alarm > bound - m.age
      <4>1. PICK m \in Msgs(toClient') :
               m.type = n.type /\ m.option = n.option /\ m.age = n.age + 1
        BY <1>5, <2>2
      <4>2. n.age \in Nat
        BY <1>1, <3>2, MessagesOnTheWay
      <4>3. client'.alarm > bound - m.age
        BY <1>9, <3>1, <3>2, <4>1, <4>2
      <4> QED
        BY <4>1, <4>3
    <3>3. ASSUME NEW n \in Msgs(toClient), Rewinds(n), client.alarm > MaxDelay - n.age
          PROVE  ClientHears'
      <4>1. PICK m \in Msgs(toClient') :
               m.type = n.type /\ m.option = n.option /\ client'.alarm > MaxDelay - m.age
        BY <1>9, <3>2, <3>3
      <4>2. Rewinds(m)
        BY <3>3, <4>1 DEF Rewinds, KeepsAlive, Resets, Sets
      <4> QED
        BY <4>1, <4>2 DEF ClientHears
    <3>4. CASE /\ server.state = "adopted" /\ server.keepAlive # NoTimer
               /\ client.alarm > server.keepAlive + MaxDelay
      <4>1. server'.keepAlive # NoTimer /\ client'.alarm > server'.keepAlive + MaxDelay
        BY <1>9, <1>10, <3>1, <3>4
      <4> QED
        BY <1>6, <3>4, <4>1 DEF ClientHears
    <3>5. ASSUME NEW n \in Msgs(toClient), server.state = "handshake", n.type = "kMsgQInfo",
                 client.alarm > 3 * MaxDelay - n.age
          PROVE  ClientHears'
      <4>1. 3 * MaxDelay \in Nat
        BY <1>9
      <4>2. PICK m \in Msgs(toClient') : m.type = n.type /\ client'.alarm > 3 * MaxDelay - m.age
        BY <3>2, <3>5, <4>1
      <4> QED
        BY <1>6, <3>5, <4>2 DEF ClientHears
    <3>6. ASSUME NEW n \in Msgs(toServer), server.state = "handshake", n.type = "kMsgDInfo",
                 client.alarm > 2 * MaxDelay - n.age
          PROVE  ClientHears'
      <4>1. PICK m \in Msgs(toServer') : m.type = n.type /\ m.age = n.age + 1
        BY <1>4, <3>1
      <4>2. n.age \in Nat
        BY <1>1, <3>6, MessagesOnTheWay
      <4>3. client'.alarm > 2 * MaxDelay - m.age
        BY <1>9, <3>1, <3>6, <4>1, <4>2
      <4> QED
        BY <1>6, <3>6, <4>1, <4>3 DEF ClientHears
    <3> QED
      BY <1>2, <3>1, <3>3, <3>4, <3>5, <3>6 DEF ClientHears
  <2> QED
    BY <2>1, <2>2
<1>17. MouseAnswered'
  <2> SUFFICES ASSUME client.ignoreMouse, ClientRuns, ServerRuns, gone = "nobody"
               PROVE  \/ \E m \in Msgs(toServer') : m.type = "kMsgDInfo"
                      \/ \E m \in Msgs(toClient') : m.type = "kMsgCInfoAck"
    BY <1>2, <1>7, <1>8 DEF MouseAnswered
  <2>1. \/ \E m \in Msgs(toServer) : m.type = "kMsgDInfo"
        \/ \E m \in Msgs(toClient) : m.type = "kMsgCInfoAck"
    BY DEF IInv, MouseAnswered
  <2> QED
    BY <1>4, <1>5, <2>1
<1> QED
  BY <1>11, <1>12, <1>13, <1>14, <1>15, <1>16, <1>17 DEF IInv

-----------------------------------------------------------------------------
LEMMA InitHolds ==
    ASSUME Init
    PROVE  IInv
<1> DEFINE query == Message("kMsgQInfo")
<1>1. query \in Messages /\ query.type = "kMsgQInfo" /\ query.age = 0
  BY NewMessages DEF Types
<1>2. PICK elapsed \in 0..MaxDelay, polite \in BOOLEAN :
         client = [state |-> "handshake", polite |-> polite, rate |-> KeepAliveRate,
                   alarm |-> Full(KeepAliveRate) - elapsed, ignoreMouse |-> FALSE]
  BY DEF Init, Full
<1>3. /\ server = [state |-> "handshake", rate |-> KeepAliveRate,
                   keepAlive |-> NoTimer, alarm |-> NoTimer, leaked |-> NoTimer]
      /\ toClient = <<query>> /\ toServer = <<>>
      /\ gone = "nobody" /\ flatlined = {} /\ reloads = 0 /\ changes = 0
  BY DEF Init
<1> HIDE DEF query
<1>4. /\ toClient \in Seq(Messages) /\ toServer \in Seq(Messages)
      /\ Msgs(toClient) = {query} /\ Msgs(toServer) = {}
  BY <1>1, <1>3, MsgsOfFew, MsgsOfEmpty
<1>5. /\ Full(KeepAliveRate) \in Nat /\ 4 * MaxDelay < Full(KeepAliveRate) /\ MaxDelay \in Nat
      /\ KeepAliveRate \in Rates /\ KeepAliveRate \in Nat /\ KeepAliveRate > 0
      /\ NoTimer \in Alarms /\ NoTimer \in Pauses /\ NoTimer = -1
  BY DefaultRate, RatesInTime, AlarmsGoDown DEF NoTimer
<1>6. client.alarm = Full(KeepAliveRate) - elapsed /\ client.alarm > 3 * MaxDelay
  BY <1>2, <1>5
<1>7. client.alarm \in Alarms
  <2>1. Full(KeepAliveRate) - elapsed \in NoTimer..Full(KeepAliveRate)
    BY <1>5
  <2> QED
    BY <1>5, <1>6, <2>1 DEF Alarms, Full
<1>8. TypeOK
  <2>1. server \in ServerStates
    BY <1>3, <1>5 DEF ServerStates
  <2>2. client \in ClientStates
    BY <1>2, <1>5, <1>6, <1>7 DEF ClientStates
  <2>3. reloads \in 0..MaxReloads /\ changes \in 0..MaxChanges
    BY <1>3, KeepAliveAssumption
  <2> QED
    BY <1>3, <1>4, <2>1, <2>2, <2>3 DEF TypeOK, ServerStates, ClientStates, Pauses
<1>9. Handshake
  BY <1>1, <1>2, <1>3, <1>4 DEF Handshake
<1>10. KeepsPace
  BY <1>2, <1>3, <1>5, <1>6 DEF KeepsPace
<1>11. OptionsArrive
  <2>1. DOMAIN toClient = {1} /\ toClient[1] = query
    BY <1>3
  <2>2. \A i \in DOMAIN toClient : ~Sets(toClient[i]) /\ ~Resets(toClient[i])
    BY <1>1, <2>1 DEF Sets, Resets
  <2>3. client.rate = server.rate
    BY <1>2, <1>3
  <2> QED
    BY <2>2, <2>3 DEF OptionsArrive, Brings
<1>12. ClientLeavesFirst
  BY <1>1, <1>2, <1>3, <1>4 DEF ClientLeavesFirst, ClientRuns, ServerRuns, Closes
<1>13. InTime
  <2>1. client.alarm > 3 * MaxDelay - query.age
    BY <1>1, <1>5, <1>6
  <2>2. ClientHears
    BY <1>1, <1>3, <1>4, <2>1 DEF ClientHears
  <2> QED
    BY <1>3, <2>2 DEF InTime
<1>14. MouseAnswered
  BY <1>2 DEF MouseAnswered
<1> QED
  BY <1>8, <1>9, <1>10, <1>11, <1>12, <1>13, <1>14 DEF IInv

LEMMA StepKeeps ==
    ASSUME IInv, [Next]_vars
    PROVE  IInv'
<1>1. CASE Server
  BY <1>1, ServerHandlesDataKeeps, AdoptClientKeeps, HandleKeepAliveKeeps, HandleFlatlineKeeps,
     ServerHandlesDisconnectKeeps, DeleteProxyKeeps DEF Server
<1>2. CASE Client
  BY <1>2, ClientHandlesDataKeeps, HandleKeepAliveAlarmKeeps, ClientHandlesDisconnectKeeps
     DEF Client
<1>3. CASE Environment
  BY <1>3, SetConfigKeeps, EarlyNoopKeeps, OnInfoChangedKeeps, DisconnectKeeps, VanishesKeeps
     DEF Environment
<1>4. CASE Tick
  BY <1>4, TickKeeps
<1>5. CASE UNCHANGED vars
  BY <1>5 DEF vars, IInv, TypeOK, Handshake, KeepsPace, OptionsArrive, ClientLeavesFirst, InTime,
     MouseAnswered, InContact, ServerRuns, ClientRuns, ServerHears, ClientHears
<1> QED
  BY <1>1, <1>2, <1>3, <1>4, <1>5 DEF Next

LEMMA InvImplies ==
    ASSUME IInv
    PROVE  EndsAgree /\ LiveIsKept
<1>1. RatesAgree
  <2> SUFFICES ASSUME server.state = "adopted", ClientRuns, gone = "nobody",
                      \A i \in DOMAIN toClient : ~Sets(toClient[i])
               PROVE  client.rate = server.rate
    BY DEF RatesAgree, Sets
  <2>1. Brings(toClient, client.rate, server.rate)
    BY DEF IInv, OptionsArrive, ServerRuns
  <2> QED
    BY <2>1 DEF Brings
<1>2. AlarmsFollowRate
  BY DEF IInv, KeepsPace, AlarmsFollowRate
<1>3. MouseIsAcknowledged
  BY DEF IInv, MouseAnswered, MouseIsAcknowledged, Msgs
<1>4. LiveIsKept
  BY DEF IInv, ClientLeavesFirst, InContact, LiveIsKept
<1> QED
  BY <1>1, <1>2, <1>3, <1>4 DEF IInv, EndsAgree

LEMMA Invariance == Spec => []IInv
<1>1. Init => IInv
  BY InitHolds
<1>2. IInv /\ [Next]_vars => IInv'
  BY StepKeeps
<1> QED
  BY <1>1, <1>2, PTL DEF Spec

\* Whatever the rates and the delays are, as long as the assumption holds: the two
\* ends agree on the rate and on the client's shape, or a message that makes them
\* agree is on its way, and each end has the alarm for its rate.
THEOREM TheEndsAgree == Spec => []EndsAgree
<1>1. IInv => EndsAgree
  BY InvImplies
<1> QED
  BY <1>1, Invariance, PTL

\* Two ends that are alive and in contact never take each other for dead.
THEOREM TheLiveAreKept == Spec => []LiveIsKept
<1>1. IInv => LiveIsKept
  BY InvImplies
<1> QED
  BY <1>1, Invariance, PTL

-----------------------------------------------------------------------------
(***************************************************************************)
(* What the filter's state says: the parts of the invariant.               *)
(***************************************************************************)
Bytes == Seq(Nat)
Payload == {bytes \in Bytes : Len(bytes) \in 1..MaxSize}
FilterType == [size : 0..MaxSize, buffer : Bytes, inputShutdown : BOOLEAN]
EventNames == {"socketReady", "socketShutdown", "ready", "shutdown"}

\* The types of the variables.
NetTypes ==
    /\ side \in {"server", "client"} /\ over \in {"up", "closed", "cut"} /\ ended \in BOOLEAN
    /\ sent \in Seq(Payload) /\ Len(sent) <= MaxPackets
    /\ wire \in Bytes

MainTypes ==
    /\ tcp \in Bytes
    /\ filter \in FilterType
    /\ events \in Seq(EventNames)
    /\ main \in {"idle", "readMore", "reading"} /\ wasReady \in BOOLEAN

ReaderTypes ==
    /\ reader \in {"hello", "proxy", "ended", "gone"}
    /\ current \in Bytes /\ delivered \in Seq(Bytes) /\ stalled \in BOOLEAN

Has(queue, event) == \E i \in DOMAIN queue : queue[i] = event
AheadOfEnd(queue) ==
    \E i \in DOMAIN queue :
        queue[i] = "socketReady" /\ \A j \in 1..i : queue[j] # "socketShutdown"

Open == reader \in {"hello", "proxy"}

\* The reader has what was sent, in order.
DeliveredFits ==
    /\ Len(delivered) <= Len(sent)
    /\ \A i \in 1..Len(delivered) : delivered[i] = sent[i]
    /\ reader = "hello" => delivered = <<>>

\* A message that was begun is the next one, and m_size what is left of it.
Begun(size, text, message) ==
    /\ size + Len(text) = Len(message)
    /\ \A i \in 1..Len(text) : text[i] = message[i]

MessageFits(packets, f, text, n) ==
    IF f.size = 0 THEN text = <<>> ELSE n < Len(packets) /\ Begun(f.size, text, packets[n + 1])

\* What is still to be read when n packets and text were.
UnreadOf(packets, f, text, n) ==
    IF n = Len(packets) THEN <<>>
    ELSE LET message == packets[n + 1] IN
         (IF f.size = 0 THEN Framed(message) ELSE SubSeq(message, Len(text) + 1, Len(message)))
            \o Tails(packets)[n + 2]

\* It is what the filter holds and what comes after.
Holds(packets, f, text, n, rest) ==
    MessageFits(packets, f, text, n) /\ f.buffer \o rest = UnreadOf(packets, f, text, n)

\* What the buffers hold and what was lost on the way is what was not read.
BytesFit ==
    Open => \E lost \in Bytes :
        /\ Holds(sent, filter, current, Len(delivered), tcp \o (wire \o lost))
        /\ over # "cut" => lost = <<>>

\* A header that is there was read.
HeaderIsRead(f) == f.size # 0 \/ Len(f.buffer) < Header

\* When the socket was at its end nothing comes any more.
EndFits ==
    /\ ended => over # "up" /\ wire = <<>>
    /\ Has(events, "socketShutdown") \/ filter.inputShutdown => ended
    /\ filter.inputShutdown => tcp = <<>>
    /\ Has(events, "shutdown") => ended /\ tcp = <<>> /\ filter.size = 0 /\ HeaderIsRead(filter)

\* Bytes in the socket's buffer have their event, ahead of that of the end.
InputFirst ==
    tcp # <<>> => main = "readMore" \/ AheadOfEnd(events)

ReadyFits ==
    /\ main # "readMore" => HeaderIsRead(filter)
    /\ main = "idle" /\ IsReady(filter) => stalled \/ Has(events, "ready")
    /\ main = "readMore" /\ wasReady => stalled \/ Has(events, "ready")

\* A reader that stalls has the packet behind the hello before it, and nothing
\* makes it read on.
StalledFits ==
    /\ side = "server" => ~Has(events, "ready")
    /\ stalled => side = "server" /\ reader # "hello" /\ Len(delivered) = 1 /\ main # "reading"
    /\ stalled /\ Open => IsReady(filter) /\ (main = "readMore" => wasReady)

\* A stream that was closed is empty.
ClosedFits ==
    ~Open => events = <<>> /\ main = "idle" /\ filter = NoPacket /\ tcp = <<>> /\ current = <<>>

FilterTypes == NetTypes /\ MainTypes /\ ReaderTypes
PInv ==
    /\ FilterTypes /\ DeliveredFits /\ BytesFit /\ EndFits /\ InputFirst /\ ReadyFits
    /\ ClosedFits /\ StalledFits

-----------------------------------------------------------------------------
(***************************************************************************)
(* Induction over numbers, for a set instead of a predicate, and recursion *)
(* for a step that is a function.                                          *)
(***************************************************************************)
LEMMA LeastNat ==
    ASSUME NEW T \in SUBSET Nat, T # {}
    PROVE  \E n \in T : \A m \in T : n <= m
<1>1. IsWellFoundedOn(OpToRel(<, Nat), Nat)
  BY NatLessThanWellFounded
<1>2. PICK n \in T : \A m \in T : ~(<<m, n>> \in OpToRel(<, Nat))
  BY <1>1, WFMin
<1>3. \A m \in T : ~(m < n)
  BY <1>2 DEF OpToRel
<1> QED
  BY <1>3

LEMMA SetInduction ==
    ASSUME NEW I, 0 \in I, \A n \in Nat : n \in I => n + 1 \in I
    PROVE  Nat \subseteq I
<1> SUFFICES ASSUME Nat \ I # {} PROVE FALSE
  OBVIOUS
<1>1. PICK n \in Nat \ I : \A m \in Nat \ I : n <= m
  BY LeastNat
<1>2. n # 0 /\ n - 1 \in Nat /\ n - 1 \in I
  BY <1>1
<1>3. (n - 1) + 1 \in I
  BY <1>2
<1> QED
  BY <1>1, <1>3

\* f follows the steps up to n.
Follows(f, S, first, step, n) ==
    /\ f \in [0..n -> S] /\ f[0] = first
    /\ \A k \in 0..n - 1 : f[k + 1] = step[k][f[k]]

LEMMA Recursion ==
    ASSUME NEW S, NEW first \in S, NEW m \in Nat, NEW step \in [0..m - 1 -> [S -> S]]
    PROVE  \E f : Follows(f, S, first, step, m)
<1> DEFINE I == {n \in Nat : n <= m => \E f : Follows(f, S, first, step, n)}
<1>1. 0 \in I
  <2> DEFINE f == [k \in 0..0 |-> first]
  <2>1. Follows(f, S, first, step, 0)
    BY DEF Follows
  <2> QED
    BY <2>1
<1>2. ASSUME NEW n \in Nat, n \in I PROVE n + 1 \in I
  <2> SUFFICES ASSUME n + 1 <= m PROVE \E f : Follows(f, S, first, step, n + 1)
    OBVIOUS
  <2>1. PICK f : Follows(f, S, first, step, n)
    BY <1>2
  <2> DEFINE value == step[n][f[n]]
             g == [k \in 0..n + 1 |-> IF k = n + 1 THEN value ELSE f[k]]
  <2>2. n \in 0..m - 1 /\ n \in 0..n /\ step[n] \in [S -> S]
    OBVIOUS
  <2>3. f[n] \in S /\ value \in S
    BY <2>1, <2>2 DEF Follows
  <2> HIDE DEF value
  <2>4. g \in [0..n + 1 -> S]
    BY <2>1, <2>3 DEF Follows
  <2>5. g[n + 1] = value /\ \A k \in 0..n : g[k] = f[k]
    OBVIOUS
  <2> HIDE DEF g
  <2>6. ASSUME NEW k \in 0..n PROVE g[k + 1] = step[k][g[k]]
    <3>1. CASE k = n
      BY <3>1, <2>5 DEF value
    <3>2. CASE k # n
      <4>1. k \in 0..n - 1 /\ k + 1 \in 0..n
        BY <3>2
      <4> QED
        BY <4>1, <2>1, <2>5 DEF Follows
    <3> QED
      BY <3>1, <3>2
  <2>7. 0 \in 0..n /\ g[0] = first /\ 0..(n + 1) - 1 = 0..n
    BY <2>1, <2>5 DEF Follows
  <2>8. Follows(g, S, first, step, n + 1)
    BY <2>4, <2>6, <2>7 DEF Follows
  <2> QED
    BY <2>8
<1> HIDE DEF I
<1>3. m \in I
  BY <1>1, <1>2, SetInduction
<1> QED
  BY <1>3 DEF I

-----------------------------------------------------------------------------
(***************************************************************************)
(* The header.                                                             *)
(***************************************************************************)
LEMMA ShiftedIs ==
    ASSUME NEW n \in Nat
    PROVE  /\ Shifted(n) \in [0..Header -> Nat] /\ Shifted(n)[0] = n
           /\ \A k \in 1..Header : Shifted(n)[k] = Shifted(n)[k - 1] \div Base
<1> DEFINE Digits(f) == f = [k \in 0..Header |-> IF k = 0 THEN n ELSE f[k - 1] \div Base]
           step == [k \in 0..Header - 1 |-> [v \in Nat |-> v \div Base]]
<1>1. Header \in Nat /\ Base \in Nat /\ Base > 0
  BY PacketAssumption
<1>2. \A v \in Nat : v \div Base \in Nat
  BY <1>1
<1>3. step \in [0..Header - 1 -> [Nat -> Nat]]
  BY <1>2
<1>4. PICK f : Follows(f, Nat, n, step, Header)
  BY <1>1, <1>3, Recursion
<1>5. \A k \in 1..Header : f[k] = f[k - 1] \div Base
  <2> SUFFICES ASSUME NEW k \in 1..Header PROVE f[k] = f[k - 1] \div Base
    OBVIOUS
  <2>1. k - 1 \in 0..Header - 1 /\ k - 1 \in 0..Header /\ (k - 1) + 1 = k
    BY <1>1
  <2>2. f[k - 1] \in Nat
    BY <1>4, <2>1 DEF Follows
  <2>3. step[k - 1][f[k - 1]] = f[k - 1] \div Base
    BY <2>1, <2>2
  <2> HIDE DEF step
  <2>4. f[(k - 1) + 1] = step[k - 1][f[k - 1]]
    BY <1>4, <2>1 DEF Follows
  <2> QED
    BY <2>1, <2>3, <2>4
<1>6. Digits(f)
  BY <1>1, <1>4, <1>5 DEF Follows
<1> DEFINE chosen == CHOOSE g : Digits(g)
<1>7. Digits(chosen) /\ Shifted(n) = chosen
  BY <1>6 DEF Shifted
<1> HIDE DEF chosen
<1>8. /\ chosen[0] = n
      /\ \A k \in 1..Header : chosen[k] = chosen[k - 1] \div Base
  BY <1>1, <1>7
<1>9. \A k \in 0..Header : chosen[k] \in Nat
  <2> DEFINE I == {k \in Nat : k <= Header => chosen[k] \in Nat}
  <2>1. 0 \in I
    BY <1>8
  <2>2. ASSUME NEW k \in Nat, k \in I PROVE k + 1 \in I
    <3> SUFFICES ASSUME k + 1 <= Header PROVE chosen[k + 1] \in Nat
      OBVIOUS
    <3>1. k + 1 \in 1..Header /\ (k + 1) - 1 = k /\ chosen[k] \in Nat
      BY <2>2, <1>1
    <3> QED
      BY <3>1, <1>2, <1>8
  <2> HIDE DEF I
  <2>3. Nat \subseteq I
    BY <2>1, <2>2, SetInduction
  <2> QED
    BY <2>3, <1>1 DEF I
<1> QED
  BY <1>7, <1>8, <1>9

LEMMA EncodedIs ==
    ASSUME NEW n \in Nat
    PROVE  /\ Encoded(n) \in Bytes /\ Len(Encoded(n)) = Header
           /\ \A i \in 1..Header :
                 Encoded(n)[i] \in Nat /\ Encoded(n)[i] = Shifted(n)[Header - i] % Base
<1>1. Header \in Nat /\ Base \in Nat /\ Base > 0
  BY PacketAssumption
<1>2. ASSUME NEW i \in 1..Header PROVE Shifted(n)[Header - i] % Base \in Nat
  <2>1. Header - i \in 0..Header /\ Shifted(n)[Header - i] \in Nat
    BY <1>1, ShiftedIs
  <2> QED
    BY <1>1, <2>1
<1> QED
  BY <1>1, <1>2 DEF Encoded, Bytes

\* Reading a header gives the length that was written.
LEMMA DecodedIsLength ==
    ASSUME NEW n \in 0..MaxSize
    PROVE  Decoded(Encoded(n)) = n
<1> DEFINE digit == Encoded(n)
           shifted == Shifted(n)
           Value(f) == f = [i \in 0..Header |-> IF i = 0 THEN 0 ELSE f[i - 1] * Base + digit[i]]
           step == [k \in 0..Header - 1 |-> [v \in Nat |-> v * Base + digit[k + 1]]]
<1>1. Header \in Nat /\ Base \in Nat /\ Base > 0 /\ n \in Nat
  BY PacketAssumption
<1>2. \A i \in 1..Header : digit[i] \in Nat /\ digit[i] = shifted[Header - i] % Base
  <2> SUFFICES ASSUME NEW i \in 1..Header
               PROVE  digit[i] \in Nat /\ digit[i] = shifted[Header - i] % Base
    OBVIOUS
  <2> QED
    BY <1>1, EncodedIs DEF Bytes
<1>s. /\ shifted[0] = n /\ shifted[Header] = 0 /\ \A k \in 0..Header : shifted[k] \in Nat
      /\ \A k \in 1..Header : shifted[k] = shifted[k - 1] \div Base
  BY <1>1, ShiftedIs, SizeFits
<1>d. Decoded(digit) = (CHOOSE g : Value(g))[Header]
  BY DEF Decoded
<1> HIDE DEF digit, shifted
<1>3. step \in [0..Header - 1 -> [Nat -> Nat]]
  <2> SUFFICES ASSUME NEW k \in 0..Header - 1, NEW v \in Nat
               PROVE  v * Base + digit[k + 1] \in Nat
    OBVIOUS
  <2>1. k + 1 \in 1..Header /\ digit[k + 1] \in Nat /\ v * Base \in Nat
    BY <1>1, <1>2
  <2> QED
    BY <2>1
<1>4. PICK f : Follows(f, Nat, 0, step, Header)
  BY <1>1, <1>3, Recursion
<1>5. \A k \in 1..Header : f[k] = f[k - 1] * Base + digit[k]
  <2> SUFFICES ASSUME NEW k \in 1..Header PROVE f[k] = f[k - 1] * Base + digit[k]
    OBVIOUS
  <2>1. k - 1 \in 0..Header - 1 /\ k - 1 \in 0..Header /\ (k - 1) + 1 = k
    BY <1>1
  <2>2. f[k - 1] \in Nat
    BY <1>4, <2>1 DEF Follows
  <2>3. step[k - 1][f[k - 1]] = f[k - 1] * Base + digit[k]
    BY <2>1, <2>2
  <2> HIDE DEF step
  <2>4. f[(k - 1) + 1] = step[k - 1][f[k - 1]]
    BY <1>4, <2>1 DEF Follows
  <2> QED
    BY <2>1, <2>3, <2>4
<1>6. Value(f)
  BY <1>1, <1>4, <1>5 DEF Follows
<1> DEFINE chosen == CHOOSE g : Value(g)
<1>7. Value(chosen) /\ Decoded(digit) = chosen[Header]
  BY <1>6, <1>d
<1> HIDE DEF chosen
<1>8. chosen[0] = 0 /\ \A k \in 1..Header : chosen[k] = chosen[k - 1] * Base + digit[k]
  BY <1>1, <1>7
<1>9. \A k \in 0..Header : chosen[k] = shifted[Header - k]
  <2> DEFINE I == {k \in Nat : k <= Header => chosen[k] = shifted[Header - k]}
  <2>1. 0 \in I
    BY <1>1, <1>8, <1>s
  <2>2. ASSUME NEW k \in Nat, k \in I PROVE k + 1 \in I
    <3> SUFFICES ASSUME k + 1 <= Header PROVE chosen[k + 1] = shifted[Header - (k + 1)]
      OBVIOUS
    <3> DEFINE rest == shifted[Header - (k + 1)]
    <3>1. /\ k + 1 \in 1..Header /\ (k + 1) - 1 = k
          /\ Header - k \in 1..Header /\ (Header - k) - 1 = Header - (k + 1)
          /\ Header - (k + 1) \in 0..Header
      BY <1>1
    <3>2. rest \in Nat /\ digit[k + 1] = rest % Base
      BY <3>1, <1>2, <1>s
    <3>3. chosen[k] = rest \div Base
      <4>1. chosen[k] = shifted[Header - k]
        BY <2>2, <3>1, <1>1
      <4>2. shifted[Header - k] = shifted[(Header - k) - 1] \div Base
        BY <3>1, <1>s
      <4> QED
        BY <3>1, <4>1, <4>2
    <3>4. chosen[k + 1] = (rest \div Base) * Base + (rest % Base)
      BY <3>1, <3>2, <3>3, <1>8
    <3> HIDE DEF rest
    <3>5. (rest \div Base) * Base + (rest % Base) = rest
      BY <3>2, <1>1
    <3> QED
      BY <3>4, <3>5 DEF rest
  <2> HIDE DEF I
  <2>3. Nat \subseteq I
    BY <2>1, <2>2, SetInduction
  <2> QED
    BY <2>3, <1>1 DEF I
<1>10. Header - Header = 0 /\ Header \in 0..Header
  BY <1>1
<1> QED
  BY <1>7, <1>9, <1>10, <1>s DEF digit

-----------------------------------------------------------------------------
(***************************************************************************)
(* What was written, from a packet on.                                     *)
(***************************************************************************)
LEMMA Joined ==
    ASSUME NEW a \in Bytes, NEW b \in Bytes
    PROVE  a \o b \in Bytes
BY ConcatProperties DEF Bytes

LEMMA Associative ==
    ASSUME NEW a \in Bytes, NEW b \in Bytes, NEW c \in Bytes
    PROVE  (a \o b) \o c = a \o (b \o c)
BY ConcatAssociative DEF Bytes

LEMMA FramedIs ==
    ASSUME NEW payload \in Bytes
    PROVE  Framed(payload) \in Bytes /\ Len(Framed(payload)) = Header + Len(payload)
<1>1. Len(payload) \in Nat
  BY LenProperties DEF Bytes
<1>2. Encoded(Len(payload)) \in Bytes /\ Len(Encoded(Len(payload))) = Header
  BY <1>1, EncodedIs
<1> QED
  BY <1>2, ConcatProperties DEF Framed, Bytes

LEMMA TailsIs ==
    ASSUME NEW packets \in Seq(Payload)
    PROVE  /\ Tails(packets)[Len(packets) + 1] = <<>>
           /\ \A n \in 1..Len(packets) + 1 : Tails(packets)[n] \in Bytes
           /\ \A n \in 1..Len(packets) :
                 Tails(packets)[n] = Framed(packets[n]) \o Tails(packets)[n + 1]
<1> DEFINE N == Len(packets)
           From(f) == f = [n \in 1..N + 1 |->
                             IF n > N THEN <<>> ELSE Framed(packets[n]) \o f[n + 1]]
           step == [k \in 0..N - 1 |-> [v \in Bytes |-> Framed(packets[N - k]) \o v]]
<1>0. N \in Nat
  BY LenProperties
<1>1. \A n \in 1..N : Framed(packets[n]) \in Bytes
  BY FramedIs, ElementOfSeq DEF Payload
<1>2. \A v, w \in Bytes : v \o w \in Bytes
  BY ConcatProperties DEF Bytes
<1>t. Tails(packets) = CHOOSE f : From(f)
  BY DEF Tails
<1> HIDE DEF N
<1>3. step \in [0..N - 1 -> [Bytes -> Bytes]]
  <2> SUFFICES ASSUME NEW k \in 0..N - 1, NEW v \in Bytes
               PROVE  Framed(packets[N - k]) \o v \in Bytes
    OBVIOUS
  <2>1. N - k \in 1..N
    BY <1>0
  <2> QED
    BY <2>1, <1>1, <1>2
<1>4. <<>> \in Bytes
  BY EmptySeq DEF Bytes
<1>5. PICK f : Follows(f, Bytes, <<>>, step, N)
  BY <1>0, <1>3, <1>4, Recursion
<1> DEFINE g == [n \in 1..N + 1 |-> f[N + 1 - n]]
<1>6. ASSUME NEW n \in 1..N + 1
      PROVE  g[n] = IF n > N THEN <<>> ELSE Framed(packets[n]) \o g[n + 1]
  <2>1. CASE n = N + 1
    <3>1. n > N /\ N + 1 - n = 0
      BY <2>1, <1>0
    <3> QED
      BY <3>1, <1>5 DEF Follows
  <2>2. CASE n # N + 1
    <3> DEFINE k == N - n
    <3>1. /\ k \in 0..N - 1 /\ k \in 0..N /\ N + 1 - n = k + 1 /\ N - k = n
          /\ n + 1 \in 1..N + 1 /\ N + 1 - (n + 1) = k /\ ~(n > N)
      BY <2>2, <1>0
    <3> HIDE DEF k
    <3>2. g[n] = f[k + 1] /\ g[n + 1] = f[k]
      BY <3>1
    <3>3. f[k] \in Bytes /\ f[k + 1] = step[k][f[k]]
      BY <1>5, <3>1 DEF Follows
    <3>4. step[k][f[k]] = Framed(packets[N - k]) \o f[k]
      BY <3>1, <3>3
    <3> HIDE DEF g, step
    <3> QED
      BY <3>1, <3>2, <3>3, <3>4
  <2> QED
    BY <2>1, <2>2
<1>7. From(g)
  BY <1>6
<1> DEFINE chosen == CHOOSE h : From(h)
<1>8. From(chosen) /\ Tails(packets) = chosen
  BY <1>7, <1>t
<1> HIDE DEF chosen
<1>9. /\ chosen[N + 1] = <<>>
      /\ \A n \in 1..N : chosen[n] = Framed(packets[n]) \o chosen[n + 1]
  <2>1. \A n \in 1..N + 1 :
           chosen[n] = IF n > N THEN <<>> ELSE Framed(packets[n]) \o chosen[n + 1]
    BY <1>8
  <2>2. N + 1 \in 1..N + 1 /\ N + 1 > N /\ \A n \in 1..N : n \in 1..N + 1 /\ ~(n > N)
    BY <1>0
  <2> HIDE DEF From
  <2> QED
    BY <2>1, <2>2
<1>10. \A n \in 1..N + 1 : chosen[n] \in Bytes
  <2> DEFINE I == {k \in Nat : k <= N => chosen[N + 1 - k] \in Bytes}
  <2>1. 0 \in I
    BY <1>0, <1>9, <1>4
  <2>2. ASSUME NEW k \in Nat, k \in I PROVE k + 1 \in I
    <3> SUFFICES ASSUME k + 1 <= N PROVE chosen[N + 1 - (k + 1)] \in Bytes
      OBVIOUS
    <3> DEFINE n == N - k
    <3>1. n \in 1..N /\ N + 1 - (k + 1) = n /\ N + 1 - k = n + 1 /\ k <= N
      BY <1>0
    <3>2. chosen[n + 1] \in Bytes
      BY <2>2, <3>1
    <3> HIDE DEF n
    <3>3. chosen[n] \in Bytes
      BY <3>1, <3>2, <1>1, <1>2, <1>9
    <3> QED
      BY <3>1, <3>3
  <2> HIDE DEF I
  <2>3. Nat \subseteq I
    BY <2>1, <2>2, SetInduction
  <2> SUFFICES ASSUME NEW n \in 1..N + 1 PROVE chosen[n] \in Bytes
    OBVIOUS
  <2>4. N + 1 - n \in I /\ N + 1 - n <= N /\ N + 1 - (N + 1 - n) = n
    BY <1>0, <2>3
  <2> QED
    BY <2>4 DEF I
<1> QED
  BY <1>8, <1>9, <1>10 DEF N

\* A packet that is written comes after all the others.
LEMMA TailsAppend ==
    ASSUME NEW packets \in Seq(Payload), NEW payload \in Payload, NEW n \in 1..Len(packets) + 1
    PROVE  Tails(Append(packets, payload))[n] = Tails(packets)[n] \o Framed(payload)
<1> DEFINE N == Len(packets)
           more == Append(packets, payload)
           old == Tails(packets)
           new == Tails(more)
           frame == Framed(payload)
<1>0. N \in Nat /\ n \in 1..N + 1
  BY LenProperties
<1>1. /\ more \in Seq(Payload) /\ Len(more) = N + 1 /\ more[N + 1] = payload
      /\ \A i \in 1..N : more[i] = packets[i]
  BY AppendProperties
<1>2. /\ old[N + 1] = <<>> /\ \A i \in 1..N + 1 : old[i] \in Bytes
      /\ \A i \in 1..N : old[i] = Framed(packets[i]) \o old[i + 1]
  BY TailsIs
<1> HIDE DEF more
<1>3. /\ new[N + 2] = <<>> /\ \A i \in 1..N + 1 : new[i] = Framed(more[i]) \o new[i + 1]
  <2>1. /\ new[Len(more) + 1] = <<>>
        /\ \A i \in 1..Len(more) : new[i] = Framed(more[i]) \o new[i + 1]
    BY <1>1, TailsIs
  <2> QED
    BY <2>1, <1>0, <1>1
<1>4. frame \in Bytes /\ \A i \in 1..N : Framed(packets[i]) \in Bytes
  BY FramedIs, ElementOfSeq DEF Payload
<1> HIDE DEF N, old, new, frame
<1> DEFINE I == {k \in Nat : k <= N => new[N + 1 - k] = old[N + 1 - k] \o frame}
<1>5. 0 \in I
  <2>1. new[N + 1] = Framed(more[N + 1]) \o new[(N + 1) + 1] /\ (N + 1) + 1 = N + 2
    <3>1. N + 1 \in 1..N + 1 /\ (N + 1) + 1 = N + 2
      BY <1>0
    <3> QED
      BY <3>1, <1>3
  <2>2. new[N + 1] = frame \o <<>>
    BY <2>1, <1>1, <1>3 DEF frame
  <2>3. new[N + 1] = old[N + 1] \o frame
    BY <2>2, <1>2, <1>4, ConcatEmptySeq DEF Bytes
  <2> QED
    BY <2>3, <1>0
<1>6. ASSUME NEW k \in Nat, k \in I PROVE k + 1 \in I
  <2> SUFFICES ASSUME k + 1 <= N
               PROVE  new[N + 1 - (k + 1)] = old[N + 1 - (k + 1)] \o frame
    OBVIOUS
  <2> DEFINE i == N - k
  <2>1. /\ i \in 1..N /\ i + 1 \in 1..N + 1 /\ i \in 1..N + 1
        /\ N + 1 - (k + 1) = i /\ N + 1 - k = i + 1 /\ k <= N
    BY <1>0
  <2>2. new[i + 1] = old[i + 1] \o frame
    BY <1>6, <2>1
  <2> HIDE DEF i
  <2>3. new[i] = Framed(packets[i]) \o (old[i + 1] \o frame)
    BY <2>1, <2>2, <1>1, <1>3
  <2>4. old[i] = Framed(packets[i]) \o old[i + 1] /\ old[i + 1] \in Bytes
        /\ Framed(packets[i]) \in Bytes
    BY <2>1, <1>2, <1>4
  <2>5. new[i] = old[i] \o frame
    <3>1. (Framed(packets[i]) \o old[i + 1]) \o frame
            = Framed(packets[i]) \o (old[i + 1] \o frame)
      BY <2>4, <1>4, Associative
    <3> QED
      BY <2>3, <2>4, <3>1
  <2> QED
    BY <2>1, <2>5
<1> HIDE DEF I
<1>7. Nat \subseteq I
  BY <1>5, <1>6, SetInduction
<1>8. N + 1 - n \in I /\ N + 1 - n <= N /\ N + 1 - (N + 1 - n) = n
  BY <1>0, <1>7
<1> QED
  BY <1>8 DEF I, new, old, more, frame

-----------------------------------------------------------------------------
(***************************************************************************)
(* Bytes that are cut in two.                                              *)
(***************************************************************************)
IsCut(s, n, a, b) ==
    /\ a \in Bytes /\ Len(a) = n
    /\ \A i \in 1..n : a[i] = s[i]
    /\ b \in Bytes /\ Len(b) = Len(s) - n
    /\ \A i \in 1..Len(s) - n : b[i] = s[n + i]
    /\ s = a \o b

LEMMA Cut ==
    ASSUME NEW s \in Bytes, NEW n \in 0..Len(s)
    PROVE  IsCut(s, n, SubSeq(s, 1, n), SubSeq(s, n + 1, Len(s)))
<1> DEFINE a == SubSeq(s, 1, n)
           b == SubSeq(s, n + 1, Len(s))
<1>1. Len(s) \in Nat /\ n \in Nat /\ \A i \in 1..Len(s) : s[i] \in Nat
  BY LenProperties, ElementOfSeq DEF Bytes
<1>2. a \in Bytes /\ Len(a) = n /\ \A i \in 1..n : a[i] = s[i]
  <2>1. \A i \in 1..n : s[i] \in Nat
    BY <1>1
  <2>2. /\ a \in Seq(Nat) /\ Len(a) = IF 1 <= n THEN n - 1 + 1 ELSE 0
        /\ \A i \in 1..n - 1 + 1 : a[i] = s[1 + i - 1]
    BY <1>1, <2>1, SubSeqProperties
  <2> HIDE DEF a
  <2> QED
    BY <1>1, <2>2 DEF Bytes
<1>3. b \in Bytes /\ Len(b) = Len(s) - n /\ \A i \in 1..Len(s) - n : b[i] = s[n + i]
  <2>1. \A i \in n + 1..Len(s) : s[i] \in Nat
    BY <1>1
  <2>2. /\ b \in Seq(Nat) /\ Len(b) = IF n + 1 <= Len(s) THEN Len(s) - (n + 1) + 1 ELSE 0
        /\ \A i \in 1..Len(s) - (n + 1) + 1 : b[i] = s[(n + 1) + i - 1]
    BY <1>1, <2>1, SubSeqProperties
  <2> HIDE DEF b
  <2> QED
    BY <1>1, <2>2 DEF Bytes
<1>4. s = a \o b
  <2> HIDE DEF a, b
  <2>1. /\ a \o b \in Seq(Nat) /\ Len(a \o b) = Len(a) + Len(b)
        /\ \A i \in 1..Len(a) + Len(b) : (a \o b)[i] = IF i <= Len(a) THEN a[i] ELSE b[i - Len(a)]
    BY <1>2, <1>3, ConcatProperties DEF Bytes
  <2> DEFINE c == a \o b
  <2>2. c \in Seq(Nat) /\ Len(c) = Len(s)
    BY <1>1, <1>2, <1>3, <2>1
  <2>3. ASSUME NEW i \in 1..Len(s) PROVE c[i] = s[i]
    <3>1. CASE i <= n
      BY <3>1, <1>1, <1>2, <1>3, <2>1
    <3>2. CASE ~(i <= n)
      <4>1. i - n \in 1..Len(s) - n /\ n + (i - n) = i
        BY <3>2, <1>1
      <4> QED
        BY <3>2, <4>1, <1>1, <1>2, <1>3, <2>1
    <3> QED
      BY <3>1, <3>2
  <2> HIDE DEF c
  <2>4. s = c
    BY <2>2, <2>3, SeqEqual DEF Bytes
  <2> QED
    BY <2>4 DEF c
<1> HIDE DEF a, b
<1>5. IsCut(s, n, a, b)
  BY <1>2, <1>3, <1>4 DEF IsCut
<1> QED
  BY <1>5 DEF a, b

\* Two ways to cut the same bytes at the same place.
LEMMA Cancel ==
    ASSUME NEW a \in Bytes, NEW b \in Bytes, NEW x \in Bytes, NEW y \in Bytes,
           Len(a) = Len(b), a \o x = b \o y
    PROVE  a = b /\ x = y
<1>1. Len(a) \in Nat /\ Len(b) \in Nat /\ Len(x) \in Nat /\ Len(y) \in Nat
  BY LenProperties DEF Bytes
<1>2. \A i \in 1..Len(a) : a[i] = b[i]
  <2> SUFFICES ASSUME NEW i \in 1..Len(a) PROVE a[i] = b[i]
    OBVIOUS
  <2>1. (a \o x)[i] = a[i]
    BY <1>1, ConcatProperties DEF Bytes
  <2>2. (b \o y)[i] = b[i]
    BY <1>1, ConcatProperties DEF Bytes
  <2> QED
    BY <2>1, <2>2
<1>3. a = b
  BY <1>2, SeqEqual DEF Bytes
<1>4. a \o x = a \o y
  BY <1>3
<1>5. x = y
  BY <1>4, ConcatSimplifications DEF Bytes
<1> QED
  BY <1>3, <1>5

LEMMA PrefixOf ==
    ASSUME NEW a \in Bytes, NEW x \in Bytes
    PROVE  IsPrefix(a, a \o x)
<1>1. Len(a) \in Nat /\ Len(x) \in Nat /\ Len(a \o x) = Len(a) + Len(x)
  BY LenProperties, ConcatProperties DEF Bytes
<1>2. SubSeq(a \o x, 1, Len(a)) = SubSeq(a, 1, Len(a))
  <2>1. CASE a = <<>>
    <3>1. SubSeq(a, 1, Len(a)) = <<>> /\ SubSeq(a \o x, 1, Len(a)) = <<>>
      BY <2>1, SubSeqEmpty
    <3> QED
      BY <3>1
  <2>2. CASE a # <<>>
    <3>1. 1 \in 1..Len(a) /\ Len(a) \in 1..Len(a)
      BY <2>2, EmptySeq DEF Bytes
    <3> QED
      BY <3>1, SubSeqOfConcat1 DEF Bytes
  <2> QED
    BY <2>1, <2>2
<1> QED
  BY <1>1, <1>2 DEF IsPrefix

-----------------------------------------------------------------------------
(***************************************************************************)
(* What the filter does to what it holds.                                  *)
(***************************************************************************)
LEMMA MessageIs ==
    ASSUME NEW packets \in Seq(Payload), NEW n \in Nat, n < Len(packets)
    PROVE  /\ packets[n + 1] \in Bytes /\ Len(packets[n + 1]) \in 1..MaxSize
           /\ Len(packets[n + 1]) \in Nat \ {0}
           /\ Framed(packets[n + 1]) \in Bytes
           /\ Tails(packets)[n + 2] \in Bytes
<1>1. n + 1 \in 1..Len(packets) /\ n + 2 \in 1..Len(packets) + 1
  BY LenProperties
<1>2. packets[n + 1] \in Payload
  BY <1>1, ElementOfSeq
<1>3. Tails(packets)[n + 2] \in Bytes
  BY <1>1, TailsIs
<1>4. packets[n + 1] \in Bytes /\ Len(packets[n + 1]) \in 1..MaxSize
  BY <1>2 DEF Payload
<1>5. Len(packets[n + 1]) \in Nat \ {0}
  BY <1>4, PacketAssumption
<1>6. Framed(packets[n + 1]) \in Bytes
  BY <1>4, FramedIs
<1> QED
  BY <1>3, <1>4, <1>5, <1>6

LEMMA UnreadIs ==
    ASSUME NEW packets \in Seq(Payload), NEW f, NEW text, NEW n \in Nat, n < Len(packets)
    PROVE  UnreadOf(packets, f, text, n)
             = (IF f.size = 0 THEN Framed(packets[n + 1])
                ELSE SubSeq(packets[n + 1], Len(text) + 1, Len(packets[n + 1])))
                  \o Tails(packets)[n + 2]
<1>1. n # Len(packets)
  BY LenProperties
<1> QED
  BY <1>1 DEF UnreadOf

\* The end of what is to be read is where the packets end.
LEMMA UnreadEnds ==
    ASSUME NEW packets \in Seq(Payload), NEW n \in Nat, n <= Len(packets),
           NEW f, f.size = 0
    PROVE  UnreadOf(packets, f, <<>>, n) = Tails(packets)[n + 1]
<1>0. Len(packets) \in Nat
  BY LenProperties
<1>1. CASE n = Len(packets)
  BY <1>1, TailsIs DEF UnreadOf
<1>2. CASE n # Len(packets)
  <2>1. n + 1 \in 1..Len(packets) /\ (n + 1) + 1 = n + 2
    BY <1>0, <1>2
  <2>2. Tails(packets)[n + 1] = Framed(packets[n + 1]) \o Tails(packets)[n + 2]
    BY <2>1, TailsIs
  <2> QED
    BY <2>2, <1>2 DEF UnreadOf
<1> QED
  BY <1>1, <1>2

\* readPacketSize takes the header, which says how long the message is.
LEMMA SizeIsRead ==
    ASSUME NEW packets \in Seq(Payload), NEW f \in FilterType, NEW text \in Bytes,
           NEW n \in Nat, n <= Len(packets), NEW rest \in Bytes,
           Holds(packets, f, text, n, rest)
    PROVE  /\ ReadPacketSize(f) \in FilterType
           /\ ReadPacketSize(f).inputShutdown = f.inputShutdown
           /\ Holds(packets, ReadPacketSize(f), text, n, rest)
           /\ HeaderIsRead(ReadPacketSize(f))
<1>0. /\ f.size \in 0..MaxSize /\ f.buffer \in Bytes /\ f.inputShutdown \in BOOLEAN
      /\ Len(f.buffer) \in Nat /\ Header \in Nat \ {0} /\ Len(rest) \in Nat
  BY LenProperties, PacketAssumption DEF FilterType, Bytes
<1>1. CASE ~(f.size = 0 /\ Len(f.buffer) >= Header)
  <2>1. ReadPacketSize(f) = f /\ HeaderIsRead(f)
    BY <1>0, <1>1 DEF ReadPacketSize, HeaderIsRead
  <2> QED
    BY <2>1
<1>2. CASE f.size = 0 /\ Len(f.buffer) >= Header
  <2> DEFINE message == packets[n + 1]
             front == SubSeq(f.buffer, 1, Header)
             back == SubSeq(f.buffer, Header + 1, Len(f.buffer))
             later == Tails(packets)[n + 2]
             g == ReadPacketSize(f)
  <2>1. text = <<>> /\ f.buffer \o rest = UnreadOf(packets, f, text, n)
    BY <1>2 DEF Holds, MessageFits
  <2>2. n < Len(packets)
    <3> SUFFICES ASSUME n = Len(packets) PROVE FALSE
      BY LenProperties
    <3>1. f.buffer \o rest = <<>>
      BY <2>1 DEF UnreadOf
    <3>2. Len(f.buffer \o rest) = Len(f.buffer) + Len(rest)
      BY <1>0, ConcatProperties DEF Bytes
    <3>3. Len(f.buffer \o rest) = 0
      BY <3>1
    <3> QED
      BY <1>0, <1>2, <3>2, <3>3
  <2>3. /\ message \in Bytes /\ Len(message) \in 1..MaxSize /\ Len(message) \in Nat \ {0}
        /\ later \in Bytes
    BY <2>2, MessageIs
  <2>4. /\ front \in Bytes /\ Len(front) = Header /\ back \in Bytes
        /\ f.buffer = front \o back
    <3>1. Header \in 0..Len(f.buffer)
      BY <1>0, <1>2
    <3>2. IsCut(f.buffer, Header, front, back)
      BY <1>0, <3>1, Cut
    <3> HIDE DEF front, back
    <3> QED
      BY <3>2 DEF IsCut
  <2>5. f.buffer \o rest = Framed(message) \o later
    <3>1. UnreadOf(packets, f, text, n) = Framed(message) \o later
      BY <2>2, <1>2, UnreadIs
    <3> QED
      BY <2>1, <3>1
  <2>6. g = [f EXCEPT !.size = Decoded(front), !.buffer = back]
    BY <1>2 DEF ReadPacketSize
  <2> HIDE DEF front, back, later, message, g
  <2>7. Encoded(Len(message)) \in Bytes /\ Len(Encoded(Len(message))) = Header
    BY <2>3, EncodedIs
  <2>8. f.buffer \o rest = front \o (back \o rest) /\ back \o rest \in Bytes
    <3>0. front \in Bytes /\ back \in Bytes /\ rest \in Bytes
      BY <2>4
    <3>1. (front \o back) \o rest = front \o (back \o rest)
      BY <3>0, Associative
    <3>2. back \o rest \in Bytes
      BY <3>0, Joined
    <3> QED
      BY <2>4, <3>1, <3>2
  <2>9. /\ Framed(message) \o later = Encoded(Len(message)) \o (message \o later)
        /\ message \o later \in Bytes
    <3>1. (Encoded(Len(message)) \o message) \o later
             = Encoded(Len(message)) \o (message \o later)
      BY <2>3, <2>7, Associative
    <3>2. message \o later \in Bytes
      BY <2>3, Joined
    <3> QED
      BY <3>1, <3>2 DEF Framed
  <2>10. front = Encoded(Len(message)) /\ back \o rest = message \o later
    <3>1. front \o (back \o rest) = Encoded(Len(message)) \o (message \o later)
      BY <2>5, <2>8, <2>9
    <3> QED
      <4>1. Len(front) = Len(Encoded(Len(message)))
        BY <2>4, <2>7
      <4> DEFINE encoded == Encoded(Len(message))
                 x == back \o rest
                 y == message \o later
      <4>2. /\ front \in Bytes /\ encoded \in Bytes /\ x \in Bytes /\ y \in Bytes
            /\ Len(front) = Len(encoded) /\ front \o x = encoded \o y
        BY <2>4, <2>7, <2>8, <2>9, <3>1, <4>1
      <4> HIDE DEF encoded, x, y
      <4>3. front = encoded /\ x = y
        BY <4>2, Cancel
      <4> QED
        BY <4>3 DEF encoded, x, y
  <2>11. Decoded(front) = Len(message)
    <3>1. Len(message) \in 0..MaxSize
      BY <2>3
    <3> QED
      BY <2>10, <3>1, DecodedIsLength
  <2>12. g.size = Len(message) /\ g.buffer = back /\ g.inputShutdown = f.inputShutdown
    BY <2>6, <2>11 DEF FilterType
  <2>13. g \in FilterType
    <3>1. Len(message) \in 0..MaxSize
      BY <2>3
    <3> QED
      BY <2>4, <2>6, <2>11, <3>1 DEF FilterType
  <2>14. SubSeq(message, Len(text) + 1, Len(message)) = message
    BY <2>1, <2>3, SubSeqFull DEF Bytes
  <2>15. UnreadOf(packets, g, text, n) = message \o later
    <3>1. g.size # 0
      BY <2>3, <2>12
    <3>2. UnreadOf(packets, g, text, n) = SubSeq(message, Len(text) + 1, Len(message)) \o later
      BY <2>2, <3>1, UnreadIs DEF message, later
    <3> QED
      BY <2>14, <3>2
  <2>16. MessageFits(packets, g, text, n)
    BY <2>1, <2>2, <2>3, <2>12 DEF MessageFits, Begun, message
  <2>17. Holds(packets, g, text, n, rest)
    BY <2>10, <2>12, <2>15, <2>16 DEF Holds
  <2>18. HeaderIsRead(g)
    BY <2>3, <2>12 DEF HeaderIsRead
  <2> QED
    BY <2>12, <2>13, <2>17, <2>18 DEF g
<1> QED
  BY <1>1, <1>2

\* n bytes of a message go from the filter to the reader.
LEMMA BytesArePopped ==
    ASSUME NEW packets \in Seq(Payload), NEW f \in FilterType, NEW text \in Bytes,
           NEW d \in Nat, d < Len(packets), NEW rest \in Bytes,
           Holds(packets, f, text, d, rest),
           IsReady(f), NEW n \in 1..f.size
    PROVE  LET message == packets[d + 1]
               more == text \o SubSeq(f.buffer, 1, n)
               g == PopOnly(f, n)
           IN  /\ g \in FilterType /\ g.inputShutdown = f.inputShutdown
               /\ g.size = f.size - n
               /\ more \in Bytes /\ Len(more) = Len(text) + n
               /\ Len(more) <= Len(message)
               /\ g.size = 0 <=> Len(more) = Len(message)
               /\ g.size # 0 => Holds(packets, g, more, d, rest)
               /\ g.size = 0 => more = message /\ Holds(packets, g, <<>>, d + 1, rest)
<1> DEFINE message == packets[d + 1]
           front == SubSeq(f.buffer, 1, n)
           back == SubSeq(f.buffer, n + 1, Len(f.buffer))
           more == text \o front
           later == Tails(packets)[d + 2]
           left == SubSeq(message, Len(text) + 1, Len(message))
           g == PopOnly(f, n)
<1>0. /\ f.size \in 0..MaxSize /\ f.buffer \in Bytes /\ f.inputShutdown \in BOOLEAN
      /\ f.size # 0 /\ f.size \in Nat /\ Len(f.buffer) >= f.size
      /\ Len(f.buffer) \in Nat /\ n \in 1..f.size /\ n \in 0..Len(f.buffer) /\ n \in Nat \ {0}
      /\ Len(text) \in Nat /\ rest \in Bytes /\ text \in Bytes
  BY LenProperties, PacketAssumption DEF FilterType, Bytes, IsReady
<1>n. /\ f.size \in Nat \ {0} /\ n \in 1..f.size /\ n \in Nat \ {0} /\ Len(text) \in Nat
      /\ n \in 0..Len(f.buffer)
  BY <1>0
<1>b. f.buffer \in Bytes /\ rest \in Bytes /\ text \in Bytes
  BY <1>0
<1>1. /\ message \in Bytes /\ Len(message) \in 1..MaxSize /\ Len(message) \in Nat \ {0}
      /\ later \in Bytes
  BY MessageIs
<1>2. /\ front \in Bytes /\ Len(front) = n /\ back \in Bytes /\ f.buffer = front \o back
      /\ \A i \in 1..n : front[i] = f.buffer[i]
  <2>1. IsCut(f.buffer, n, front, back)
    BY <1>n, <1>b, Cut
  <2> HIDE DEF front, back
  <2> QED
    BY <2>1 DEF IsCut
<1>s. f.size + Len(text) = Len(message)
  BY <1>0 DEF Holds, MessageFits, Begun
<1>3. /\ \A i \in 1..Len(text) : text[i] = message[i]
      /\ f.buffer \o rest = UnreadOf(packets, f, text, d)
  BY <1>0 DEF Holds, MessageFits, Begun
<1>4. UnreadOf(packets, f, text, d) = left \o later
  BY <1>0, UnreadIs
<1>5. /\ left \in Bytes /\ Len(left) = f.size
      /\ \A i \in 1..f.size : left[i] = message[Len(text) + i]
  <2>1. Len(text) \in 0..Len(message) /\ Len(message) - Len(text) = f.size
    BY <1>n, <1>s
  <2>2. message \in Bytes
    BY <1>1
  <2> HIDE DEF message
  <2>3. IsCut(message, Len(text), SubSeq(message, 1, Len(text)), left)
    BY <2>1, <2>2, Cut
  <2> HIDE DEF left
  <2> QED
    BY <2>1, <2>3 DEF IsCut
<1>6. g = [f EXCEPT !.size = f.size - n, !.buffer = back]
  BY DEF PopOnly
<1>7. g \in FilterType /\ g.size = f.size - n /\ g.buffer = back
      /\ g.inputShutdown = f.inputShutdown
  <2>1. f.size - n \in 0..MaxSize
    BY <1>0, PacketAssumption
  <2> HIDE DEF back, g
  <2> QED
    BY <1>2, <1>6, <2>1 DEF FilterType
<1> HIDE DEF front, back, later, message, left, g, more
<1>8. /\ more \in Bytes /\ Len(more) = Len(text) + n
      /\ \A i \in 1..Len(text) + n :
            more[i] = IF i <= Len(text) THEN text[i] ELSE front[i - Len(text)]
  <2>1. text \in Bytes /\ front \in Bytes /\ Len(front) = n
    BY <1>b, <1>2
  <2> QED
    BY <2>1, ConcatProperties DEF Bytes, more
<1> DEFINE front2 == SubSeq(left, 1, n)
           back2 == SubSeq(left, n + 1, Len(left))
<1>9. /\ front2 \in Bytes /\ Len(front2) = n /\ back2 \in Bytes /\ left = front2 \o back2
      /\ Len(back2) = f.size - n
      /\ \A i \in 1..n : front2[i] = left[i]
      /\ \A i \in 1..f.size - n : back2[i] = left[n + i]
  <2>1. n \in 0..Len(left) /\ left \in Bytes /\ Len(left) = f.size
    BY <1>n, <1>5
  <2>2. IsCut(left, n, front2, back2)
    BY <2>1, Cut
  <2> HIDE DEF front2, back2
  <2> QED
    BY <2>1, <2>2 DEF IsCut
<1> HIDE DEF front2, back2
<1>10. front = front2 /\ back \o rest = back2 \o later
  <2>a. /\ front \in Bytes /\ back \in Bytes /\ rest \in Bytes
        /\ front2 \in Bytes /\ back2 \in Bytes /\ later \in Bytes
    BY <1>b, <1>1, <1>2, <1>9
  <2>1. (front \o back) \o rest = front \o (back \o rest)
    <3>1. front \in Bytes /\ back \in Bytes /\ rest \in Bytes
      BY <2>a
    <3> QED
      BY <3>1, Associative
  <2>2. (front2 \o back2) \o later = front2 \o (back2 \o later)
    <3>1. front2 \in Bytes /\ back2 \in Bytes /\ later \in Bytes
      BY <2>a
    <3> QED
      BY <3>1, Associative
  <2>b. back \o rest \in Bytes /\ back2 \o later \in Bytes
    BY <2>a, Joined
  <2> DEFINE x == back \o rest
             y == back2 \o later
  <2>3. /\ front \in Bytes /\ front2 \in Bytes /\ x \in Bytes /\ y \in Bytes
        /\ Len(front) = Len(front2) /\ front \o x = front2 \o y
    BY <1>2, <1>3, <1>4, <1>9, <2>1, <2>2, <2>b
  <2> HIDE DEF x, y
  <2>4. front = front2 /\ x = y
    BY <2>3, Cancel
  <2> QED
    BY <2>4 DEF x, y
<1>11. \A i \in 1..Len(more) : more[i] = message[i]
  <2> SUFFICES ASSUME NEW i \in 1..Len(text) + n PROVE more[i] = message[i]
    BY <1>8
  <2>1. CASE i <= Len(text)
    <3>1. i \in 1..Len(text)
      BY <2>1, <1>0
    <3> QED
      BY <2>1, <3>1, <1>3, <1>8
  <2>2. CASE ~(i <= Len(text))
    <3>1. i - Len(text) \in 1..n /\ i - Len(text) \in 1..f.size /\ Len(text) + (i - Len(text)) = i
      BY <2>2, <1>0
    <3>2. more[i] = front2[i - Len(text)]
      BY <2>2, <1>8, <1>10
    <3>3. front2[i - Len(text)] = left[i - Len(text)]
      BY <3>1, <1>9
    <3>4. left[i - Len(text)] = message[i]
      BY <3>1, <1>5
    <3> QED
      BY <3>2, <3>3, <3>4
  <2> QED
    BY <2>1, <2>2
<1>12. Len(more) <= Len(message) /\ (g.size = 0 <=> Len(more) = Len(message))
  BY <1>n, <1>1, <1>s, <1>7, <1>8
<1>13. ASSUME g.size # 0 PROVE Holds(packets, g, more, d, rest)
  <2>1. MessageFits(packets, g, more, d)
    <3>1. g.size + Len(more) = Len(message)
      BY <1>n, <1>1, <1>s, <1>7, <1>8
    <3> QED
      BY <3>1, <1>11, <1>13 DEF MessageFits, Begun, message
  <2>2. back2 = SubSeq(message, Len(more) + 1, Len(message))
    <3> DEFINE other == SubSeq(message, Len(more) + 1, Len(message))
    <3>1. Len(more) \in 0..Len(message) /\ Len(message) - Len(more) = f.size - n
      BY <1>n, <1>1, <1>s, <1>8, <1>12
    <3>2. /\ other \in Bytes /\ Len(other) = f.size - n
          /\ \A i \in 1..f.size - n : other[i] = message[Len(more) + i]
      <4>1. message \in Bytes
        BY <1>1
      <4>2. IsCut(message, Len(more), SubSeq(message, 1, Len(more)), other)
        BY <3>1, <4>1, Cut
      <4> HIDE DEF other
      <4> QED
        BY <3>1, <4>2 DEF IsCut
    <3> HIDE DEF other
    <3>3. ASSUME NEW i \in 1..f.size - n PROVE back2[i] = other[i]
      <4>1. n + i \in 1..f.size /\ Len(text) + (n + i) = Len(more) + i
        BY <1>0, <1>8
      <4>2. back2[i] = left[n + i] /\ left[n + i] = message[Len(text) + (n + i)]
        BY <4>1, <1>5, <1>9
      <4> QED
        BY <3>2, <4>1, <4>2
    <3>4. back2 = other
      BY <1>9, <3>2, <3>3, SeqEqual DEF Bytes
    <3> QED
      BY <3>4 DEF other
  <2>3. UnreadOf(packets, g, more, d) = back2 \o later
    BY <2>2, <1>13, UnreadIs DEF message, later
  <2> QED
    BY <2>1, <2>3, <1>7, <1>10 DEF Holds
<1>14. ASSUME g.size = 0 PROVE more = message /\ Holds(packets, g, <<>>, d + 1, rest)
  <2>1. more = message
    <3>1. Len(more) = Len(message)
      BY <1>12, <1>14
    <3> QED
      BY <3>1, <1>1, <1>8, <1>11, SeqEqual DEF Bytes
  <2>2. back2 = <<>>
    <3>1. Len(back2) = 0
      BY <1>7, <1>9, <1>14
    <3> QED
      BY <3>1, <1>9, EmptySeq DEF Bytes
  <2>3. back \o rest = later
    BY <2>2, <1>1, <1>10, ConcatEmptySeq DEF Bytes
  <2>4. d + 1 \in Nat /\ d + 1 <= Len(packets) /\ (d + 1) + 1 = d + 2
    BY LenProperties
  <2>5. UnreadOf(packets, g, <<>>, d + 1) = later
    BY <2>4, <1>14, UnreadEnds DEF later
  <2>6. MessageFits(packets, g, <<>>, d + 1)
    BY <1>14 DEF MessageFits
  <2> QED
    BY <2>1, <2>3, <2>5, <2>6, <1>7 DEF Holds
<1>15. more = text \o SubSeq(f.buffer, 1, n) /\ g = PopOnly(f, n) /\ message = packets[d + 1]
  BY DEF more, front, g, message
<1> QED
  BY <1>7, <1>8, <1>12, <1>13, <1>14, <1>15

\* What is written comes behind what was not read yet.
LEMMA UnreadGrows ==
    ASSUME NEW packets \in Seq(Payload), NEW payload \in Payload, NEW f, NEW text \in Bytes,
           NEW d \in Nat, d <= Len(packets), MessageFits(packets, f, text, d)
    PROVE  /\ MessageFits(Append(packets, payload), f, text, d)
           /\ UnreadOf(Append(packets, payload), f, text, d)
                = UnreadOf(packets, f, text, d) \o Framed(payload)
<1> DEFINE more == Append(packets, payload)
           frame == Framed(payload)
<1>0. /\ more \in Seq(Payload) /\ Len(more) = Len(packets) + 1
      /\ more[Len(packets) + 1] = payload
      /\ \A i \in 1..Len(packets) : more[i] = packets[i]
      /\ Len(packets) \in Nat
  BY AppendProperties, LenProperties
<1>1. payload \in Bytes /\ frame \in Bytes
  BY FramedIs DEF Payload
<1>2. d < Len(more) /\ d + 1 \in 1..Len(more)
  BY <1>0
<1>3. d < Len(packets) => d + 1 \in 1..Len(packets) /\ more[d + 1] = packets[d + 1]
  BY <1>0
<1>t. d < Len(packets) => Tails(more)[d + 2] = Tails(packets)[d + 2] \o frame
  <2> SUFFICES ASSUME d < Len(packets)
               PROVE  Tails(more)[d + 2] = Tails(packets)[d + 2] \o frame
    OBVIOUS
  <2>1. d + 2 \in 1..Len(packets) + 1
    BY <1>0
  <2> QED
    BY <2>1, TailsAppend
<1>e. Tails(more)[Len(packets) + 2] = <<>>
  <2>1. Tails(more)[Len(more) + 1] = <<>> /\ Len(more) + 1 = Len(packets) + 2
    <3>1. more \in Seq(Payload)
      BY <1>0
    <3>2. Len(more) + 1 = Len(packets) + 2
      BY <1>0
    <3> HIDE DEF more
    <3> QED
      BY <3>1, <3>2, TailsIs
  <2> QED
    BY <2>1
<1> HIDE DEF more, frame
<1>4. MessageFits(more, f, text, d)
  BY <1>2, <1>3 DEF MessageFits
<1> DEFINE begin == IF f.size = 0 THEN Framed(more[d + 1])
                    ELSE SubSeq(more[d + 1], Len(text) + 1, Len(more[d + 1]))
<1>5. UnreadOf(more, f, text, d) = begin \o Tails(more)[d + 2]
  <2>1. more \in Seq(Payload) /\ d \in Nat /\ d < Len(more)
    BY <1>0, <1>2
  <2> QED
    BY <2>1, UnreadIs
<1>6. CASE d < Len(packets)
  <2>1. UnreadOf(packets, f, text, d) = begin \o Tails(packets)[d + 2]
    BY <1>3, <1>6, UnreadIs
  <2>2. /\ packets[d + 1] \in Bytes /\ Framed(packets[d + 1]) \in Bytes
        /\ Tails(packets)[d + 2] \in Bytes /\ Len(packets[d + 1]) \in Nat
    BY <1>6, MessageIs
  <2>3. begin \in Bytes
    <3>1. CASE f.size = 0
      BY <3>1, <2>2, <1>3, <1>6
    <3>2. CASE f.size # 0
      <4>1. f.size + Len(text) = Len(packets[d + 1])
        BY <3>2 DEF MessageFits, Begun
      <4>2. \A i \in Len(text) + 1..Len(packets[d + 1]) : packets[d + 1][i] \in Nat
        <5>1. Len(text) \in Nat /\ \A i \in 1..Len(packets[d + 1]) : packets[d + 1][i] \in Nat
          BY <2>2, LenProperties, ElementOfSeq DEF Bytes
        <5> QED
          BY <5>1, <2>2
      <4>3. SubSeq(packets[d + 1], Len(text) + 1, Len(packets[d + 1])) \in Bytes
        <5>1. Len(text) + 1 \in Int /\ Len(packets[d + 1]) \in Int
          BY <2>2, LenProperties DEF Bytes
        <5> QED
          BY <4>2, <5>1, SubSeqProperties DEF Bytes
      <4> QED
        BY <3>2, <4>3, <1>3, <1>6
    <3> QED
      BY <3>1, <3>2
  <2> HIDE DEF begin
  <2>4. begin \o (Tails(packets)[d + 2] \o frame) = (begin \o Tails(packets)[d + 2]) \o frame
    <3>1. begin \in Bytes /\ Tails(packets)[d + 2] \in Bytes /\ frame \in Bytes
      BY <2>2, <2>3, <1>1
    <3> QED
      BY <3>1, Associative
  <2>5. UnreadOf(more, f, text, d) = UnreadOf(packets, f, text, d) \o frame
    BY <2>1, <2>4, <1>5, <1>6, <1>t
  <2> QED
    BY <2>5, <1>4 DEF more, frame
<1>7. CASE d = Len(packets)
  <2>1. f.size = 0 /\ UnreadOf(packets, f, text, d) = <<>>
    BY <1>7, <1>0 DEF MessageFits, UnreadOf
  <2>2. begin = frame
    BY <2>1, <1>0, <1>7 DEF frame
  <2>3. frame \o <<>> = <<>> \o frame
    BY <1>1, ConcatEmptySeq DEF Bytes
  <2>4. UnreadOf(more, f, text, d) = UnreadOf(packets, f, text, d) \o frame
    BY <2>1, <2>2, <2>3, <1>5, <1>7, <1>e
  <2> QED
    BY <2>4, <1>4 DEF more, frame
<1> QED
  BY <1>0, <1>6, <1>7

-----------------------------------------------------------------------------
(***************************************************************************)
(* The events that are queued.                                             *)
(***************************************************************************)
LEMMA JoinEvents ==
    ASSUME NEW queue \in Seq(EventNames), NEW more \in Seq(EventNames)
    PROVE  /\ queue \o more \in Seq(EventNames)
           /\ \A e : Has(queue \o more, e) <=> Has(queue, e) \/ Has(more, e)
           /\ AheadOfEnd(queue) => AheadOfEnd(queue \o more)
           /\ AheadOfEnd(more) /\ ~Has(queue, "socketShutdown") => AheadOfEnd(queue \o more)
<1> DEFINE all == queue \o more
           N == Len(queue)
           M == Len(more)
<1>1. N \in Nat /\ M \in Nat /\ DOMAIN queue = 1..N /\ DOMAIN more = 1..M
  BY LenProperties
<1>2. /\ all \in Seq(EventNames) /\ Len(all) = N + M
      /\ \A i \in 1..N + M : all[i] = IF i <= N THEN queue[i] ELSE more[i - N]
  BY ConcatProperties
<1> HIDE DEF all, N, M
<1>3. DOMAIN all = 1..N + M
  BY <1>2, LenProperties
<1>4. \A i \in 1..N : i \in 1..N + M /\ all[i] = queue[i]
  BY <1>1, <1>2
<1>5. \A i \in 1..M : N + i \in 1..N + M /\ all[N + i] = more[i]
  <2> SUFFICES ASSUME NEW i \in 1..M PROVE N + i \in 1..N + M /\ all[N + i] = more[i]
    OBVIOUS
  <2>1. N + i \in 1..N + M /\ ~(N + i <= N) /\ (N + i) - N = i
    BY <1>1
  <2> QED
    BY <2>1, <1>2
<1>6. \A i \in 1..N + M : i \in 1..N \/ \E k \in 1..M : i = N + k
  <2> SUFFICES ASSUME NEW i \in 1..N + M, i \notin 1..N PROVE \E k \in 1..M : i = N + k
    OBVIOUS
  <2>1. i - N \in 1..M /\ i = N + (i - N)
    BY <1>1
  <2> QED
    BY <2>1
<1>7. ASSUME NEW e PROVE Has(all, e) <=> Has(queue, e) \/ Has(more, e)
  <2>1. ASSUME Has(queue, e) PROVE Has(all, e)
    BY <2>1, <1>1, <1>3, <1>4 DEF Has
  <2>2. ASSUME Has(more, e) PROVE Has(all, e)
    BY <2>2, <1>1, <1>3, <1>5 DEF Has
  <2>3. ASSUME Has(all, e) PROVE Has(queue, e) \/ Has(more, e)
    <3>1. PICK i \in 1..N + M : all[i] = e
      BY <2>3, <1>3 DEF Has
    <3>2. CASE i \in 1..N
      BY <3>1, <3>2, <1>1, <1>4 DEF Has
    <3>3. CASE i \notin 1..N
      <4>1. PICK k \in 1..M : i = N + k
        BY <3>3, <1>6
      <4> QED
        BY <3>1, <4>1, <1>1, <1>5 DEF Has
    <3> QED
      BY <3>2, <3>3
  <2> QED
    BY <2>1, <2>2, <2>3
<1>8. ASSUME AheadOfEnd(queue) PROVE AheadOfEnd(all)
  <2>1. PICK i \in 1..N : queue[i] = "socketReady" /\ \A j \in 1..i : queue[j] # "socketShutdown"
    BY <1>8, <1>1 DEF AheadOfEnd
  <2>2. \A j \in 1..i : j \in 1..N
    BY <1>1
  <2> QED
    BY <2>1, <2>2, <1>3, <1>4 DEF AheadOfEnd
<1>9. ASSUME AheadOfEnd(more), ~Has(queue, "socketShutdown") PROVE AheadOfEnd(all)
  <2>1. PICK i \in 1..M : more[i] = "socketReady" /\ \A j \in 1..i : more[j] # "socketShutdown"
    BY <1>9, <1>1 DEF AheadOfEnd
  <2>2. ASSUME NEW j \in 1..N + i PROVE all[j] # "socketShutdown"
    <3>1. CASE j \in 1..N
      BY <3>1, <1>1, <1>4, <1>9 DEF Has
    <3>2. CASE j \notin 1..N
      <4>1. j - N \in 1..i /\ j - N \in 1..M /\ N + (j - N) = j
        BY <3>2, <1>1
      <4> QED
        BY <4>1, <2>1, <1>5
    <3> QED
      BY <3>1, <3>2
  <2> QED
    BY <2>1, <2>2, <1>3, <1>5 DEF AheadOfEnd
<1> QED
  BY <1>2, <1>7, <1>8, <1>9 DEF all

\* One event and no event.
LEMMA OneEvent ==
    ASSUME NEW event \in EventNames
    PROVE  /\ <<event>> \in Seq(EventNames) /\ <<>> \in Seq(EventNames)
           /\ \A e : ~Has(<<>>, e)
           /\ \A e : Has(<<event>>, e) <=> e = event
           /\ event = "socketReady" => AheadOfEnd(<<event>>)
<1>1. <<event>> \in Seq(EventNames) /\ <<>> \in Seq(EventNames)
  OBVIOUS
<1>2. DOMAIN <<event>> = 1..1 /\ <<event>>[1] = event
  OBVIOUS
<1>3. \A i : i \in 1..1 <=> i = 1
  OBVIOUS
<1>4. \A e : ~Has(<<>>, e)
  BY DEF Has
<1> DEFINE one == <<event>>
<1> HIDE DEF one
<1>5. DOMAIN one = 1..1 /\ one[1] = event
  BY <1>2 DEF one
<1>6. \A e : Has(one, e) <=> e = event
  BY <1>3, <1>5 DEF Has
<1>7. event = "socketReady" => AheadOfEnd(one)
  BY <1>3, <1>5 DEF AheadOfEnd
<1> QED
  BY <1>1, <1>4, <1>6, <1>7 DEF one

LEMMA AppendEvent ==
    ASSUME NEW queue \in Seq(EventNames), NEW event \in EventNames
    PROVE  /\ Append(queue, event) \in Seq(EventNames)
           /\ \A e : Has(Append(queue, event), e) <=> Has(queue, e) \/ e = event
           /\ AheadOfEnd(queue) => AheadOfEnd(Append(queue, event))
           /\ event = "socketReady" /\ ~Has(queue, "socketShutdown")
                => AheadOfEnd(Append(queue, event))
<1>1. Append(queue, event) = queue \o <<event>>
  BY AppendIsConcat
<1> DEFINE one == <<event>>
<1>2. /\ one \in Seq(EventNames) /\ \A e : Has(one, e) <=> e = event
      /\ event = "socketReady" => AheadOfEnd(one)
  BY OneEvent
<1> HIDE DEF one
<1> DEFINE all == queue \o one
<1>3. /\ all \in Seq(EventNames) /\ \A e : Has(all, e) <=> Has(queue, e) \/ Has(one, e)
      /\ AheadOfEnd(queue) => AheadOfEnd(all)
      /\ AheadOfEnd(one) /\ ~Has(queue, "socketShutdown") => AheadOfEnd(all)
  BY <1>2, JoinEvents
<1>4. Append(queue, event) = all
  BY <1>1 DEF one
<1> HIDE DEF all
<1> QED
  BY <1>2, <1>3, <1>4

\* The first event is taken.
LEMMA TakeEvent ==
    ASSUME NEW queue \in Seq(EventNames), queue # <<>>
    PROVE  /\ Tail(queue) \in Seq(EventNames) /\ Head(queue) \in EventNames
           /\ Has(queue, Head(queue))
           /\ \A e : Has(Tail(queue), e) => Has(queue, e)
           /\ \A e : Has(queue, e) /\ Head(queue) # e => Has(Tail(queue), e)
           /\ AheadOfEnd(queue) /\ Head(queue) # "socketReady" => AheadOfEnd(Tail(queue))
           /\ Head(queue) = "socketShutdown" => ~AheadOfEnd(queue)
<1> DEFINE rest == Tail(queue)
           N == Len(queue)
<1>1. /\ rest \in Seq(EventNames) /\ Len(rest) = N - 1
      /\ Head(queue) \in EventNames /\ Head(queue) = queue[1]
      /\ \A i \in 1..N - 1 : rest[i] = queue[i + 1]
  BY HeadTailProperties
<1>2. N \in Nat \ {0} /\ DOMAIN queue = 1..N /\ DOMAIN rest = 1..N - 1
  <2>1. N \in Nat /\ DOMAIN queue = 1..N /\ N # 0
    BY LenProperties, EmptySeq
  <2> QED
    BY <2>1, <1>1, LenProperties
<1> HIDE DEF rest, N
<1>3. 1 \in 1..N /\ \A i \in 1..N - 1 : i + 1 \in 1..N
  BY <1>2
<1>4. \A i \in 1..N : i = 1 \/ (i - 1 \in 1..N - 1 /\ queue[i] = rest[i - 1])
  <2> SUFFICES ASSUME NEW i \in 1..N, i # 1 PROVE i - 1 \in 1..N - 1 /\ queue[i] = rest[i - 1]
    OBVIOUS
  <2>1. i - 1 \in 1..N - 1 /\ (i - 1) + 1 = i
    BY <1>2
  <2> QED
    BY <2>1, <1>1
<1>5. Has(queue, Head(queue))
  BY <1>1, <1>2, <1>3 DEF Has
<1>6. \A e : Has(rest, e) => Has(queue, e)
  BY <1>1, <1>2, <1>3 DEF Has
<1>7. \A e : Has(queue, e) /\ Head(queue) # e => Has(rest, e)
  BY <1>1, <1>2, <1>4 DEF Has
<1>8. ASSUME AheadOfEnd(queue), Head(queue) # "socketReady" PROVE AheadOfEnd(rest)
  <2>1. PICK i \in 1..N : queue[i] = "socketReady" /\ \A j \in 1..i : queue[j] # "socketShutdown"
    BY <1>8, <1>2 DEF AheadOfEnd
  <2>2. i - 1 \in 1..N - 1 /\ rest[i - 1] = "socketReady"
    BY <2>1, <1>1, <1>4, <1>8
  <2>3. ASSUME NEW j \in 1..i - 1 PROVE rest[j] # "socketShutdown"
    <3>1. j \in 1..N - 1 /\ j + 1 \in 1..i
      BY <1>2, <2>2
    <3> QED
      BY <3>1, <2>1, <1>1
  <2> QED
    BY <2>2, <2>3, <1>2 DEF AheadOfEnd
<1>9. ASSUME Head(queue) = "socketShutdown", AheadOfEnd(queue) PROVE FALSE
  <2>1. PICK i \in 1..N : queue[i] = "socketReady" /\ \A j \in 1..i : queue[j] # "socketShutdown"
    BY <1>9, <1>2 DEF AheadOfEnd
  <2>2. 1 \in 1..i
    BY <1>2
  <2> QED
    BY <2>1, <2>2, <1>1, <1>9
<1> QED
  BY <1>1, <1>5, <1>6, <1>7, <1>8, <1>9 DEF rest

-----------------------------------------------------------------------------
(***************************************************************************)
(* The invariant holds at the start and is kept by every action.           *)
(***************************************************************************)
LEMMA NoPacketIs ==
    /\ NoPacket \in FilterType /\ NoPacket.size = 0 /\ NoPacket.buffer = <<>>
    /\ NoPacket.inputShutdown = FALSE /\ ~IsReady(NoPacket) /\ HeaderIsRead(NoPacket)
<1>1. Header \in Nat \ {0} /\ MaxSize \in Nat /\ 0 \in 0..MaxSize
  BY PacketAssumption
<1>2. <<>> \in Bytes /\ Len(<<>>) = 0
  BY EmptySeq DEF Bytes
<1> QED
  BY <1>1, <1>2 DEF NoPacket, FilterType, IsReady, HeaderIsRead

LEMMA Empty == <<>> \in Bytes /\ \A s \in Bytes : s \o <<>> = s /\ <<>> \o s = s
BY EmptySeq, ConcatEmptySeq DEF Bytes

LEMMA InvInit == PacketInit => PInv
<1> SUFFICES ASSUME PacketInit PROVE PInv
  OBVIOUS
<1> USE DEF PacketInit
<1>1. /\ <<>> \in Bytes /\ <<>> \in Seq(Payload) /\ <<>> \in Seq(EventNames) /\ <<>> \in Seq(Bytes)
      /\ Len(<<>>) = 0 /\ \A e : ~Has(<<>>, e)
  BY Empty DEF Has
<1>2. NoPacket \in FilterType /\ NoPacket.size = 0 /\ NoPacket.buffer = <<>>
      /\ NoPacket.inputShutdown = FALSE /\ ~IsReady(NoPacket) /\ HeaderIsRead(NoPacket)
  BY NoPacketIs
<1>3. FilterTypes
  <2>1. NetTypes
    <3>1. sent = <<>> /\ wire = <<>> /\ Len(sent) <= MaxPackets
      BY <1>1, PacketAssumption
    <3>2. sent \in Seq(Payload) /\ wire \in Bytes
      BY <3>1, <1>1
    <3>3. side \in {"server", "client"} /\ over \in {"up", "closed", "cut"} /\ ended \in BOOLEAN
      OBVIOUS
    <3> QED
      BY <3>1, <3>2, <3>3 DEF NetTypes
  <2>2. MainTypes
    BY <1>1, <1>2 DEF MainTypes
  <2>3. ReaderTypes
    BY <1>1 DEF ReaderTypes
  <2> QED
    BY <2>1, <2>2, <2>3 DEF FilterTypes
<1>4. DeliveredFits
  BY <1>1 DEF DeliveredFits
<1>5. BytesFit
  <2>1. Holds(<<>>, NoPacket, <<>>, 0, <<>>)
    <3>1. NoPacket.buffer \o <<>> = <<>>
      BY <1>2, Empty
    <3> QED
      BY <3>1, <1>1, <1>2 DEF Holds, MessageFits, UnreadOf
  <2>2. tcp \o (wire \o <<>>) = <<>> /\ sent = <<>> /\ filter = NoPacket /\ current = <<>>
        /\ Len(delivered) = 0
    BY <1>1, Empty
  <2>3. Holds(sent, filter, current, Len(delivered), tcp \o (wire \o <<>>))
    BY <2>1, <2>2
  <2> QED
    BY <2>3, <1>1 DEF BytesFit
<1>6. EndFits
  BY <1>1, <1>2 DEF EndFits
<1>7. InputFirst /\ ReadyFits /\ ClosedFits
  BY <1>2 DEF InputFirst, ReadyFits, ClosedFits, Open
<1>z. StalledFits
  BY <1>1, <1>2 DEF StalledFits
<1> QED
  BY <1>3, <1>4, <1>5, <1>6, <1>7, <1>z DEF PInv

\* The peer writes a packet.
LEMMA WriteKeeps ==
    ASSUME PInv, Write PROVE PInv'
<1>0. FilterTypes /\ DeliveredFits /\ BytesFit /\ EndFits /\ InputFirst /\ ReadyFits /\ ClosedFits
      /\ StalledFits
  BY DEF PInv
<1>1. /\ over = "up" /\ Len(sent) < MaxPackets
      /\ side' = side /\ over' = over /\ ended' = ended /\ tcp' = tcp /\ events' = events
      /\ filter' = filter /\ main' = main /\ wasReady' = wasReady
      /\ reader' = reader /\ current' = current /\ delivered' = delivered /\ stalled' = stalled
  BY DEF Write, readVars
<1>2. PICK size \in 1..MaxSize : LET payload == [i \in 1..size |-> Len(sent) + 1] IN
         sent' = Append(sent, payload) /\ wire' = wire \o Framed(payload)
  BY DEF Write
<1> DEFINE payload == [i \in 1..size |-> Len(sent) + 1]
<1>t. /\ sent \in Seq(Payload) /\ wire \in Bytes /\ tcp \in Bytes /\ filter \in FilterType
      /\ current \in Bytes /\ delivered \in Seq(Bytes)
  BY <1>0 DEF FilterTypes, NetTypes, MainTypes, ReaderTypes
<1>n. Len(sent) \in Nat /\ Len(delivered) \in Nat /\ MaxPackets \in Nat
  BY <1>t, LenProperties, PacketAssumption
<1>3. payload \in Payload
  <2>1. size \in Nat /\ Len(sent) + 1 \in Nat
    BY <1>n, PacketAssumption
  <2>2. payload \in Seq(Nat) /\ Len(payload) = size
    BY <2>1
  <2> HIDE DEF payload
  <2> QED
    BY <2>2 DEF Payload, Bytes
<1> HIDE DEF payload
<1>4. sent' = Append(sent, payload) /\ wire' = wire \o Framed(payload)
  BY <1>2 DEF payload
<1>5. /\ sent' \in Seq(Payload) /\ Len(sent') = Len(sent) + 1
      /\ \A i \in 1..Len(sent) : sent'[i] = sent[i]
  BY <1>3, <1>4, <1>t, AppendProperties
<1>6. Framed(payload) \in Bytes
  BY <1>3, FramedIs DEF Payload
<1>7. wire' \in Bytes
  BY <1>4, <1>6, <1>t, Joined
<1>8. FilterTypes'
  <2>1. NetTypes'
    BY <1>0, <1>1, <1>5, <1>7, <1>n DEF FilterTypes, NetTypes
  <2>2. MainTypes' /\ ReaderTypes'
    BY <1>0, <1>1 DEF FilterTypes, MainTypes, ReaderTypes
  <2> QED
    BY <2>1, <2>2 DEF FilterTypes
<1>9. DeliveredFits'
  <2>1. Len(delivered) <= Len(sent) /\ \A i \in 1..Len(delivered) : delivered[i] = sent[i]
    BY <1>0 DEF DeliveredFits
  <2>2. \A i \in 1..Len(delivered) : delivered[i] = sent'[i]
    BY <2>1, <1>5, <1>n
  <2>3. Len(delivered) <= Len(sent')
    BY <2>1, <1>5, <1>n
  <2> QED
    BY <2>2, <2>3, <1>0, <1>1 DEF DeliveredFits
<1>10. BytesFit'
  <2> SUFFICES ASSUME Open' PROVE BytesFit'
    BY DEF BytesFit
  <2>1. Open
    BY <1>1 DEF Open
  <2>2. Holds(sent, filter, current, Len(delivered), tcp \o (wire \o <<>>))
    BY <2>1, <1>0, <1>1 DEF BytesFit
  <2> DEFINE rest == tcp \o wire
             frame == Framed(payload)
             d == Len(delivered)
  <2>3. rest \in Bytes /\ frame \in Bytes /\ filter.buffer \in Bytes
    BY <1>6, <1>t, Joined DEF FilterType
  <2>4. Holds(sent, filter, current, d, rest)
    BY <2>2, <1>t, Empty
  <2>5. tcp' \o (wire' \o <<>>) = rest \o frame
    <3>1. wire' \o <<>> = wire'
      BY <1>7, Empty
    <3>2. (tcp \o wire) \o frame = tcp \o (wire \o frame)
      BY <2>3, <1>t, Associative
    <3> QED
      BY <3>1, <3>2, <1>1, <1>4
  <2>6. d \in Nat /\ d <= Len(sent)
    BY <1>0, <1>n DEF DeliveredFits
  <2> HIDE DEF rest, d, frame
  <2>7. MessageFits(sent, filter, current, d) /\ filter.buffer \o rest = UnreadOf(sent, filter, current, d)
    BY <2>4 DEF Holds
  <2>8. /\ MessageFits(sent', filter, current, d)
        /\ UnreadOf(sent', filter, current, d) = UnreadOf(sent, filter, current, d) \o frame
    BY <2>6, <2>7, <1>3, <1>4, <1>t, UnreadGrows DEF frame
  <2>9. filter.buffer \o (rest \o frame) = UnreadOf(sent', filter, current, d)
    <3>1. (filter.buffer \o rest) \o frame = filter.buffer \o (rest \o frame)
      BY <2>3, Associative
    <3> QED
      BY <3>1, <2>7, <2>8
  <2>10. Holds(sent', filter, current, d, rest \o frame)
    BY <2>8, <2>9 DEF Holds
  <2>11. Holds(sent', filter', current', Len(delivered'), tcp' \o (wire' \o <<>>))
    BY <2>10, <2>5, <1>1 DEF d
  <2> QED
    BY <2>11, Empty DEF BytesFit
<1>11. EndFits'
  BY <1>0, <1>1 DEF EndFits
<1>12. InputFirst' /\ ReadyFits'
  BY <1>0, <1>1 DEF InputFirst, ReadyFits
<1>13. ClosedFits'
  BY <1>0, <1>1 DEF ClosedFits, Open
<1>z. StalledFits'
  BY <1>0, <1>1 DEF StalledFits, Open
<1> QED
  BY <1>8, <1>9, <1>10, <1>11, <1>12, <1>13, <1>z DEF PInv

\* The peer hangs up; what was on its way may be lost.
LEMMA HangupKeeps ==
    ASSUME PInv, Hangup PROVE PInv'
<1>0. FilterTypes /\ DeliveredFits /\ BytesFit /\ EndFits /\ InputFirst /\ ReadyFits /\ ClosedFits
      /\ StalledFits
  BY DEF PInv
<1>1. /\ over = "up"
      /\ side' = side /\ sent' = sent /\ ended' = ended /\ tcp' = tcp /\ events' = events
      /\ filter' = filter /\ main' = main /\ wasReady' = wasReady
      /\ reader' = reader /\ current' = current /\ delivered' = delivered /\ stalled' = stalled
  BY DEF Hangup, readVars
<1>t. wire \in Bytes /\ tcp \in Bytes
  BY <1>0 DEF FilterTypes, NetTypes, MainTypes
<1>2. \/ over' = "closed" /\ wire' = wire
      \/ /\ over' = "cut" /\ wire' \in Bytes
         /\ \E lost \in Bytes : wire' \o lost = wire
  <2>1. CASE over' = "closed" /\ wire' = wire
    BY <2>1
  <2>2. CASE over' = "cut" /\ \E n \in 0..Len(wire) - 1 : wire' = SubSeq(wire, 1, n)
    <3>1. PICK n \in 0..Len(wire) - 1 : wire' = SubSeq(wire, 1, n)
      BY <2>2
    <3>2. n \in 0..Len(wire)
      BY <1>t, LenProperties DEF Bytes
    <3>3. IsCut(wire, n, wire', SubSeq(wire, n + 1, Len(wire)))
      BY <3>1, <3>2, <1>t, Cut
    <3> QED
      BY <2>2, <3>3 DEF IsCut
  <2> QED
    BY <2>1, <2>2 DEF Hangup
<1>3. FilterTypes'
  BY <1>0, <1>1, <1>2 DEF FilterTypes, NetTypes, MainTypes, ReaderTypes
<1>4. DeliveredFits'
  BY <1>0, <1>1 DEF DeliveredFits
<1>5. BytesFit'
  <2> SUFFICES ASSUME Open' PROVE BytesFit'
    BY DEF BytesFit
  <2>1. Holds(sent, filter, current, Len(delivered), tcp \o (wire \o <<>>))
    BY <1>0, <1>1 DEF BytesFit, Open
  <2>2. CASE over' = "closed" /\ wire' = wire
    <3>1. Holds(sent', filter', current', Len(delivered'), tcp' \o (wire' \o <<>>))
      BY <2>1, <2>2, <1>1
    <3> QED
      BY <3>1, Empty DEF BytesFit
  <2>3. CASE over' = "cut" /\ \E lost \in Bytes : wire' \o lost = wire
    <3>1. PICK lost \in Bytes : wire' \o lost = wire
      BY <2>3
    <3>2. wire \o <<>> = wire' \o lost
      BY <3>1, <1>t, Empty
    <3>3. Holds(sent', filter', current', Len(delivered'), tcp' \o (wire' \o lost))
      BY <2>1, <3>2, <1>1
    <3> QED
      BY <3>3, <2>3 DEF BytesFit
  <2> QED
    BY <2>2, <2>3, <1>2
<1>6. EndFits'
  BY <1>0, <1>1 DEF EndFits
<1>7. InputFirst' /\ ReadyFits'
  BY <1>0, <1>1 DEF InputFirst, ReadyFits
<1>8. ClosedFits'
  BY <1>0, <1>1 DEF ClosedFits, Open
<1>z. StalledFits'
  BY <1>0, <1>1 DEF StalledFits, Open
<1> QED
  BY <1>3, <1>4, <1>5, <1>6, <1>7, <1>8, <1>z DEF PInv

\* Bytes come from the wire.
LEMMA ArriveKeeps ==
    ASSUME PInv, Arrive PROVE PInv'
<1>0. FilterTypes /\ DeliveredFits /\ BytesFit /\ EndFits /\ InputFirst /\ ReadyFits /\ ClosedFits
      /\ StalledFits
  BY DEF PInv
<1>1. /\ reader \notin {"ended", "gone"} /\ wire # <<>>
      /\ side' = side /\ sent' = sent /\ over' = over /\ ended' = ended
      /\ filter' = filter /\ main' = main /\ wasReady' = wasReady
      /\ reader' = reader /\ current' = current /\ delivered' = delivered /\ stalled' = stalled
      /\ events' = IF tcp = <<>> THEN Append(events, "socketReady") ELSE events
  BY DEF Arrive, readVars
<1>2. PICK n \in 1..Len(wire) :
         tcp' = tcp \o SubSeq(wire, 1, n) /\ wire' = SubSeq(wire, n + 1, Len(wire))
  BY DEF Arrive
<1>t. wire \in Bytes /\ tcp \in Bytes /\ events \in Seq(EventNames)
  BY <1>0 DEF FilterTypes, NetTypes, MainTypes
<1> DEFINE front == SubSeq(wire, 1, n)
<1>3. front \in Bytes /\ wire' \in Bytes /\ wire = front \o wire'
  <2>1. n \in 0..Len(wire)
    BY <1>t, LenProperties DEF Bytes
  <2>2. IsCut(wire, n, front, wire')
    BY <2>1, <1>2, <1>t, Cut
  <2> HIDE DEF front
  <2> QED
    BY <2>2 DEF IsCut
<1>4. tcp' = tcp \o front
  BY <1>2
<1> HIDE DEF front
<1>5. tcp' \in Bytes
  BY <1>3, <1>4, <1>t, Joined
<1>e. ~ended /\ ~Has(events, "socketShutdown") /\ ~Has(events, "shutdown") /\ ~filter.inputShutdown
  BY <1>0, <1>1 DEF EndFits
<1>6. /\ events' \in Seq(EventNames)
      /\ \A e : Has(events', e) => Has(events, e) \/ e = "socketReady"
      /\ \A e : Has(events, e) => Has(events', e)
      /\ AheadOfEnd(events) => AheadOfEnd(events')
      /\ tcp = <<>> => AheadOfEnd(events')
  <2>1. "socketReady" \in EventNames
    BY DEF EventNames
  <2>2. CASE tcp = <<>>
    <3>1. events' = Append(events, "socketReady")
      BY <2>2, <1>1
    <3> QED
      BY <2>1, <3>1, <1>e, <1>t, AppendEvent
  <2>3. CASE tcp # <<>>
    BY <2>3, <1>1, <1>t
  <2> QED
    BY <2>2, <2>3
<1>7. FilterTypes'
  BY <1>0, <1>1, <1>3, <1>5, <1>6 DEF FilterTypes, NetTypes, MainTypes, ReaderTypes
<1>8. DeliveredFits'
  BY <1>0, <1>1 DEF DeliveredFits
<1>9. BytesFit'
  <2>0. Open
    BY <1>0, <1>1 DEF Open, FilterTypes, ReaderTypes
  <2>1. PICK lost \in Bytes :
           /\ Holds(sent, filter, current, Len(delivered), tcp \o (wire \o lost))
           /\ over # "cut" => lost = <<>>
    BY <2>0, <1>0 DEF BytesFit
  <2> DEFINE later == wire' \o lost
  <2>2. later \in Bytes
    BY <1>3, Joined
  <2>3. wire \o lost = front \o later
    BY <1>3, Associative
  <2>4. tcp \o (wire \o lost) = tcp' \o later
    <3> HIDE DEF later
    <3>1. (tcp \o front) \o later = tcp \o (front \o later)
      <4>1. tcp \in Bytes /\ front \in Bytes /\ later \in Bytes
        BY <2>2, <1>3, <1>t
      <4> QED
        BY <4>1, Associative
    <3> QED
      BY <3>1, <2>3, <1>4
  <2>5. Holds(sent', filter', current', Len(delivered'), tcp' \o (wire' \o lost))
    BY <2>1, <2>4, <1>1
  <2>6. over' # "cut" => lost = <<>>
    BY <2>1, <1>1
  <2> QED
    BY <2>5, <2>6 DEF BytesFit
<1>10. EndFits'
  BY <1>e, <1>1, <1>6 DEF EndFits
<1>11. InputFirst'
  BY <1>0, <1>1, <1>6 DEF InputFirst
<1>12. ReadyFits'
  BY <1>0, <1>1, <1>6 DEF ReadyFits
<1>13. ClosedFits'
  BY <1>0, <1>1 DEF ClosedFits, Open, FilterTypes, ReaderTypes
<1>z. StalledFits'
  BY <1>0, <1>1, <1>6 DEF StalledFits, Open
<1> QED
  BY <1>7, <1>8, <1>9, <1>10, <1>11, <1>12, <1>13, <1>z DEF PInv

\* The socket comes to the end of its input.
LEMMA ArriveEndKeeps ==
    ASSUME PInv, ArriveEnd PROVE PInv'
<1>0. FilterTypes /\ DeliveredFits /\ BytesFit /\ EndFits /\ InputFirst /\ ReadyFits /\ ClosedFits
      /\ StalledFits
  BY DEF PInv
<1>1. /\ reader \notin {"ended", "gone"} /\ over # "up" /\ wire = <<>> /\ ended' = TRUE
      /\ side' = side /\ sent' = sent /\ over' = over /\ wire' = wire /\ tcp' = tcp
      /\ filter' = filter /\ main' = main /\ wasReady' = wasReady
      /\ reader' = reader /\ current' = current /\ delivered' = delivered /\ stalled' = stalled
      /\ events' = Append(events, "socketShutdown") /\ ~ended
  BY DEF ArriveEnd, readVars
<1>2. /\ events' \in Seq(EventNames)
      /\ \A e : Has(events', e) => Has(events, e) \/ e = "socketShutdown"
      /\ \A e : Has(events, e) => Has(events', e)
      /\ AheadOfEnd(events) => AheadOfEnd(events')
  <2>1. events \in Seq(EventNames) /\ "socketShutdown" \in EventNames
    BY <1>0 DEF FilterTypes, MainTypes, EventNames
  <2> QED
    BY <2>1, <1>1, AppendEvent
<1>e. ~Has(events, "shutdown") /\ ~filter.inputShutdown
  BY <1>0, <1>1 DEF EndFits
<1>3. FilterTypes'
  BY <1>0, <1>1, <1>2 DEF FilterTypes, NetTypes, MainTypes, ReaderTypes
<1>4. DeliveredFits'
  BY <1>0, <1>1 DEF DeliveredFits
<1>5. BytesFit'
  BY <1>0, <1>1 DEF BytesFit, Open
<1>6. EndFits'
  BY <1>e, <1>1, <1>2 DEF EndFits
<1>7. InputFirst' /\ ReadyFits'
  BY <1>0, <1>1, <1>2 DEF InputFirst, ReadyFits
<1>8. ClosedFits'
  BY <1>0, <1>1 DEF ClosedFits, Open, FilterTypes, ReaderTypes
<1>z. StalledFits'
  BY <1>0, <1>1, <1>2 DEF StalledFits, Open
<1> QED
  BY <1>3, <1>4, <1>5, <1>6, <1>7, <1>8, <1>z DEF PInv

\* The filter starts to read.
LEMMA FilterReadyKeeps ==
    ASSUME PInv, FilterReady PROVE PInv'
<1>0. FilterTypes /\ DeliveredFits /\ BytesFit /\ EndFits /\ InputFirst /\ ReadyFits /\ ClosedFits
      /\ StalledFits
  BY DEF PInv
<1>1. /\ main = "idle" /\ events # <<>> /\ Head(events) = "socketReady"
      /\ main' = "readMore" /\ wasReady' = IsReady(filter) /\ events' = Tail(events)
      /\ side' = side /\ sent' = sent /\ over' = over /\ wire' = wire /\ ended' = ended
      /\ tcp' = tcp /\ filter' = filter
      /\ reader' = reader /\ current' = current /\ delivered' = delivered /\ stalled' = stalled
  BY DEF FilterReady, FirstIs, readVars, netVars
<1>2. /\ events' \in Seq(EventNames)
      /\ \A e : Has(events', e) => Has(events, e)
      /\ \A e : Has(events, e) /\ e # "socketReady" => Has(events', e)
  <2>1. events \in Seq(EventNames)
    BY <1>0 DEF FilterTypes, MainTypes
  <2> QED
    BY <2>1, <1>1, TakeEvent
<1>3. FilterTypes'
  BY <1>0, <1>1, <1>2 DEF FilterTypes, NetTypes, MainTypes, ReaderTypes, IsReady
<1>4. DeliveredFits'
  BY <1>0, <1>1 DEF DeliveredFits
<1>5. BytesFit'
  BY <1>0, <1>1 DEF BytesFit, Open
<1>6. EndFits'
  BY <1>0, <1>1, <1>2 DEF EndFits
<1>7. InputFirst' /\ ReadyFits'
  BY <1>0, <1>1, <1>2 DEF InputFirst, ReadyFits
<1>8. ClosedFits'
  BY <1>0, <1>1 DEF ClosedFits, Open
<1>z. StalledFits'
  BY <1>0, <1>1, <1>2 DEF StalledFits, Open
<1> QED
  BY <1>3, <1>4, <1>5, <1>6, <1>7, <1>8, <1>z DEF PInv

\* Bytes go from the socket's buffer to the filter's.
LEMMA ReadMoreKeeps ==
    ASSUME PInv, ReadMore PROVE PInv'
<1>0. FilterTypes /\ DeliveredFits /\ BytesFit /\ EndFits /\ InputFirst /\ ReadyFits /\ ClosedFits
      /\ StalledFits
  BY DEF PInv
<1>1. /\ main = "readMore" /\ tcp # <<>>
      /\ side' = side /\ sent' = sent /\ over' = over /\ wire' = wire /\ ended' = ended
      /\ events' = events /\ main' = main /\ wasReady' = wasReady
      /\ reader' = reader /\ current' = current /\ delivered' = delivered /\ stalled' = stalled
  BY DEF ReadMore, readVars, netVars
<1>2. PICK n \in 1..Len(tcp) :
         /\ filter' = [filter EXCEPT !.buffer = @ \o SubSeq(tcp, 1, n)]
         /\ tcp' = SubSeq(tcp, n + 1, Len(tcp))
  BY DEF ReadMore
<1>t. wire \in Bytes /\ tcp \in Bytes /\ filter \in FilterType
  BY <1>0 DEF FilterTypes, NetTypes, MainTypes
<1>b. filter.buffer \in Bytes
  BY <1>t DEF FilterType
<1> DEFINE front == SubSeq(tcp, 1, n)
           bytes == filter.buffer \o front
<1>3. front \in Bytes /\ tcp' \in Bytes /\ tcp = front \o tcp'
  <2>1. n \in 0..Len(tcp)
    BY <1>t, LenProperties DEF Bytes
  <2>2. IsCut(tcp, n, front, tcp')
    BY <2>1, <1>2, <1>t, Cut
  <2> HIDE DEF front
  <2> QED
    BY <2>2 DEF IsCut
<1>4. filter' = [filter EXCEPT !.buffer = bytes]
  BY <1>2
<1> HIDE DEF front
<1>5. bytes \in Bytes
  BY <1>3, <1>b, Joined
<1>6. /\ filter' \in FilterType /\ filter'.size = filter.size /\ filter'.buffer = bytes
      /\ filter'.inputShutdown = filter.inputShutdown
  <2> HIDE DEF bytes
  <2> QED
    BY <1>4, <1>5, <1>t DEF FilterType
<1>e. ~Has(events, "shutdown") /\ ~filter.inputShutdown
  BY <1>0, <1>1 DEF EndFits
<1>7. FilterTypes'
  BY <1>0, <1>1, <1>3, <1>6 DEF FilterTypes, NetTypes, MainTypes, ReaderTypes
<1>8. DeliveredFits'
  BY <1>0, <1>1 DEF DeliveredFits
<1>o. Open
  BY <1>0, <1>1 DEF ClosedFits
<1>9. BytesFit'
  <2>1. PICK lost \in Bytes :
           /\ Holds(sent, filter, current, Len(delivered), tcp \o (wire \o lost))
           /\ over # "cut" => lost = <<>>
    BY <1>o, <1>0 DEF BytesFit
  <2> DEFINE later == wire \o lost
             d == Len(delivered)
  <2>2. later \in Bytes
    BY <1>t, Joined
  <2>h. Holds(sent, filter, current, d, tcp \o later)
    BY <2>1
  <2> HIDE DEF later, d
  <2>3. MessageFits(sent, filter, current, d)
        /\ filter.buffer \o (tcp \o later) = UnreadOf(sent, filter, current, d)
    BY <2>h DEF Holds
  <2>4. bytes \o (tcp' \o later) = filter.buffer \o (tcp \o later)
    <3>1. tcp \o later = front \o (tcp' \o later)
      BY <2>2, <1>3, Associative
    <3>2. tcp' \o later \in Bytes
      BY <2>2, <1>3, Joined
    <3> DEFINE rest == tcp' \o later
    <3> HIDE DEF rest
    <3>3. (filter.buffer \o front) \o rest = filter.buffer \o (front \o rest)
      <4>1. rest \in Bytes /\ front \in Bytes
        BY <3>2, <1>3 DEF rest
      <4> QED
        BY <4>1, <1>b, Associative
    <3> QED
      BY <3>1, <3>3 DEF rest
  <2>5. MessageFits(sent, filter', current, d)
    BY <2>3, <1>6 DEF MessageFits
  <2>6. UnreadOf(sent, filter', current, d) = UnreadOf(sent, filter, current, d)
    BY <1>6 DEF UnreadOf
  <2>7. Holds(sent, filter', current, d, tcp' \o later)
    BY <2>3, <2>4, <2>5, <2>6, <1>6 DEF Holds
  <2>8. Holds(sent', filter', current', Len(delivered'), tcp' \o (wire' \o lost))
    BY <2>7, <1>1 DEF later, d
  <2>9. over' # "cut" => lost = <<>>
    BY <2>1, <1>1
  <2> QED
    BY <2>8, <2>9 DEF BytesFit
<1>10. EndFits'
  BY <1>0, <1>e, <1>1, <1>6 DEF EndFits
<1>11. InputFirst' /\ ReadyFits'
  BY <1>0, <1>1 DEF InputFirst, ReadyFits
<1>12. ClosedFits'
  BY <1>o, <1>1 DEF ClosedFits, Open
<1>z. StalledFits'
  <2>1. IsReady(filter) => IsReady(filter')
    <3>1. Len(bytes) = Len(filter.buffer) + Len(front)
      BY <1>3, <1>b, ConcatProperties DEF bytes, Bytes
    <3>2. Len(filter.buffer) \in Nat /\ Len(front) \in Nat /\ filter.size \in Nat
      BY <1>3, <1>b, <1>t, LenProperties, PacketAssumption DEF Bytes, FilterType
    <3> HIDE DEF bytes
    <3> QED
      BY <3>1, <3>2, <1>6 DEF IsReady
  <2> QED
    BY <2>1, <1>0, <1>1 DEF StalledFits, Open
<1> QED
  BY <1>7, <1>8, <1>9, <1>10, <1>11, <1>12, <1>z DEF PInv

\* The socket has no more; the header that came is read.
LEMMA ReadNoMoreKeeps ==
    ASSUME PInv, ReadNoMore PROVE PInv'
<1>0. FilterTypes /\ DeliveredFits /\ BytesFit /\ EndFits /\ InputFirst /\ ReadyFits /\ ClosedFits
      /\ StalledFits
  BY DEF PInv
<1>1. /\ main = "readMore" /\ tcp = <<>> /\ filter' = ReadPacketSize(filter)
      /\ main' = IF wasReady # IsReady(filter') THEN "reading" ELSE "idle"
      /\ wasReady' = FALSE
      /\ side' = side /\ sent' = sent /\ over' = over /\ wire' = wire /\ ended' = ended
      /\ tcp' = tcp /\ events' = events
      /\ reader' = reader /\ current' = current /\ delivered' = delivered /\ stalled' = stalled
  BY DEF ReadNoMore, readVars, netVars
<1>t. /\ wire \in Bytes /\ tcp \in Bytes /\ filter \in FilterType /\ sent \in Seq(Payload)
      /\ current \in Bytes /\ delivered \in Seq(Bytes)
  BY <1>0 DEF FilterTypes, NetTypes, MainTypes, ReaderTypes
<1>o. Open
  BY <1>0, <1>1 DEF ClosedFits
<1>2. PICK lost \in Bytes :
         /\ Holds(sent, filter, current, Len(delivered), tcp \o (wire \o lost))
         /\ over # "cut" => lost = <<>>
  BY <1>o, <1>0 DEF BytesFit
<1>3. /\ filter' \in FilterType /\ filter'.inputShutdown = filter.inputShutdown
      /\ Holds(sent, filter', current, Len(delivered), tcp \o (wire \o lost))
      /\ HeaderIsRead(filter')
  <2> DEFINE rest == tcp \o (wire \o lost)
  <2>1. rest \in Bytes
    BY <1>t, Joined
  <2>2. Len(delivered) \in Nat /\ Len(delivered) <= Len(sent)
    BY <1>0, <1>t, LenProperties DEF DeliveredFits
  <2>3. Holds(sent, filter, current, Len(delivered), rest)
    BY <1>2
  <2> HIDE DEF rest
  <2>4. /\ ReadPacketSize(filter) \in FilterType
        /\ ReadPacketSize(filter).inputShutdown = filter.inputShutdown
        /\ Holds(sent, ReadPacketSize(filter), current, Len(delivered), rest)
        /\ HeaderIsRead(ReadPacketSize(filter))
    BY <2>1, <2>2, <2>3, <1>t, SizeIsRead
  <2> QED
    BY <2>4, <1>1 DEF rest
<1>4. FilterTypes'
  BY <1>0, <1>1, <1>3 DEF FilterTypes, NetTypes, MainTypes, ReaderTypes
<1>5. DeliveredFits'
  BY <1>0, <1>1 DEF DeliveredFits
<1>6. BytesFit'
  <2>1. Holds(sent', filter', current', Len(delivered'), tcp' \o (wire' \o lost))
    BY <1>1, <1>3
  <2>2. over' # "cut" => lost = <<>>
    BY <1>1, <1>2
  <2> QED
    BY <2>1, <2>2 DEF BytesFit
<1>7. EndFits'
  <2>1. filter.size = 0 /\ HeaderIsRead(filter) => filter' = filter
    <3>1. Len(filter.buffer) \in Nat /\ Header \in Nat
      BY <1>t, LenProperties, PacketAssumption DEF FilterType, Bytes
    <3> QED
      BY <1>1, <3>1 DEF HeaderIsRead, ReadPacketSize
  <2> QED
    BY <2>1, <1>0, <1>1, <1>3 DEF EndFits
<1>8. InputFirst'
  BY <1>1 DEF InputFirst
<1>9. ReadyFits'
  <2>1. IsReady(filter') \in BOOLEAN /\ wasReady \in BOOLEAN
    BY <1>0 DEF IsReady, FilterTypes, MainTypes
  <2>2. main' = "idle" /\ IsReady(filter') => stalled' \/ Has(events', "ready")
    BY <2>1, <1>0, <1>1 DEF ReadyFits
  <2>3. main' # "readMore"
    BY <1>1
  <2> QED
    BY <2>2, <2>3, <1>3 DEF ReadyFits
<1>10. ClosedFits'
  BY <1>o, <1>1 DEF ClosedFits, Open
<1>z. StalledFits'
  <2>1. ASSUME stalled, Open PROVE IsReady(filter') /\ main' = "idle"
    <3>1. IsReady(filter) /\ wasReady
      BY <2>1, <1>0, <1>1 DEF StalledFits
    <3>2. filter' = filter
      BY <3>1, <1>1 DEF IsReady, ReadPacketSize
    <3>3. IsReady(filter') = TRUE /\ wasReady = TRUE
      BY <3>1, <3>2, <1>0 DEF IsReady, FilterTypes, MainTypes
    <3> QED
      BY <3>3, <1>1
  <2> QED
    BY <2>1, <1>0, <1>1, <1>o DEF StalledFits, Open
<1> QED
  BY <1>4, <1>5, <1>6, <1>7, <1>8, <1>9, <1>10, <1>z DEF PInv

\* The stream is closed.
LEMMA CloseKeeps ==
    ASSUME PInv, NEW why \in {"ended", "gone"}, main = "idle", CloseStream(why) PROVE PInv'
<1>0. FilterTypes /\ DeliveredFits /\ BytesFit /\ EndFits /\ InputFirst /\ ReadyFits /\ ClosedFits
      /\ StalledFits
  BY DEF PInv
<1>1. /\ reader' = why /\ filter' = NoPacket /\ tcp' = <<>> /\ wire' = <<>> /\ events' = <<>>
      /\ current' = <<>> /\ main = "idle"
      /\ side' = side /\ sent' = sent /\ over' = over /\ ended' = ended
      /\ main' = main /\ wasReady' = wasReady /\ delivered' = delivered /\ stalled' = stalled
  BY DEF CloseStream
<1>2. ~Open' /\ reader' # "hello"
  BY <1>1 DEF Open
<1>3. /\ NoPacket \in FilterType /\ NoPacket.size = 0 /\ NoPacket.buffer = <<>>
      /\ NoPacket.inputShutdown = FALSE /\ ~IsReady(NoPacket) /\ HeaderIsRead(NoPacket)
      /\ <<>> \in Bytes /\ <<>> \in Seq(EventNames) /\ \A e : ~Has(<<>>, e)
  BY NoPacketIs, Empty DEF Has
<1>4. FilterTypes'
  <2>1. NetTypes'
    BY <1>0, <1>1, <1>3 DEF FilterTypes, NetTypes
  <2>2. MainTypes'
    BY <1>0, <1>1, <1>3 DEF FilterTypes, MainTypes
  <2>3. ReaderTypes'
    BY <1>0, <1>1, <1>3 DEF FilterTypes, ReaderTypes
  <2> QED
    BY <2>1, <2>2, <2>3 DEF FilterTypes
<1>5. DeliveredFits'
  BY <1>0, <1>1, <1>2 DEF DeliveredFits
<1>6. BytesFit'
  BY <1>2 DEF BytesFit
<1>7. EndFits'
  BY <1>0, <1>1, <1>3 DEF EndFits
<1>8. InputFirst'
  BY <1>1 DEF InputFirst
<1>9. ReadyFits'
  BY <1>1, <1>3 DEF ReadyFits
<1>10. ClosedFits'
  BY <1>1 DEF ClosedFits
<1>z. StalledFits'
  BY <1>0, <1>1, <1>2, <1>3 DEF StalledFits
<1> QED
  BY <1>4, <1>5, <1>6, <1>7, <1>8, <1>9, <1>10, <1>z DEF PInv

\* With the socket's shutdown at the head of the queue nothing is left in its buffer.
LEMMA ShutdownIsLast ==
    ASSUME PInv, FirstIs("socketShutdown")
    PROVE  ended /\ tcp = <<>> /\ Has(events, "socketShutdown") /\ Open
<1>1. /\ FilterTypes /\ EndFits /\ InputFirst /\ ClosedFits
      /\ main = "idle" /\ events # <<>> /\ Head(events) = "socketShutdown"
  BY DEF PInv, FirstIs
<1>2. events \in Seq(EventNames)
  BY <1>1 DEF FilterTypes, MainTypes
<1>3. Has(events, "socketShutdown") /\ ~AheadOfEnd(events)
  BY <1>1, <1>2, TakeEvent
<1>4. ended
  BY <1>1, <1>3 DEF EndFits
<1>5. tcp = <<>>
  BY <1>1, <1>3 DEF InputFirst
<1>6. Open
  BY <1>1 DEF ClosedFits
<1> QED
  BY <1>3, <1>4, <1>5, <1>6

LEMMA FilterShutdownKeeps ==
    ASSUME PInv, FilterShutdown PROVE PInv'
<1>0. FilterTypes /\ DeliveredFits /\ BytesFit /\ EndFits /\ InputFirst /\ ReadyFits /\ ClosedFits
      /\ StalledFits
  BY DEF PInv
<1>1. main = "idle" /\ events # <<>> /\ Head(events) = "socketShutdown"
  BY DEF FilterShutdown, FirstIs
<1>2. ended /\ tcp = <<>> /\ Has(events, "socketShutdown") /\ Open
  BY ShutdownIsLast DEF FilterShutdown
<1>3. CASE Passed(filter)
  BY <1>1, <1>3, CloseKeeps DEF FilterShutdown
<1>4. CASE ~Passed(filter)
  <2>1. /\ filter' = [filter EXCEPT !.inputShutdown = TRUE] /\ events' = Tail(events)
        /\ side' = side /\ sent' = sent /\ over' = over /\ wire' = wire /\ ended' = ended
        /\ tcp' = tcp /\ main' = main /\ wasReady' = wasReady
        /\ reader' = reader /\ current' = current /\ delivered' = delivered /\ stalled' = stalled
    BY <1>4 DEF FilterShutdown, readVars, netVars
  <2>2. /\ events' \in Seq(EventNames)
        /\ \A e : Has(events', e) => Has(events, e)
        /\ \A e : Has(events, e) /\ e # "socketShutdown" => Has(events', e)
    <3>1. events \in Seq(EventNames)
      BY <1>0 DEF FilterTypes, MainTypes
    <3> QED
      BY <3>1, <1>1, <2>1, TakeEvent
  <2>3. /\ filter' \in FilterType /\ filter'.size = filter.size /\ filter'.buffer = filter.buffer
        /\ filter.size # 0
    BY <2>1, <1>0, <1>4 DEF FilterTypes, MainTypes, FilterType, Passed
  <2>4. FilterTypes'
    BY <1>0, <2>1, <2>2, <2>3 DEF FilterTypes, NetTypes, MainTypes, ReaderTypes
  <2>5. DeliveredFits'
    BY <1>0, <2>1 DEF DeliveredFits
  <2>6. BytesFit'
    <3>1. PICK lost \in Bytes :
             /\ Holds(sent, filter, current, Len(delivered), tcp \o (wire \o lost))
             /\ over # "cut" => lost = <<>>
      BY <1>2, <1>0 DEF BytesFit
    <3> DEFINE rest == tcp \o (wire \o lost)
               d == Len(delivered)
    <3>2. Holds(sent, filter, current, d, rest)
      BY <3>1
    <3> HIDE DEF rest, d
    <3>3. Holds(sent, filter', current, d, rest)
      <4>1. MessageFits(sent, filter', current, d) <=> MessageFits(sent, filter, current, d)
        BY <2>3 DEF MessageFits
      <4>2. UnreadOf(sent, filter', current, d) = UnreadOf(sent, filter, current, d)
        BY <2>3 DEF UnreadOf
      <4> QED
        BY <3>2, <4>1, <4>2, <2>3 DEF Holds
    <3>4. Holds(sent', filter', current', Len(delivered'), tcp' \o (wire' \o lost))
      BY <3>3, <2>1 DEF rest, d
    <3>5. over' # "cut" => lost = <<>>
      BY <3>1, <2>1
    <3> QED
      BY <3>4, <3>5 DEF BytesFit
  <2>7. EndFits'
    BY <1>0, <1>2, <2>1, <2>2, <2>3 DEF EndFits
  <2>8. InputFirst'
    BY <1>2, <2>1 DEF InputFirst
  <2>9. ReadyFits'
    <3>1. IsReady(filter') = IsReady(filter) /\ HeaderIsRead(filter') = HeaderIsRead(filter)
      BY <2>3 DEF IsReady, HeaderIsRead
    <3> QED
      BY <3>1, <1>0, <1>1, <2>1, <2>2 DEF ReadyFits
  <2>10. ClosedFits'
    BY <1>2, <2>1 DEF ClosedFits, Open
  <2>11. StalledFits'
    <3>1. IsReady(filter') = IsReady(filter)
      BY <2>3 DEF IsReady
    <3> QED
      BY <3>1, <1>0, <1>1, <2>1, <2>2 DEF StalledFits, Open
  <2> QED
    BY <2>4, <2>5, <2>6, <2>7, <2>8, <2>9, <2>10, <2>11 DEF PInv
<1> QED
  BY <1>3, <1>4

\* The reader's turn.
LEMMA StreamReadyKeeps ==
    ASSUME PInv, StreamReady PROVE PInv'
<1>0. FilterTypes /\ DeliveredFits /\ BytesFit /\ EndFits /\ InputFirst /\ ReadyFits /\ ClosedFits
      /\ StalledFits
  BY DEF PInv
<1>1. /\ main = "idle" /\ events # <<>> /\ Head(events) = "ready"
      /\ main' = "reading" /\ wasReady' = wasReady /\ events' = Tail(events)
      /\ side' = side /\ sent' = sent /\ over' = over /\ wire' = wire /\ ended' = ended
      /\ tcp' = tcp /\ filter' = filter
      /\ reader' = reader /\ current' = current /\ delivered' = delivered /\ stalled' = stalled
  BY DEF StreamReady, FirstIs, readVars, netVars
<1>2. /\ events' \in Seq(EventNames)
      /\ \A e : Has(events', e) => Has(events, e)
      /\ AheadOfEnd(events) => AheadOfEnd(events')
  <2>1. events \in Seq(EventNames)
    BY <1>0 DEF FilterTypes, MainTypes
  <2> QED
    BY <2>1, <1>1, TakeEvent
<1>3. FilterTypes'
  BY <1>0, <1>1, <1>2 DEF FilterTypes, NetTypes, MainTypes, ReaderTypes
<1>4. DeliveredFits'
  BY <1>0, <1>1 DEF DeliveredFits
<1>5. BytesFit'
  BY <1>0, <1>1 DEF BytesFit, Open
<1>6. EndFits'
  BY <1>0, <1>1, <1>2 DEF EndFits
<1>7. InputFirst' /\ ReadyFits'
  BY <1>0, <1>1, <1>2 DEF InputFirst, ReadyFits
<1>8. ClosedFits'
  BY <1>0, <1>1 DEF ClosedFits, Open
<1>z. StalledFits'
  <2>1. ~stalled
    <3>1. Has(events, "ready")
      BY <1>0, <1>1, TakeEvent DEF FilterTypes, MainTypes
    <3> QED
      BY <3>1, <1>0 DEF StalledFits
  <2> QED
    BY <2>1, <1>0, <1>1, <1>2 DEF StalledFits
<1> QED
  BY <1>3, <1>4, <1>5, <1>6, <1>7, <1>8, <1>z DEF PInv

LEMMA ReadNothingKeeps ==
    ASSUME PInv, ReadNothing PROVE PInv'
<1>0. FilterTypes /\ DeliveredFits /\ BytesFit /\ EndFits /\ InputFirst /\ ReadyFits /\ ClosedFits
      /\ StalledFits
  BY DEF PInv
<1>1. /\ main = "reading" /\ ~IsReady(filter) /\ main' = "idle"
      /\ side' = side /\ sent' = sent /\ over' = over /\ wire' = wire /\ ended' = ended
      /\ tcp' = tcp /\ filter' = filter /\ events' = events /\ wasReady' = wasReady
      /\ reader' = reader /\ current' = current /\ delivered' = delivered /\ stalled' = stalled
  BY DEF ReadNothing, readVars, netVars
<1>2. FilterTypes'
  BY <1>0, <1>1 DEF FilterTypes, NetTypes, MainTypes, ReaderTypes
<1>3. DeliveredFits'
  BY <1>0, <1>1 DEF DeliveredFits
<1>4. BytesFit' /\ EndFits'
  BY <1>0, <1>1 DEF BytesFit, EndFits, Open
<1>5. InputFirst' /\ ReadyFits'
  BY <1>0, <1>1 DEF InputFirst, ReadyFits
<1>6. ClosedFits'
  BY <1>0, <1>1 DEF ClosedFits, Open
<1>z. StalledFits'
  BY <1>0, <1>1 DEF StalledFits, Open
<1> QED
  BY <1>2, <1>3, <1>4, <1>5, <1>6, <1>z DEF PInv

LEMMA SizeFirst == \A f, n : Popped(f, n) = ReadPacketSize(PopOnly(f, n))
BY DEF Popped, PopOnly

\* What the reader takes is part of its message, or the rest of it.
ReadTakes(d) ==
    /\ filter' \in FilterType /\ filter'.inputShutdown = filter.inputShutdown
    /\ HeaderIsRead(filter') /\ BytesFit'
    /\ \/ /\ filter'.size # 0 /\ current' \in Bytes
          /\ events' = events /\ main' = main /\ reader' = reader /\ delivered' = delivered
          /\ stalled' = stalled
       \/ /\ filter'.size # 0 => d + 1 < Len(sent)
          /\ current' = <<>> /\ delivered' = Append(delivered, sent[d + 1])
          /\ reader' = "proxy" /\ main' = IF reader = "hello" THEN "idle" ELSE main
          /\ stalled' = IF reader = "hello" THEN side = "server" /\ IsReady(filter') ELSE stalled
          /\ events' = (events \o (IF EndsNow(filter') THEN <<"shutdown">> ELSE <<>>))
                          \o (IF reader = "hello" THEN Pending(filter') ELSE <<>>)

LEMMA ReadTakesBytes ==
    ASSUME PInv, Read PROVE ReadTakes(Len(delivered))
<1> DEFINE d == Len(delivered)
           message == sent[d + 1]
           Count(asked) == IF asked > filter.size THEN filter.size ELSE asked
           Text(n) == current \o SubSeq(filter.buffer, 1, n)
           Ends(f) == IF EndsNow(f) THEN <<"shutdown">> ELSE <<>>
<1>0. FilterTypes /\ DeliveredFits /\ BytesFit /\ EndFits /\ InputFirst /\ ReadyFits /\ ClosedFits
      /\ StalledFits
  BY DEF PInv
<1>1. /\ main = "reading" /\ IsReady(filter) /\ d < Len(sent)
      /\ side' = side /\ sent' = sent /\ over' = over /\ wire' = wire /\ ended' = ended
      /\ tcp' = tcp /\ wasReady' = wasReady
  BY DEF Read, netVars
<1>2. PICK asked \in 1..Len(message) - Len(current) :
         /\ filter' = Popped(filter, Count(asked))
         /\ IF Len(Text(Count(asked))) < Len(message)
            THEN /\ current' = Text(Count(asked))
                 /\ events' = events \o Ends(Popped(filter, Count(asked)))
                 /\ UNCHANGED <<main, reader, delivered, stalled>>
            ELSE /\ current' = <<>> /\ delivered' = Append(delivered, Text(Count(asked)))
                 /\ reader' = "proxy"
                 /\ main' = IF reader = "hello" THEN "idle" ELSE main
                 /\ stalled' = IF reader = "hello"
                               THEN side = "server" /\ IsReady(Popped(filter, Count(asked)))
                               ELSE stalled
                 /\ events' = events \o Ends(Popped(filter, Count(asked)))
                       \o (IF reader = "hello" THEN Pending(Popped(filter, Count(asked))) ELSE <<>>)
  BY DEF Read
<1>t. /\ sent \in Seq(Payload) /\ wire \in Bytes /\ tcp \in Bytes /\ filter \in FilterType
      /\ current \in Bytes /\ delivered \in Seq(Bytes) /\ events \in Seq(EventNames)
  BY <1>0 DEF FilterTypes, NetTypes, MainTypes, ReaderTypes
<1>d. d \in Nat /\ d < Len(sent) /\ d <= Len(sent) /\ d + 1 <= Len(sent) /\ d + 1 \in Nat
      /\ Len(sent) \in Nat
  BY <1>1, <1>t, LenProperties
<1> DEFINE n == Count(asked)
           text == Text(n)
           g == PopOnly(filter, n)
<1>n. n \in 1..filter.size
  <2>1. filter.size \in Nat /\ filter.size # 0
    BY <1>1, <1>t, PacketAssumption DEF FilterType, IsReady
  <2>2. asked \in Int /\ asked >= 1
    BY <1>2
  <2> QED
    BY <2>1, <2>2
<1>o. Open
  BY <1>0, <1>1 DEF ClosedFits
<1>3. PICK lost \in Bytes :
         /\ Holds(sent, filter, current, d, tcp \o (wire \o lost))
         /\ over # "cut" => lost = <<>>
  BY <1>o, <1>0 DEF BytesFit
<1> DEFINE rest == tcp \o (wire \o lost)
<1>4. rest \in Bytes
  BY <1>t, Joined
<1>h. Holds(sent, filter, current, d, rest)
  BY <1>3
<1>5. filter' = ReadPacketSize(g)
  BY <1>2, SizeFirst
<1>6. /\ IF Len(text) < Len(message)
         THEN /\ current' = text /\ events' = events \o Ends(filter')
              /\ main' = main /\ reader' = reader /\ delivered' = delivered /\ stalled' = stalled
         ELSE /\ current' = <<>> /\ delivered' = Append(delivered, text)
              /\ reader' = "proxy" /\ main' = IF reader = "hello" THEN "idle" ELSE main
              /\ stalled' = IF reader = "hello" THEN side = "server" /\ IsReady(filter') ELSE stalled
              /\ events' = (events \o Ends(filter'))
                              \o (IF reader = "hello" THEN Pending(filter') ELSE <<>>)
  BY <1>2
<1>7. /\ g \in FilterType /\ g.inputShutdown = filter.inputShutdown
      /\ text \in Bytes /\ Len(text) <= Len(message)
      /\ g.size = 0 <=> Len(text) = Len(message)
      /\ g.size # 0 => Holds(sent, g, text, d, rest)
      /\ g.size = 0 => text = message /\ Holds(sent, g, <<>>, d + 1, rest)
  <2> HIDE DEF n, rest, d
  <2>1. /\ sent \in Seq(Payload) /\ filter \in FilterType /\ current \in Bytes /\ d \in Nat
        /\ d < Len(sent) /\ rest \in Bytes /\ Holds(sent, filter, current, d, rest)
        /\ IsReady(filter) /\ n \in 1..filter.size
    BY <1>1, <1>d, <1>n, <1>t, <1>4, <1>h
  <2> QED
    BY <2>1, BytesArePopped
<1>8. Len(text) \in Nat /\ Len(message) \in Nat
  <2>1. Len(message) \in Nat
    BY <1>d, <1>t, MessageIs
  <2>2. Len(text) \in Nat
    BY <1>7, LenProperties DEF Bytes
  <2> QED
    BY <2>1, <2>2
<1>9. Open'
  BY <1>o, <1>6 DEF Open
<1> HIDE DEF text, n, g, rest, message, d
<1>b. ASSUME Holds(sent, filter', current', Len(delivered'), rest) PROVE BytesFit'
  <2>1. Holds(sent', filter', current', Len(delivered'), tcp' \o (wire' \o lost))
    BY <1>b, <1>1 DEF rest
  <2>2. over' # "cut" => lost = <<>>
    BY <1>1, <1>3
  <2> QED
    BY <2>1, <2>2 DEF BytesFit
<1>10. CASE g.size # 0
  <2>1. Len(text) < Len(message)
    BY <1>7, <1>8, <1>10
  <2>2. filter' = g /\ HeaderIsRead(g)
    BY <1>5, <1>10 DEF ReadPacketSize, HeaderIsRead
  <2>3. /\ current' = text /\ events' = events \o Ends(filter')
        /\ main' = main /\ reader' = reader /\ delivered' = delivered /\ stalled' = stalled
    BY <1>6, <2>1
  <2>4. Ends(filter') = <<>>
    BY <1>10, <2>2 DEF EndsNow
  <2>5. events' = events
    BY <2>3, <2>4, <1>t, ConcatEmptySeq
  <2>6. Holds(sent, filter', current', Len(delivered'), rest)
    BY <1>7, <1>10, <2>2, <2>3 DEF d
  <2>7. BytesFit'
    BY <2>6, <1>b
  <2> QED
    BY <1>7, <1>10, <2>2, <2>3, <2>5, <2>7 DEF ReadTakes
<1>11. CASE g.size = 0
  <2>1. ~(Len(text) < Len(message)) /\ text = message
    BY <1>7, <1>8, <1>11
  <2>2. /\ current' = <<>> /\ delivered' = Append(delivered, message)
        /\ reader' = "proxy" /\ main' = IF reader = "hello" THEN "idle" ELSE main
        /\ stalled' = IF reader = "hello" THEN side = "server" /\ IsReady(filter') ELSE stalled
        /\ events' = (events \o Ends(filter'))
                        \o (IF reader = "hello" THEN Pending(filter') ELSE <<>>)
    BY <1>6, <2>1
  <2>3. /\ filter' \in FilterType /\ filter'.inputShutdown = g.inputShutdown
        /\ Holds(sent, filter', <<>>, d + 1, rest) /\ HeaderIsRead(filter')
    BY <1>4, <1>5, <1>7, <1>11, <1>d, <1>t, Empty, SizeIsRead
  <2>4. filter'.size # 0 => d + 1 < Len(sent)
    BY <2>3 DEF Holds, MessageFits
  <2>5. Len(delivered') = d + 1
    <3>1. message \in Bytes
      BY <1>7, <2>1
    <3> QED
      BY <2>2, <3>1, <1>t, AppendProperties DEF d
  <2>6. BytesFit'
    BY <2>2, <2>3, <2>5, <1>b
  <2> QED
    BY <1>7, <2>2, <2>3, <2>4, <2>6 DEF ReadTakes, message, d
<1> QED
  BY <1>10, <1>11 DEF d

LEMMA ReadKeeps ==
    ASSUME PInv, Read PROVE PInv'
<1> DEFINE d == Len(delivered)
<1>0. FilterTypes /\ DeliveredFits /\ BytesFit /\ EndFits /\ InputFirst /\ ReadyFits /\ ClosedFits
      /\ StalledFits
  BY DEF PInv
<1>1. /\ main = "reading" /\ IsReady(filter) /\ d < Len(sent)
      /\ side' = side /\ sent' = sent /\ over' = over /\ wire' = wire /\ ended' = ended
      /\ tcp' = tcp /\ wasReady' = wasReady
  BY DEF Read, netVars
<1>2. ReadTakes(d)
  BY ReadTakesBytes
<1>3. /\ filter' \in FilterType /\ filter'.inputShutdown = filter.inputShutdown
      /\ HeaderIsRead(filter') /\ BytesFit'
  BY <1>2 DEF ReadTakes
<1>t. /\ sent \in Seq(Payload) /\ delivered \in Seq(Bytes) /\ events \in Seq(EventNames)
      /\ d \in Nat /\ Len(sent) \in Nat
  BY <1>0, LenProperties DEF FilterTypes, NetTypes, MainTypes, ReaderTypes
<1>o. Open
  BY <1>0, <1>1 DEF ClosedFits
<1>s. ~Has(events, "shutdown")
  BY <1>0, <1>1 DEF EndFits, IsReady
<1>4. CASE /\ filter'.size # 0 /\ current' \in Bytes
           /\ events' = events /\ main' = main /\ reader' = reader /\ delivered' = delivered
           /\ stalled' = stalled
  <2>1. FilterTypes'
    BY <1>0, <1>1, <1>3, <1>4 DEF FilterTypes, NetTypes, MainTypes, ReaderTypes
  <2>2. DeliveredFits'
    BY <1>0, <1>1, <1>4 DEF DeliveredFits
  <2>3. EndFits'
    BY <1>0, <1>1, <1>3, <1>4, <1>s DEF EndFits
  <2>4. InputFirst' /\ ReadyFits'
    BY <1>0, <1>1, <1>3, <1>4 DEF InputFirst, ReadyFits
  <2>5. ClosedFits'
    BY <1>4, <1>o DEF ClosedFits, Open
  <2>6. StalledFits'
    BY <1>0, <1>1, <1>4 DEF StalledFits
  <2> QED
    BY <1>3, <2>1, <2>2, <2>3, <2>4, <2>5, <2>6 DEF PInv
<1> DEFINE ends == IF EndsNow(filter') THEN <<"shutdown">> ELSE <<>>
           pending == IF reader = "hello" THEN Pending(filter') ELSE <<>>
<1>5. CASE /\ filter'.size # 0 => d + 1 < Len(sent)
           /\ current' = <<>> /\ delivered' = Append(delivered, sent[d + 1])
           /\ reader' = "proxy" /\ main' = IF reader = "hello" THEN "idle" ELSE main
           /\ stalled' = IF reader = "hello" THEN side = "server" /\ IsReady(filter') ELSE stalled
           /\ events' = (events \o ends) \o pending
  <2>1. /\ ends \in Seq(EventNames)
        /\ \A e : Has(ends, e) <=> EndsNow(filter') /\ e = "shutdown"
    BY OneEvent DEF EventNames
  <2>2. /\ pending \in Seq(EventNames)
        /\ \A e : Has(pending, e) <=>
              reader = "hello" /\ side = "client" /\ IsReady(filter') /\ e = "ready"
    <3>1. pending = IF reader = "hello" /\ side = "client" /\ IsReady(filter')
                    THEN <<"ready">> ELSE <<>>
      BY DEF Pending
    <3> HIDE DEF pending
    <3>2. "ready" \in EventNames
      BY DEF EventNames
    <3>3. CASE reader = "hello" /\ side = "client" /\ IsReady(filter')
      BY <3>1, <3>2, <3>3, OneEvent
    <3>4. CASE ~(reader = "hello" /\ side = "client" /\ IsReady(filter'))
      BY <3>1, <3>2, <3>4, OneEvent
    <3> QED
      BY <3>3, <3>4
  <2> HIDE DEF ends, pending
  <2> DEFINE mid == events \o ends
  <2>3. /\ mid \in Seq(EventNames) /\ \A e : Has(mid, e) <=> Has(events, e) \/ Has(ends, e)
        /\ AheadOfEnd(events) => AheadOfEnd(mid)
    BY <2>1, <1>t, JoinEvents
  <2> HIDE DEF mid
  <2>4. events' = mid \o pending
    BY <1>5 DEF mid
  <2>5. /\ events' \in Seq(EventNames)
        /\ \A e : Has(events', e) <=> Has(mid, e) \/ Has(pending, e)
        /\ AheadOfEnd(mid) => AheadOfEnd(events')
    BY <2>2, <2>3, <2>4, JoinEvents
  <2>6. sent[d + 1] \in Bytes
    BY <1>1, <1>t, MessageIs
  <2> DEFINE message == sent[d + 1]
  <2>7. /\ delivered' \in Seq(Bytes) /\ Len(delivered') = d + 1 /\ delivered'[d + 1] = message
        /\ \A i \in 1..d : delivered'[i] = delivered[i]
    <3>1. message \in Bytes /\ delivered' = Append(delivered, message)
      BY <2>6, <1>5
    <3> HIDE DEF message
    <3> QED
      BY <3>1, <1>t, AppendProperties
  <2>8. FilterTypes'
    <3>1. NetTypes'
      BY <1>0, <1>1 DEF FilterTypes, NetTypes
    <3>2. MainTypes'
      BY <1>0, <1>1, <1>3, <1>5, <2>5 DEF FilterTypes, MainTypes
    <3>3. ReaderTypes'
      <4>1. stalled' \in BOOLEAN
        BY <1>0, <1>5 DEF FilterTypes, ReaderTypes, IsReady
      <4> QED
        BY <4>1, <1>5, <2>7, Empty DEF ReaderTypes
    <3> QED
      BY <3>1, <3>2, <3>3 DEF FilterTypes
  <2>9. DeliveredFits'
    <3>1. Len(delivered') <= Len(sent')
      BY <1>1, <1>t, <2>7
    <3>2. ASSUME NEW i \in 1..Len(delivered') PROVE delivered'[i] = sent'[i]
      <4>1. CASE i = d + 1
        BY <4>1, <2>7, <1>1
      <4>2. CASE i # d + 1
        <5>1. i \in 1..d
          BY <4>2, <2>7, <1>t
        <5> QED
          BY <5>1, <2>7, <1>0, <1>1 DEF DeliveredFits
      <4> QED
        BY <4>1, <4>2
    <3> QED
      BY <3>1, <3>2, <1>5 DEF DeliveredFits
  <2>10. EndFits'
    <3>1. Has(events', "socketShutdown") => Has(events, "socketShutdown")
      BY <2>1, <2>2, <2>3, <2>5
    <3>2. Has(events', "shutdown") => EndsNow(filter')
      BY <2>1, <2>2, <2>3, <2>5, <1>s
    <3> QED
      BY <3>1, <3>2, <1>0, <1>1, <1>3 DEF EndFits, EndsNow
  <2>11. InputFirst'
    BY <1>0, <1>1, <2>3, <2>5 DEF InputFirst
  <2>12. ReadyFits'
    <3>1. main' # "readMore"
      BY <1>1, <1>5
    <3>2. ASSUME main' = "idle", IsReady(filter') PROVE stalled' \/ Has(events', "ready")
      <4>1. reader = "hello"
        BY <3>2, <1>1, <1>5
      <4>2. CASE side = "client"
        BY <3>2, <4>1, <4>2, <2>2, <2>5
      <4>3. CASE side = "server"
        BY <3>2, <4>1, <4>3, <1>5
      <4> QED
        BY <4>2, <4>3, <1>0 DEF FilterTypes, NetTypes
    <3> QED
      BY <3>1, <3>2, <1>3 DEF ReadyFits
  <2>13. ClosedFits'
    BY <1>5 DEF ClosedFits, Open
  <2>14. StalledFits'
    <3>1. side = "server" => ~Has(events', "ready")
      <4>1. ~Has(ends, "ready") /\ (side = "server" => ~Has(pending, "ready"))
        BY <2>1, <2>2
      <4> QED
        BY <4>1, <2>3, <2>5, <1>0 DEF StalledFits
    <3>2. CASE reader = "hello"
      <4>1. stalled' => side = "server" /\ IsReady(filter')
        BY <3>2, <1>5
      <4>2. d = 0
        BY <3>2, <1>0 DEF DeliveredFits
      <4>3. reader' = "proxy" /\ main' = "idle" /\ Len(delivered') = 1
        BY <3>2, <4>2, <2>7, <1>5
      <4> QED
        BY <3>1, <4>1, <4>3, <1>1 DEF StalledFits
    <3>3. CASE reader # "hello"
      <4>1. ~stalled' /\ side' = side
        BY <3>3, <1>0, <1>1, <1>5 DEF StalledFits
      <4> QED
        BY <3>1, <4>1 DEF StalledFits
    <3> QED
      BY <3>2, <3>3
  <2> QED
    BY <1>3, <2>8, <2>9, <2>10, <2>11, <2>12, <2>13, <2>14 DEF PInv
<1> QED
  BY <1>2, <1>4, <1>5 DEF ReadTakes

LEMMA NothingKeeps ==
    ASSUME PInv, UNCHANGED packetVars PROVE PInv'
<1>0. FilterTypes /\ DeliveredFits /\ BytesFit /\ EndFits /\ InputFirst /\ ReadyFits /\ ClosedFits
      /\ StalledFits
  BY DEF PInv
<1>1. /\ side' = side /\ sent' = sent /\ over' = over /\ wire' = wire /\ ended' = ended
      /\ tcp' = tcp /\ filter' = filter /\ events' = events
      /\ main' = main /\ wasReady' = wasReady
      /\ reader' = reader /\ current' = current /\ delivered' = delivered /\ stalled' = stalled
  BY DEF packetVars, netVars, readVars
<1>2. FilterTypes'
  BY <1>0, <1>1 DEF FilterTypes, NetTypes, MainTypes, ReaderTypes
<1>3. DeliveredFits'
  BY <1>0, <1>1 DEF DeliveredFits
<1>4. BytesFit' /\ EndFits'
  BY <1>0, <1>1 DEF BytesFit, EndFits, Open
<1>5. InputFirst' /\ ReadyFits' /\ ClosedFits'
  BY <1>0, <1>1 DEF InputFirst, ReadyFits, ClosedFits, Open
<1>z. StalledFits'
  BY <1>0, <1>1 DEF StalledFits, Open
<1> QED
  BY <1>2, <1>3, <1>4, <1>5, <1>z DEF PInv

LEMMA PInvNext ==
    ASSUME PInv, [PacketNext]_packetVars PROVE PInv'
<1>1. CASE Write
  BY <1>1, WriteKeeps
<1>2. CASE Hangup
  BY <1>2, HangupKeeps
<1>3. CASE Arrive
  BY <1>3, ArriveKeeps
<1>4. CASE ArriveEnd
  BY <1>4, ArriveEndKeeps
<1>5. CASE FilterReady
  BY <1>5, FilterReadyKeeps
<1>6. CASE ReadMore
  BY <1>6, ReadMoreKeeps
<1>7. CASE ReadNoMore
  BY <1>7, ReadNoMoreKeeps
<1>8. CASE FilterShutdown
  BY <1>8, FilterShutdownKeeps
<1>9. CASE StreamShutdown
  BY <1>9, CloseKeeps DEF StreamShutdown, FirstIs
<1>10. CASE StreamReady
  BY <1>10, StreamReadyKeeps
<1>11. CASE Read
  BY <1>11, ReadKeeps
<1>12. CASE ReadNothing
  BY <1>12, ReadNothingKeeps
<1>13. CASE GiveUp
  BY <1>13, CloseKeeps DEF GiveUp
<1>14. CASE UNCHANGED packetVars
  BY <1>14, NothingKeeps
<1> QED
  BY <1>1, <1>2, <1>3, <1>4, <1>5, <1>6, <1>7, <1>8, <1>9, <1>10, <1>11, <1>12, <1>13, <1>14
     DEF PacketNext, PeerWrites, SocketReads, MainDispatches

LEMMA PacketInvariant == PacketSpec => []PInv
<1>1. PacketInit => PInv
  BY InvInit
<1>2. PInv /\ [PacketNext]_packetVars => PInv'
  BY PInvNext
<1> QED
  BY <1>1, <1>2, PTL DEF PacketSpec

-----------------------------------------------------------------------------
(***************************************************************************)
(* What it says of the buffers.                                            *)
(***************************************************************************)
LEMMA WholeIs == PInv => PacketsAreWhole
<1> SUFFICES ASSUME PInv PROVE PacketsAreWhole
  OBVIOUS
<1>0. FilterTypes /\ DeliveredFits /\ BytesFit /\ EndFits /\ InputFirst /\ ReadyFits /\ ClosedFits
      /\ StalledFits
  BY DEF PInv
<1>t. /\ wire \in Bytes /\ tcp \in Bytes /\ filter \in FilterType /\ filter.buffer \in Bytes
      /\ events \in Seq(EventNames)
  BY <1>0 DEF FilterTypes, NetTypes, MainTypes, FilterType
<1>1. PacketTypeOK
  <2>1. \A bytes \in {wire, tcp, filter.buffer} : \A i \in DOMAIN bytes : bytes[i] \in Nat
    <3>1. \A bytes \in Bytes : \A i \in DOMAIN bytes : bytes[i] \in Nat
      BY LenProperties, ElementOfSeq DEF Bytes
    <3> QED
      BY <3>1, <1>t
  <2>2. \A i \in DOMAIN events : events[i] \in EventNames
    BY <1>t, LenProperties, ElementOfSeq
  <2>3. /\ side \in {"server", "client"} /\ over \in {"up", "closed", "cut"} /\ ended \in BOOLEAN
        /\ Len(sent) <= MaxPackets /\ main \in {"idle", "readMore", "reading"}
        /\ wasReady \in BOOLEAN /\ reader \in {"hello", "proxy", "ended", "gone"}
        /\ filter.size \in 0..MaxSize /\ filter.inputShutdown \in BOOLEAN /\ stalled \in BOOLEAN
    BY <1>0, <1>t DEF FilterTypes, NetTypes, MainTypes, ReaderTypes, FilterType
  <2> QED
    BY <2>1, <2>2, <2>3 DEF PacketTypeOK, EventNames
<1>2. NothingIsMisread
  <2> DEFINE d == Len(delivered)
             bytes == (filter.buffer \o tcp) \o wire
  <2> SUFFICES ASSUME Open
               PROVE  IF over = "cut" THEN IsPrefix(bytes, Unread) ELSE bytes = Unread
    BY DEF NothingIsMisread, Open
  <2>1. PICK lost \in Bytes :
           /\ Holds(sent, filter, current, d, tcp \o (wire \o lost))
           /\ over # "cut" => lost = <<>>
    BY <1>0 DEF BytesFit
  <2>2. Unread = UnreadOf(sent, filter, current, d)
    BY DEF Unread, UnreadOf, RestOf
  <2> HIDE DEF d
  <2>3. filter.buffer \o (tcp \o (wire \o lost)) = Unread
    BY <2>1, <2>2 DEF Holds
  <2>4. bytes \in Bytes
    BY <1>t, Joined
  <2>5. bytes \o lost = filter.buffer \o (tcp \o (wire \o lost))
    <3> DEFINE head == filter.buffer \o tcp
               last == wire \o lost
    <3>1. head \in Bytes /\ last \in Bytes
      BY <1>t, Joined
    <3>2. (filter.buffer \o tcp) \o last = filter.buffer \o (tcp \o last)
      <4> HIDE DEF last
      <4> QED
        BY <3>1, <1>t, Associative
    <3> HIDE DEF head
    <3>3. (head \o wire) \o lost = head \o (wire \o lost)
      BY <3>1, <1>t, Associative
    <3> QED
      BY <3>2, <3>3 DEF head
  <2> HIDE DEF bytes
  <2>6. bytes \o lost = Unread
    BY <2>3, <2>5
  <2>7. IsPrefix(bytes, Unread)
    <3>1. IsPrefix(bytes, bytes \o lost)
      BY <2>4, PrefixOf
    <3> QED
      BY <3>1, <2>6
  <2>8. over # "cut" => bytes = Unread
    <3>1. bytes \o <<>> = bytes
      BY <2>4, Empty
    <3> QED
      BY <3>1, <2>1, <2>6
  <2> QED
    BY <2>7, <2>8
<1>3. PacketsAreAnnounced
  <2> SUFFICES ASSUME main = "idle", WholePacket(filter) PROVE stalled \/ Has(events, "ready")
    BY DEF PacketsAreAnnounced, Announced, Has
  <2>1. HeaderIsRead(filter)
    BY <1>0 DEF ReadyFits
  <2>2. ReadPacketSize(filter) = filter
    <3>1. Len(filter.buffer) \in Nat /\ Header \in Nat
      BY <1>t, LenProperties, PacketAssumption DEF Bytes
    <3> QED
      BY <2>1, <3>1 DEF HeaderIsRead, ReadPacketSize
  <2>3. IsReady(filter)
    BY <2>2 DEF WholePacket
  <2> QED
    BY <2>3, <1>0 DEF ReadyFits
<1>4. OnlyBehindHello
  BY <1>0 DEF StalledFits, OnlyBehindHello
<1> QED
  BY <1>1, <1>2, <1>3, <1>4 DEF PacketsAreWhole

\* What the socket's buffer, the filter's buffer and m_size hold together is what
\* was written and not read, and an idle main thread has no whole packet without
\* an event, but for the packet behind the hello that a server's reader was not
\* told of.
THEOREM PacketsStayWhole == PacketSpec => []PacketsAreWhole
<1>1. PInv => PacketsAreWhole
  BY WholeIs
<1> QED
  BY <1>1, PacketInvariant, PTL

-----------------------------------------------------------------------------
(***************************************************************************)
(* The filter is a stream of packets.                                      *)
(***************************************************************************)
\* When nothing is left anywhere everything was delivered.
LEMMA AllIsDelivered ==
    ASSUME PInv, main = "idle", Open, ended, tcp = <<>>, filter.size = 0, over # "cut"
    PROVE  delivered = sent
<1> DEFINE d == Len(delivered)
<1>0. FilterTypes /\ DeliveredFits /\ BytesFit /\ EndFits /\ ReadyFits
  BY DEF PInv
<1>t. /\ sent \in Seq(Payload) /\ delivered \in Seq(Bytes) /\ filter.buffer \in Bytes
      /\ filter \in FilterType /\ d \in Nat /\ Len(sent) \in Nat
  BY <1>0, LenProperties DEF FilterTypes, NetTypes, MainTypes, ReaderTypes, FilterType
<1>1. Holds(sent, filter, current, d, <<>>)
  <2>1. wire = <<>>
    BY <1>0 DEF EndFits
  <2>2. Holds(sent, filter, current, d, tcp \o (wire \o <<>>))
    BY <1>0 DEF BytesFit
  <2>3. tcp \o (wire \o <<>>) = <<>>
    BY <2>1, Empty
  <2> QED
    BY <2>2, <2>3
<1>2. filter.buffer = UnreadOf(sent, filter, current, d)
  BY <1>1, <1>t, Empty DEF Holds
<1>3. Len(filter.buffer) < Header
  BY <1>0 DEF ReadyFits, HeaderIsRead
<1>4. d = Len(sent)
  <2> SUFFICES ASSUME d # Len(sent) PROVE FALSE
    OBVIOUS
  <2>1. d < Len(sent)
    BY <1>0, <1>t DEF DeliveredFits
  <2> DEFINE frame == Framed(sent[d + 1])
             later == Tails(sent)[d + 2]
  <2>2. /\ sent[d + 1] \in Bytes /\ Len(sent[d + 1]) \in Nat /\ frame \in Bytes /\ later \in Bytes
    BY <2>1, <1>t, MessageIs
  <2>3. Len(frame) = Header + Len(sent[d + 1])
    BY <2>2, FramedIs
  <2>4. filter.buffer = frame \o later
    BY <1>2, <1>t, <2>1, UnreadIs
  <2> HIDE DEF frame, later
  <2>5. Len(frame \o later) = Len(frame) + Len(later) /\ Len(later) \in Nat
    BY <2>2, ConcatProperties, LenProperties DEF Bytes
  <2>6. Len(filter.buffer) = Len(frame) + Len(later)
    BY <2>4, <2>5
  <2> QED
    BY <1>3, <2>2, <2>3, <2>5, <2>6, PacketAssumption
<1>5. \A i \in 1..d : delivered[i] = sent[i]
  BY <1>0 DEF DeliveredFits
<1>6. sent \in Seq(Bytes)
  BY <1>t DEF Payload
<1> QED
  BY <1>4, <1>5, <1>6, <1>t, SeqEqual

LEMMA EndsWhole ==
    ASSUME PInv, CloseStream("ended"),
           FirstIs("shutdown") \/ (FirstIs("socketShutdown") /\ Passed(filter))
    PROVE  Stream!End
<1>0. FilterTypes /\ EndFits /\ ClosedFits
  BY DEF PInv
<1>1. /\ main = "idle" /\ Open /\ ended /\ tcp = <<>> /\ filter.size = 0
  <2>1. CASE FirstIs("shutdown")
    <3>1. main = "idle" /\ events # <<>> /\ Head(events) = "shutdown"
      BY <2>1 DEF FirstIs
    <3>2. Has(events, "shutdown")
      BY <3>1, <1>0, TakeEvent DEF FilterTypes, MainTypes
    <3> QED
      BY <3>1, <3>2, <1>0 DEF EndFits, ClosedFits
  <2>2. CASE FirstIs("socketShutdown") /\ Passed(filter)
    BY <2>2, ShutdownIsLast DEF FirstIs, Passed
  <2> QED
    BY <2>1, <2>2
<1>2. over # "cut" => delivered = sent
  BY <1>1, AllIsDelivered
<1>3. over \in {"closed", "cut"}
  BY <1>0, <1>1 DEF EndFits, FilterTypes, NetTypes
<1>4. reader' = "ended" /\ sent' = sent /\ delivered' = delivered /\ over' = over
  BY DEF CloseStream
<1> QED
  BY <1>1, <1>2, <1>3, <1>4 DEF Open, Stream!End

LEMMA StepIsAStep ==
    ASSUME PInv, [PacketNext]_packetVars PROVE [Stream!StreamNext]_Stream!streamVars
<1>0. FilterTypes /\ ClosedFits /\ DeliveredFits
  BY DEF PInv
<1>s. ASSUME sent' = sent, delivered' = delivered, over' = over, reader' = reader
      PROVE  UNCHANGED Stream!streamVars
  BY <1>s DEF Stream!streamVars
<1>1. CASE Write
  <2>1. PICK payload : sent' = Append(sent, payload)
    BY <1>1 DEF Write
  <2>2. over = "up" /\ delivered' = delivered /\ over' = over /\ reader' = reader
    BY <1>1 DEF Write, readVars
  <2>3. /\ Len(sent') = Len(sent) + 1 /\ sent'[Len(sent) + 1] = payload /\ Len(sent) \in Nat
    BY <2>1, <1>0, LenProperties, AppendProperties DEF FilterTypes, NetTypes
  <2>4. sent' # <<>> /\ Last(sent') = payload
    BY <2>3 DEF Last
  <2>5. Stream!Send
    BY <2>1, <2>2, <2>4 DEF Stream!Send, Stream!Last, Last
  <2> QED
    BY <2>5 DEF Stream!StreamNext
<1>2. CASE Hangup
  <2>1. /\ over = "up" /\ over' \in {"closed", "cut"}
        /\ sent' = sent /\ delivered' = delivered /\ reader' = reader
    BY <1>2 DEF Hangup, readVars
  <2> QED
    BY <2>1 DEF Stream!Stop, Stream!StreamNext
<1>3. CASE Arrive \/ ArriveEnd
  BY <1>3, <1>s DEF Arrive, ArriveEnd, readVars
<1>4. CASE FilterReady \/ ReadMore \/ ReadNoMore \/ StreamReady \/ ReadNothing
  BY <1>4, <1>s DEF FilterReady, ReadMore, ReadNoMore, StreamReady, ReadNothing, readVars, netVars
<1>5. CASE FilterShutdown
  <2>1. CASE Passed(filter)
    <3>1. Stream!End
      BY <1>5, <2>1, EndsWhole DEF FilterShutdown
    <3> QED
      BY <3>1 DEF Stream!StreamNext
  <2>2. CASE ~Passed(filter)
    BY <1>5, <2>2, <1>s DEF FilterShutdown, readVars, netVars
  <2> QED
    BY <2>1, <2>2
<1>6. CASE StreamShutdown
  <2>1. Stream!End
    BY <1>6, EndsWhole DEF StreamShutdown
  <2> QED
    BY <2>1 DEF Stream!StreamNext
<1>7. CASE Read
  <2> DEFINE d == Len(delivered)
  <2>1. main = "reading" /\ d < Len(sent) /\ sent' = sent /\ over' = over
    BY <1>7 DEF Read, netVars
  <2>2. ReadTakes(d)
    BY <1>7, ReadTakesBytes
  <2>3. Open
    BY <2>1, <1>0 DEF ClosedFits
  <2>4. CASE reader' = reader /\ delivered' = delivered
    BY <2>1, <2>4, <1>s
  <2>5. CASE reader' = "proxy" /\ delivered' = Append(delivered, sent[d + 1])
    BY <2>1, <2>3, <2>5 DEF Open, Stream!Deliver, Stream!StreamNext
  <2> QED
    BY <2>2, <2>4, <2>5 DEF ReadTakes
<1>8. CASE GiveUp
  <2>1. /\ reader \in {"hello", "proxy"} /\ reader' = "gone"
        /\ sent' = sent /\ delivered' = delivered /\ over' = over
    BY <1>8 DEF GiveUp, CloseStream
  <2> QED
    BY <2>1 DEF Stream!LeaveStream, Stream!StreamNext
<1>9. CASE UNCHANGED packetVars
  BY <1>9, <1>s DEF packetVars, netVars, readVars
<1> QED
  BY <1>1, <1>2, <1>3, <1>4, <1>5, <1>6, <1>7, <1>8, <1>9
     DEF PacketNext, PeerWrites, SocketReads, MainDispatches

\* However the bytes are cut on their way, the filter's reader has the packets
\* whole and in order, and is told of the end after the last of them.
THEOREM FilterIsAStream == PacketSpec => StreamSpec
<1>1. PacketInit => Stream!StreamInit
  BY DEF PacketInit, Stream!StreamInit
<1>2. PInv /\ [PacketNext]_packetVars => [Stream!StreamNext]_Stream!streamVars
  BY StepIsAStep
<1> QED
  BY <1>1, <1>2, PacketInvariant, PTL DEF PacketSpec, StreamSpec, Stream!StreamSpec
===============================================================================
