------------------------- MODULE EngineSessionProofs -------------------------
(***************************************************************************)
(* For every value of the constants: the records of a session keep their   *)
(* types, a held poll is never left waiting while packets wait too, both   *)
(* ends agree on the exchange of transports, and no poll of a client that  *)
(* is there is refused.  Over textual payloads the session is a reliable   *)
(* channel to the client (ChannelInv); with binary contents what is heard  *)
(* of the client is heard once and in order (HeardInv).                    *)
(***************************************************************************)
EXTENDS EngineSession, DataLemmas, FiniteSetTheorems

-----------------------------------------------------------------------------
\* Packets and payloads.

LEMMA ControlPacket ==
  ASSUME NEW t \in ControlTypes
  PROVE  Control(t) \in Packet /\ Control(t).type = t
BY DEF Control, Packet

LEMMA MessagePacket ==
  ASSUME NEW k \in Nat
  PROVE  Message(k) \in Packet /\ Message(k).type = "message"
BY DEF Message, Packet

LEMMA QueueFacts ==
  /\ <<>> \in Seq(Packet)
  /\ \A q \in Seq(Packet), p \in Packet : Append(q, p) \in Seq(Packet)
  /\ \A q, r \in Seq(Packet) : q \o r \in Seq(Packet)
  /\ \A q \in Seq(Packet) : q # <<>> =>
       Tail(q) \in Seq(Packet) /\ Head(q) \in Packet
OBVIOUS

\* What goes into the body of a poll's answer.
LEMMA EncodeType ==
  ASSUME NEW q \in Seq(Packet), q # <<>>
  PROVE  EncodePayload(q) \in Seq(Packet)
<1>1. Len(q) \in 1..Len(q)
  OBVIOUS
<1>2. q[Len(q)] \in Packet
  BY <1>1
<1> QED
  BY <1>2 DEF EncodePayload

LEMMA DecodeType ==
  ASSUME NEW q \in Seq(Packet)
  PROVE  DecodePayload(q) \in Seq(Packet)
BY DEF DecodePayload

LEMMA PongsType ==
  ASSUME NEW q \in Seq(Packet)
  PROVE  Pongs(q) \in Seq(Packet)
<1> DEFINE pings == {i \in 1..Len(q) : q[i].type = "ping"}
<1>1. IsFiniteSet(1..Len(q))
  BY FS_Interval
<1>2. Cardinality(pings) \in Nat
  BY <1>1, FS_Subset, FS_CardinalityType
<1>3. Control("pong") \in Packet
  BY ControlPacket DEF ControlTypes
<1> HIDE DEF pings
<1>4. [i \in 1..Cardinality(pings) |-> Control("pong")] \in Seq(Packet)
  BY <1>2, <1>3
<1> QED
  BY <1>4 DEF Pongs, pings

-----------------------------------------------------------------------------
\* The numbers of the messages in a queue.

\* The recursion that Numbers is the last value of.
Numbering(F, q) ==
  F = [i \in 0..Len(q) |->
         IF i = 0 THEN <<>>
         ELSE IF q[i].type = "message" THEN Append(F[i - 1], q[i].n)
                                       ELSE F[i - 1]]

LEMMA NumbersIs ==
  ASSUME NEW q
  PROVE  Numbers(q) = (CHOOSE F : Numbering(F, q))[Len(q)]
BY DEF Numbers, Numbering

\* One packet more.
LEMMA NumberingAppend ==
  ASSUME NEW q \in Seq(Packet), NEW p \in Packet, NEW F, Numbering(F, q)
  PROVE  \E G : Numbering(G, Append(q, p))
<1> DEFINE n == Len(q)
           r == Append(q, p)
           G == [i \in 0..n + 1 |->
                   IF i <= n THEN F[i]
                   ELSE IF p.type = "message" THEN Append(F[n], p.n) ELSE F[n]]
<1>1. n \in Nat /\ Len(r) = n + 1 /\ r[n + 1] = p /\ \A i \in 1..n : r[i] = q[i]
  BY LenProperties, AppendProperties
<1>2. ASSUME NEW i \in 0..n + 1
      PROVE  G[i] = IF i = 0 THEN <<>>
                    ELSE IF r[i].type = "message" THEN Append(G[i - 1], r[i].n)
                                                  ELSE G[i - 1]
  <2>1. CASE i = 0
    BY <2>1, <1>1 DEF Numbering
  <2>2. CASE i \in 1..n
    <3>1. G[i] = F[i] /\ G[i - 1] = F[i - 1] /\ r[i] = q[i]
      BY <2>2, <1>1
    <3>2. i \in 0..Len(q) /\ i # 0
      BY <2>2
    <3> HIDE DEF G, r
    <3> QED
      BY <3>1, <3>2 DEF Numbering
  <2>3. CASE i = n + 1
    <3>1. r[i] = p /\ i # 0 /\ G[i - 1] = F[n] /\ i - 1 = n
      BY <2>3, <1>1
    <3>2. G[i] = IF p.type = "message" THEN Append(F[n], p.n) ELSE F[n]
      BY <2>3, <1>1
    <3> HIDE DEF G, r
    <3> QED
      BY <3>1, <3>2
  <2> QED
    BY <2>1, <2>2, <2>3, <1>1
<1>3. G = [i \in 0..Len(r) |-> G[i]]
  BY <1>1
<1> HIDE DEF G
<1>4. Numbering(G, r)
  BY <1>1, <1>2, <1>3 DEF Numbering
<1> QED
  BY <1>4

LEMMA NumberingExists ==
  ASSUME NEW q \in Seq(Packet)
  PROVE  Numbering(CHOOSE F : Numbering(F, q), q)
<1> DEFINE T == {r \in Seq(Packet) : \E F : Numbering(F, r)}
<1>1. <<>> \in T
  <2>1. Numbering([i \in 0..0 |-> <<>>], <<>>)
    BY DEF Numbering
  <2> QED
    BY <2>1, EmptySeq
<1>2. \A r \in T, p \in Packet : Append(r, p) \in T
  BY NumberingAppend, AppendProperties
<1>3. T = Seq(Packet)
  <2> HIDE DEF T
  <2>1. T \in SUBSET Seq(Packet)
    BY DEF T
  <2> QED
    BY <1>1, <1>2, <2>1, SequenceInduction
<1> QED
  BY <1>3

\* What a packet more changes nothing of.
LEMMA NumberingAgrees ==
  ASSUME NEW q \in Seq(Packet), NEW p \in Packet, NEW F, NEW G,
         Numbering(F, q), Numbering(G, Append(q, p))
  PROVE  G[Len(q)] = F[Len(q)]
<1> DEFINE n == Len(q)
           r == Append(q, p)
           T == {i \in Nat : i <= n => G[i] = F[i]}
<1>1. n \in Nat /\ Len(r) = n + 1 /\ \A i \in 1..n : r[i] = q[i]
  BY LenProperties, AppendProperties
<1>2. 0 \in T
  BY <1>1 DEF Numbering
<1>3. ASSUME NEW i \in T PROVE i + 1 \in T
  <2> SUFFICES ASSUME i + 1 <= n PROVE G[i + 1] = F[i + 1]
    OBVIOUS
  <2>1. i + 1 \in 0..n /\ i + 1 \in 0..n + 1 /\ i + 1 # 0 /\ (i + 1) - 1 = i
    BY <1>1
  <2>2. G[i] = F[i] /\ r[i + 1] = q[i + 1]
    BY <1>1
  <2> HIDE DEF r, n
  <2>3. G[i + 1] = IF r[i + 1].type = "message" THEN Append(G[i], r[i + 1].n) ELSE G[i]
    BY <2>1, <1>1 DEF Numbering, r
  <2>4. F[i + 1] = IF q[i + 1].type = "message" THEN Append(F[i], q[i + 1].n) ELSE F[i]
    BY <2>1 DEF Numbering, n
  <2> QED
    BY <2>2, <2>3, <2>4
<1>4. T = Nat
  <2> HIDE DEF T
  <2>1. T \in SUBSET Nat
    BY DEF T
  <2> QED
    BY <1>2, <1>3, <2>1, NumberInduction
<1> QED
  BY <1>1, <1>4

LEMMA NumbersEmpty == Numbers(<<>>) = <<>>
<1>1. Numbering(CHOOSE F : Numbering(F, <<>>), <<>>)
  BY NumberingExists, EmptySeq
<1> QED
  BY <1>1, NumbersIs DEF Numbering

LEMMA NumbersAppend ==
  ASSUME NEW q \in Seq(Packet), NEW p \in Packet
  PROVE  Numbers(Append(q, p)) =
           IF p.type = "message" THEN Append(Numbers(q), p.n) ELSE Numbers(q)
<1> DEFINE r == Append(q, p)
           F == CHOOSE X : Numbering(X, q)
           G == CHOOSE X : Numbering(X, r)
           n == Len(q)
<1>1. /\ n \in Nat /\ r \in Seq(Packet) /\ Len(r) = n + 1 /\ r[n + 1] = p
  BY LenProperties, AppendProperties
<1>2. Numbering(F, q) /\ Numbers(q) = F[n]
  BY NumberingExists, NumbersIs
<1>3. Numbering(G, r) /\ Numbers(r) = G[n + 1]
  <2> HIDE DEF r
  <2> QED
    BY <1>1, NumberingExists, NumbersIs
<1> HIDE DEF F, G
<1>4. G[n] = F[n]
  BY <1>2, <1>3, NumberingAgrees
<1>5. G[n + 1] = IF p.type = "message" THEN Append(G[n], p.n) ELSE G[n]
  <2>1. n + 1 \in 0..Len(r) /\ n + 1 # 0 /\ (n + 1) - 1 = n
    BY <1>1
  <2> HIDE DEF r, n
  <2> QED
    BY <1>3, <1>1, <2>1 DEF Numbering
<1> QED
  BY <1>2, <1>3, <1>4, <1>5

LEMMA NumbersType ==
  ASSUME NEW q \in Seq(Packet)
  PROVE  Numbers(q) \in Seq(Nat)
<1> DEFINE T == {r \in Seq(Packet) : Numbers(r) \in Seq(Nat)}
<1>1. <<>> \in T
  BY NumbersEmpty, EmptySeq
<1>2. ASSUME NEW r \in T, NEW p \in Packet PROVE Append(r, p) \in T
  <2>1. p.n \in Nat /\ Append(r, p) \in Seq(Packet) /\ Numbers(r) \in Seq(Nat)
    BY AppendProperties DEF Packet
  <2>2. Append(Numbers(r), p.n) \in Seq(Nat)
    BY <2>1, AppendProperties
  <2> QED
    BY <2>1, <2>2, NumbersAppend
<1>3. T = Seq(Packet)
  <2> HIDE DEF T
  <2>1. T \in SUBSET Seq(Packet)
    BY DEF T
  <2> QED
    BY <1>1, <1>2, <2>1, SequenceInduction
<1> QED
  BY <1>3

\* The numbers of two queues one after the other.
LEMMA NumbersConcat ==
  ASSUME NEW q \in Seq(Packet), NEW r \in Seq(Packet)
  PROVE  Numbers(q \o r) = Numbers(q) \o Numbers(r)
<1> DEFINE T == {s \in Seq(Packet) : Numbers(q \o s) = Numbers(q) \o Numbers(s)}
<1>1. <<>> \in T
  <2>1. q \o <<>> = q /\ Numbers(q) \o <<>> = Numbers(q)
    BY ConcatEmptySeq, NumbersType
  <2> QED
    BY <2>1, NumbersEmpty, EmptySeq
<1>2. ASSUME NEW s \in T, NEW p \in Packet PROVE Append(s, p) \in T
  <2>1. s \in Seq(Packet) /\ q \o s \in Seq(Packet)
        /\ Append(s, p) \in Seq(Packet)
    BY ConcatProperties, AppendProperties
  <2>2. q \o Append(s, p) = Append(q \o s, p)
    BY <2>1
  <2>3. /\ Numbers(q) \in Seq(Nat) /\ Numbers(s) \in Seq(Nat) /\ p.n \in Nat
    BY <2>1, NumbersType DEF Packet
  <2>4. Numbers(q) \o Append(Numbers(s), p.n) = Append(Numbers(q) \o Numbers(s), p.n)
    BY <2>3
  <2> QED
    BY <2>1, <2>2, <2>4, NumbersAppend
<1>3. T = Seq(Packet)
  <2> HIDE DEF T
  <2>1. T \in SUBSET Seq(Packet)
    BY DEF T
  <2> QED
    BY <1>1, <1>2, <2>1, SequenceInduction
<1> QED
  BY <1>3

LEMMA NumbersOne ==
  ASSUME NEW p \in Packet
  PROVE  Numbers(<<p>>) = IF p.type = "message" THEN <<p.n>> ELSE <<>>
<1>1. <<p>> = Append(<<>>, p)
  OBVIOUS
<1>2. Append(<<>>, p.n) = <<p.n>>
  OBVIOUS
<1> QED
  BY <1>1, <1>2, EmptySeq, NumbersEmpty, NumbersAppend

LEMMA NumbersHead ==
  ASSUME NEW q \in Seq(Packet), q # <<>>
  PROVE  Numbers(q) = Numbers(<<Head(q)>>) \o Numbers(Tail(q))
<1>1. Head(q) \in Packet /\ Tail(q) \in Seq(Packet) /\ <<Head(q)>> \in Seq(Packet)
  BY HeadTailProperties
<1>2. q = <<Head(q)>> \o Tail(q)
  BY <1>1
<1> QED
  BY <1>1, <1>2, NumbersConcat

-----------------------------------------------------------------------------
\* The server's operations on its record.

\* What every handler finds and leaves: over polling the transport is writable
\* exactly while a poll is held, and no answer is under way to a held poll.
Matched(s) ==
  /\ s.transport = "polling" => s.poll = s.writable
  /\ s.poll => s.reply = <<>>

\* What every handler leaves once it has flushed.
Flushed(s) == s.transport = "polling" /\ s.poll => s.buffer = <<>>

\* An operation of the server that keeps the transport and the registration,
\* holds no new poll, and answers only a poll that was held.
Keeps(s, t) ==
  /\ t.transport = s.transport
  /\ t.registered = s.registered
  /\ t.poll => s.poll
  /\ t.reply # s.reply => s.poll

LEMMA FlushFacts ==
  ASSUME NEW s \in ServerState, Matched(s)
  PROVE  /\ Flush(s) \in ServerState
         /\ Matched(Flush(s))
         /\ Flushed(Flush(s))
         /\ Keeps(s, Flush(s))
<1> DEFINE emptied == [s EXCEPT !.buffer = <<>>]
<1>1. CASE ~IsWritable(s) \/ s.buffer = <<>>
  <2>1. Flush(s) = s
    BY <1>1 DEF Flush
  <2>2. Flushed(s)
    BY <1>1 DEF Flushed, IsWritable, Matched
  <2> QED
    BY <2>1, <2>2 DEF Keeps
<1>2. CASE IsWritable(s) /\ s.buffer # <<>>
  <2>1. s.buffer \in Seq(Packet) /\ s.frames \in Seq(Packet)
    BY DEF ServerState
  <2>2. emptied \in ServerState
    BY QueueFacts DEF ServerState
  <2>3. CASE s.transport = "polling"
    <3>1. Flush(s) = AnswerPoll(emptied, s.buffer)
      BY <1>2, <2>3 DEF Flush, ServerState
    <3>2. EncodePayload(s.buffer) \in Seq(Packet)
      BY <1>2, <2>1, EncodeType
    <3>3. s.poll
      BY <1>2, <2>3 DEF IsWritable, Matched
    <3> QED
      BY <2>2, <2>3, <3>1, <3>2, <3>3
      DEF AnswerPoll, ServerState, Matched, Flushed, Keeps
  <2>4. CASE s.transport = "websocket"
    <3>1. Flush(s) = SendFrames(emptied, s.buffer)
      BY <1>2, <2>4 DEF Flush, ServerState
    <3>2. s.frames \o s.buffer \in Seq(Packet)
      BY <2>1
    <3> QED
      BY <2>2, <2>4, <3>1, <3>2
      DEF SendFrames, ServerState, Matched, Flushed, Keeps
  <2> QED
    BY <2>3, <2>4 DEF ServerState, Transport
<1> QED
  BY <1>1, <1>2

LEMMA SendFacts ==
  ASSUME NEW s \in ServerState, Matched(s), NEW p \in Packet
  PROVE  /\ Send(s, p) \in ServerState
         /\ Matched(Send(s, p))
         /\ Flushed(Send(s, p))
         /\ Keeps(s, Send(s, p))
<1> DEFINE t == [s EXCEPT !.buffer = Append(@, p)]
<1>1. t \in ServerState
  <2>1. Append(s.buffer, p) \in Seq(Packet)
    BY QueueFacts DEF ServerState
  <2> QED
    BY <2>1 DEF ServerState
<1>2. t.transport = s.transport /\ t.registered = s.registered
      /\ t.poll = s.poll /\ t.reply = s.reply
  BY DEF ServerState
<1>3. Matched(t)
  <2>1. t.writable = s.writable
    BY DEF ServerState
  <2> QED
    BY <1>2, <2>1 DEF Matched
<1>4. Send(s, p) = Flush(t)
  BY DEF Send
<1> HIDE DEF t
<1> QED
  BY <1>1, <1>2, <1>3, <1>4, FlushFacts DEF Keeps

\* Holding a poll: afterwards there is a poll or an answer, never both.
LEMMA HoldPollFacts ==
  ASSUME NEW s \in ServerState, s.reply = <<>>
  PROVE  /\ HoldPoll(s) \in ServerState
         /\ Matched(HoldPoll(s))
         /\ Flushed(HoldPoll(s))
         /\ HoldPoll(s).transport = s.transport
         /\ HoldPoll(s).registered = s.registered
<1> DEFINE t == [s EXCEPT !.poll = TRUE, !.writable = TRUE]
<1>1. t \in ServerState /\ Matched(t)
  BY DEF ServerState, Matched
<1>2. t.transport = s.transport /\ t.registered = s.registered
  BY DEF ServerState
<1>3. HoldPoll(s) = Flush(t)
  BY DEF HoldPoll
<1> HIDE DEF t
<1> QED
  BY <1>1, <1>2, <1>3, FlushFacts DEF Keeps

-----------------------------------------------------------------------------
\* The client's operations on its record.

\* What the client knows of the exchange: it is made exactly when the upgrade
\* packet is sent, with no poll and no write out.
Agrees(c) ==
  c.state # "closed" =>
    /\ Contains(c.up, "upgrade") => c.probe = "done"
    /\ c.transport = "websocket" <=> c.probe = "done"
    /\ c.probe = "done" => c.get = "none" /\ c.post = "none"
    /\ c.probe # "none" => c.state = "open"
    /\ c.state = "idle" => c.get = "none"

LEMMA ContainsAppend ==
  ASSUME NEW q \in Seq(Packet), NEW p \in Packet, NEW t,
         Contains(Append(q, p), t)
  PROVE  Contains(q, t) \/ p.type = t
<1>1. PICK i \in 1..Len(Append(q, p)) : Append(q, p)[i].type = t
  BY DEF Contains
<1>2. CASE i = Len(q) + 1
  BY <1>1, <1>2
<1>3. CASE i # Len(q) + 1
  <2>1. i \in 1..Len(q) /\ Append(q, p)[i] = q[i]
    BY <1>3
  <2> QED
    BY <1>1, <2>1 DEF Contains
<1> QED
  BY <1>2, <1>3

LEMMA ContainsTail ==
  ASSUME NEW q \in Seq(Packet), q # <<>>, NEW t, Contains(Tail(q), t)
  PROVE  Contains(q, t)
<1>1. PICK i \in 1..Len(Tail(q)) : Tail(q)[i].type = t
  BY DEF Contains
<1>2. i + 1 \in 1..Len(q) /\ Tail(q)[i] = q[i + 1]
  OBVIOUS
<1> QED
  BY <1>1, <1>2 DEF Contains

LEMMA ClientFlushFacts ==
  ASSUME NEW c \in ClientState, Agrees(c)
  PROVE  /\ ClientFlush(c) \in ClientState
         /\ Agrees(ClientFlush(c))
         /\ ClientFlush(c).state = c.state
         /\ ClientFlush(c).get = c.get
         /\ ClientFlush(c).probe = c.probe
<1> DEFINE flushes == c.state = "open" /\ c.probe # "pausing" /\ c.outbox # <<>>
<1>1. CASE ~flushes
  BY <1>1 DEF ClientFlush
<1>2. CASE flushes /\ c.transport = "websocket"
  <2> DEFINE d == [c EXCEPT !.up = @ \o c.outbox, !.outbox = <<>>]
  <2>1. ClientFlush(c) = d
    BY <1>2 DEF ClientFlush
  <2>2. c.up \o c.outbox \in Seq(Packet)
    BY QueueFacts DEF ClientState
  <2>3. d \in ClientState
    BY <2>2, QueueFacts DEF ClientState
  <2>4. c.probe = "done"
    BY <1>2 DEF Agrees
  <2> QED
    BY <1>2, <2>1, <2>3, <2>4 DEF Agrees, ClientState
<1>3. CASE flushes /\ c.transport = "polling" /\ c.post = "none"
  <2> DEFINE d == [c EXCEPT !.post = "request", !.body = c.outbox,
                            !.outbox = <<>>]
  <2>1. ClientFlush(c) = d
    BY <1>3 DEF ClientFlush
  <2>2. d \in ClientState
    BY QueueFacts DEF ClientState
  <2>3. c.probe # "done"
    BY <1>3 DEF Agrees
  <2> QED
    BY <1>3, <2>1, <2>2, <2>3 DEF Agrees, ClientState
<1>4. CASE flushes /\ c.transport = "polling" /\ c.post # "none"
  BY <1>4 DEF ClientFlush
<1> QED
  BY <1>1, <1>2, <1>3, <1>4 DEF ClientState, Transport

\* The exchange at the client keeps its poll and its state.
LEMMA ClientPausedFacts ==
  ASSUME NEW c \in ClientState, Agrees(c)
  PROVE  /\ ClientPaused(c) \in ClientState
         /\ Agrees(ClientPaused(c))
         /\ ClientPaused(c).state = c.state
         /\ ClientPaused(c).get = c.get
         /\ c.probe # "pausing" => ClientPaused(c).probe = c.probe
<1>1. CASE c.probe = "pausing" /\ c.get = "none" /\ c.post = "none"
  <2> DEFINE d == [c EXCEPT !.probe = "done", !.transport = "websocket",
                            !.up = Append(@, Control("upgrade"))]
  <2>1. ClientPaused(c) = ClientFlush(d)
    BY <1>1 DEF ClientPaused
  <2>2. Control("upgrade") \in Packet
    BY ControlPacket DEF ControlTypes
  <2>3. Append(c.up, Control("upgrade")) \in Seq(Packet)
    BY <2>2, QueueFacts DEF ClientState
  <2>4. d \in ClientState
    BY <2>3 DEF ClientState, Transport
  <2>5. d.state = c.state /\ d.get = c.get /\ d.post = c.post
        /\ d.probe = "done" /\ d.transport = "websocket"
    BY DEF ClientState
  <2>6. Agrees(d)
    BY <1>1, <2>5 DEF Agrees
  <2> HIDE DEF d
  <2> QED
    BY <1>1, <2>1, <2>4, <2>5, <2>6, ClientFlushFacts
<1>2. CASE ~(c.probe = "pausing" /\ c.get = "none" /\ c.post = "none")
  BY <1>2 DEF ClientPaused
<1> QED
  BY <1>1, <1>2

LEMMA ClientClosedFacts ==
  ASSUME NEW c \in ClientState
  PROVE  /\ ClientClosed(c) \in ClientState
         /\ Agrees(ClientClosed(c))
         /\ ClientClosed(c).state = "closed"
         /\ ClientClosed(c).get = c.get
<1>1. <<Control("close")>> \in Seq(Packet)
  BY ControlPacket DEF ControlTypes
<1> QED
  BY <1>1 DEF ClientClosed, Agrees, ClientState

\* Something is queued and flushed.
LEMMA ClientSendFacts ==
  ASSUME NEW c \in ClientState, Agrees(c), NEW p \in Packet
  PROVE  /\ ClientSend(c, p) \in ClientState
         /\ Agrees(ClientSend(c, p))
         /\ ClientSend(c, p).state = c.state
         /\ ClientSend(c, p).get = c.get
         /\ ClientSend(c, p).probe = c.probe
<1> DEFINE d == [c EXCEPT !.outbox = Append(@, p)]
<1>1. Append(c.outbox, p) \in Seq(Packet)
  BY QueueFacts DEF ClientState
<1>2. d \in ClientState
  BY <1>1 DEF ClientState
<1>3. d.state = c.state /\ d.get = c.get /\ d.probe = c.probe
      /\ d.transport = c.transport /\ d.post = c.post /\ d.up = c.up
  BY DEF ClientState
<1>4. Agrees(d)
  BY <1>3 DEF Agrees
<1>5. ClientSend(c, p) = ClientFlush(d)
  BY DEF ClientSend
<1> HIDE DEF d
<1> QED
  BY <1>2, <1>3, <1>4, <1>5, ClientFlushFacts

-----------------------------------------------------------------------------
\* What the two ends know of each other.
Linked(s, c) ==
  /\ c.get # "held" => ~s.poll /\ s.reply = <<>>
  /\ c.state # "closed" =>
       /\ s.transport = "websocket" => c.probe = "done"
       /\ c.get \in {"request", "held"} \/ c.state = "open" => s.registered
       /\ c.get # "refused"

\* The inductive invariant.
ServerInv == Matched(server) /\ Flushed(server)
IInv == EndsTyped /\ ServerInv /\ Agrees(client) /\ Linked(server, client)

LEMMA InitIInv == Init => IInv
<1> SUFFICES ASSUME Init PROVE IInv
  OBVIOUS
<1>1. EndsTyped
  BY QueueFacts DEF Init, EndsTyped, ServerState, ClientState, Transport
<1>2. ~Contains(client.up, "upgrade")
  BY DEF Init, Contains
<1> QED
  BY <1>1, <1>2 DEF Init, IInv, ServerInv, Matched, Flushed, Agrees, Linked

\* An operation of the server that keeps what Keeps says keeps the link.
LEMMA KeepsLinked ==
  ASSUME NEW s \in ServerState, NEW t \in ServerState, NEW c \in ClientState,
         Linked(s, c), Keeps(s, t)
  PROVE  Linked(t, c)
BY DEF Linked, Keeps, ServerState

-----------------------------------------------------------------------------
\* The server's actions.

LEMMA HandleHandshakeStep == IInv /\ HandleHandshake => IInv'
<1> SUFFICES ASSUME IInv, HandleHandshake PROVE IInv'
  OBVIOUS
<1> DEFINE s == [server EXCEPT !.registered = TRUE]
           h == HoldPoll(s)
<1>1. s \in ServerState /\ s.reply = <<>> /\ s.registered
      /\ s.transport = server.transport
  BY DEF IInv, EndsTyped, ServerState, Linked, HandleHandshake
<1>2. /\ h \in ServerState /\ Matched(h)
      /\ h.transport = server.transport /\ h.registered
  <2> HIDE DEF s
  <2> QED
    BY <1>1, HoldPollFacts
<1>3. Control("open") \in Packet
  BY ControlPacket DEF ControlTypes
<1>4. server' = Send(h, Control("open"))
  BY DEF HandleHandshake
<1>5. /\ server' \in ServerState /\ Matched(server') /\ Flushed(server')
      /\ server'.transport = server.transport /\ server'.registered
  <2> HIDE DEF h
  <2> QED
    BY <1>2, <1>3, <1>4, SendFacts DEF Keeps
<1>6. /\ client' = [client EXCEPT !.get = "held"]
      /\ client.get = "handshake" /\ client \in ClientState
  BY DEF HandleHandshake, IInv, EndsTyped
<1>7. client' \in ClientState /\ Agrees(client')
  BY <1>6 DEF ClientState, Agrees, IInv
<1> QED
  BY <1>5, <1>6, <1>7
  DEF IInv, EndsTyped, ServerInv, Linked, HandleHandshake, ClientState

LEMMA HandlePollStep == IInv /\ HandlePoll => IInv'
<1> SUFFICES ASSUME IInv, HandlePoll PROVE IInv'
  OBVIOUS
<1>1. server \in ServerState /\ client \in ClientState /\ client.get = "request"
      /\ sent' = sent /\ said' = said /\ server.reply = <<>> /\ ~server.poll
  BY DEF IInv, EndsTyped, HandlePoll, Linked
<1>2. CASE Verified
  <2>1. server' = HoldPoll(server) /\ client' = [client EXCEPT !.get = "held"]
    BY <1>1, <1>2 DEF HandlePoll
  <2>2. /\ server' \in ServerState /\ Matched(server') /\ Flushed(server')
        /\ server'.transport = server.transport
        /\ server'.registered = server.registered
    BY <1>1, <2>1, HoldPollFacts
  <2>3. client' \in ClientState /\ Agrees(client')
    BY <1>1, <2>1 DEF ClientState, Agrees, IInv
  <2> QED
    BY <1>1, <2>1, <2>2, <2>3
    DEF IInv, EndsTyped, ServerInv, Linked, ClientState
<1>3. CASE ~Verified
  <2>1. server' = server /\ client' = [client EXCEPT !.get = "refused"]
    BY <1>3 DEF HandlePoll
  <2>2. client.state = "closed"
    BY <1>1, <1>3
    DEF Verified, IInv, EndsTyped, Linked, Agrees, ServerState, Transport
  <2>3. client' \in ClientState /\ Agrees(client') /\ Linked(server', client')
    BY <1>1, <2>1, <2>2 DEF ClientState, Agrees, IInv, Linked
  <2> QED
    BY <1>1, <2>1, <2>3 DEF IInv, EndsTyped, ServerInv
<1> QED
  BY <1>2, <1>3

LEMMA HandleDataStep == IInv /\ HandleData => IInv'
<1> SUFFICES ASSUME IInv, HandleData PROVE IInv'
  OBVIOUS
<1>1. server \in ServerState /\ client \in ClientState
      /\ client.post = "request" /\ sent' = sent /\ said' = said
  BY DEF IInv, EndsTyped, HandleData
<1>2. /\ client' \in ClientState
      /\ \E v \in {"ok", "refused"} :
           client' = [client EXCEPT !.post = v, !.body = <<>>]
  <2>1. PICK v \in {"ok", "refused"} : client' = [client EXCEPT !.post = v, !.body = <<>>]
    BY DEF HandleData
  <2>2. <<>> \in Seq(Packet)
    OBVIOUS
  <2> QED
    BY <1>1, <2>1, <2>2 DEF ClientState
<1>3. Agrees(client') /\ client'.get = client.get
      /\ client'.state = client.state /\ client'.probe = client.probe
  BY <1>1, <1>2 DEF Agrees, IInv, ClientState
<1>4. CASE Verified /\ ~server.poll
  <2>1. server' = [server EXCEPT !.buffer = @ \o Pongs(DecodePayload(client.body))]
    BY <1>4 DEF HandleData
  <2>2. DecodePayload(client.body) \in Seq(Packet)
    BY <1>1, DecodeType DEF ClientState
  <2>3. server.buffer \o Pongs(DecodePayload(client.body)) \in Seq(Packet)
    BY <1>1, <2>2, PongsType, QueueFacts DEF ServerState
  <2>4. server' \in ServerState
    BY <1>1, <2>1, <2>3 DEF ServerState
  <2>5. /\ server'.transport = server.transport /\ server'.poll = server.poll
        /\ server'.writable = server.writable /\ server'.reply = server.reply
        /\ server'.registered = server.registered
    BY <1>1, <2>1 DEF ServerState
  <2> QED
    BY <1>1, <1>2, <1>3, <1>4, <2>4, <2>5
    DEF IInv, EndsTyped, ServerInv, Matched, Flushed, Linked
<1>5. CASE ~(Verified /\ ~server.poll)
  <2>1. server' = server
    BY <1>5 DEF HandleData
  <2> QED
    BY <1>1, <1>2, <1>3, <2>1 DEF IInv, EndsTyped, ServerInv, Linked
<1> QED
  BY <1>4, <1>5

LEMMA HandleUpgradeStep == IInv /\ HandleUpgrade => IInv'
<1> SUFFICES ASSUME IInv, HandleUpgrade PROVE IInv'
  OBVIOUS
<1>1. server \in ServerState /\ client \in ClientState
      /\ sent' = sent /\ said' = said
  BY DEF IInv, EndsTyped, HandleUpgrade
<1>2. \/ server' = [server EXCEPT !.upgrading = TRUE]
      \/ server' = server
  BY DEF HandleUpgrade
<1>3. \E v \in {"open", "closed"} : client' = [client EXCEPT !.ws = v]
  BY DEF HandleUpgrade
<1>4. server' \in ServerState /\ Matched(server') /\ Flushed(server')
      /\ Keeps(server, server')
  BY <1>1, <1>2 DEF ServerState, Matched, Flushed, Keeps, IInv, ServerInv
<1>5. client' \in ClientState /\ Agrees(client') /\ Linked(server, client')
  <2>1. PICK v \in {"open", "closed"} : client' = [client EXCEPT !.ws = v]
    BY <1>3
  <2>2. client' \in ClientState
    BY <1>1, <2>1 DEF ClientState
  <2>3. /\ client'.state = client.state /\ client'.get = client.get
        /\ client'.post = client.post /\ client'.probe = client.probe
        /\ client'.up = client.up /\ client'.transport = client.transport
    BY <1>1, <2>1 DEF ClientState
  <2> QED
    BY <2>2, <2>3 DEF Agrees, IInv, Linked
<1> QED
  BY <1>1, <1>4, <1>5, KeepsLinked DEF IInv, EndsTyped, ServerInv

\* A frame on the websocket before the exchange: the only packet that makes the
\* server switch is one the client sends when it has switched itself.
LEMMA OnPacketWhenUpgradingFacts ==
  ASSUME IInv, NEW p \in Packet, OnPacketWhenUpgrading(p),
         client.state # "closed" /\ p.type = "upgrade" => client.probe = "done"
  PROVE  /\ server' \in ServerState /\ Matched(server') /\ Flushed(server')
         /\ Linked(server', client)
<1>1. /\ server \in ServerState /\ client \in ClientState
      /\ Matched(server) /\ Flushed(server) /\ Linked(server, client)
      /\ server.transport = "polling"
  BY DEF IInv, EndsTyped, ServerInv, OnPacketWhenUpgrading
<1>2. CASE p.type = "probe"
  <2> DEFINE s == SendFrames(server, <<Control("probed")>>)
  <2>1. server' = Send(s, Control("noop"))
    BY <1>2 DEF OnPacketWhenUpgrading
  <2>2. Control("noop") \in Packet /\ <<Control("probed")>> \in Seq(Packet)
    BY ControlPacket DEF ControlTypes
  <2>3. server.frames \o <<Control("probed")>> \in Seq(Packet)
    BY <1>1, <2>2, QueueFacts DEF ServerState
  <2>4. s \in ServerState /\ Matched(s) /\ Keeps(server, s)
    BY <1>1, <2>3 DEF SendFrames, ServerState, Matched, Keeps
  <2>5. Linked(s, client)
    BY <1>1, <2>4, KeepsLinked
  <2> HIDE DEF s
  <2> QED
    BY <1>1, <2>1, <2>2, <2>4, <2>5, SendFacts, KeepsLinked
<1>3. CASE p.type = "upgrade"
  <2>1. server' = [server EXCEPT !.transport = "websocket"]
    BY <1>3 DEF OnPacketWhenUpgrading
  <2>2. server' \in ServerState
    BY <1>1, <2>1 DEF ServerState, Transport
  <2> QED
    BY <1>1, <1>3, <2>1, <2>2 DEF ServerState, Matched, Flushed, Linked
<1>4. CASE p.type \notin {"probe", "upgrade"}
  <2>1. server' = [server EXCEPT !.upgrading = FALSE]
    BY <1>4 DEF OnPacketWhenUpgrading
  <2>2. server' \in ServerState /\ Matched(server') /\ Flushed(server')
        /\ Keeps(server, server')
    BY <1>1, <2>1 DEF ServerState, Matched, Flushed, Keeps
  <2> QED
    BY <1>1, <2>2, KeepsLinked
<1> QED
  BY <1>2, <1>3, <1>4

LEMMA HandleFrameStep == IInv /\ HandleFrame => IInv'
<1> SUFFICES ASSUME IInv, HandleFrame PROVE IInv'
  OBVIOUS
<1> DEFINE p == Head(client.up)
<1>1. /\ server \in ServerState /\ client \in ClientState
      /\ client.up \in Seq(Packet) /\ client.up # <<>>
      /\ client' = [client EXCEPT !.up = Tail(@)]
      /\ sent' = sent /\ said' = said
  BY DEF IInv, EndsTyped, HandleFrame, ClientState
<1>2. p \in Packet /\ Tail(client.up) \in Seq(Packet)
  BY <1>1, QueueFacts
<1>3. Contains(Tail(client.up), "upgrade") => Contains(client.up, "upgrade")
  BY <1>1, ContainsTail
<1>4. client' \in ClientState /\ Agrees(client')
  BY <1>1, <1>2, <1>3 DEF ClientState, Agrees, IInv
<1>5. ASSUME p.type = "upgrade" PROVE Contains(client.up, "upgrade")
  BY <1>1, <1>5 DEF Contains
<1>6. /\ server' \in ServerState /\ Matched(server') /\ Flushed(server')
      /\ Linked(server', client)
  <2>1. CASE OnPacketWhenUpgrading(p)
    <3>1. client.state # "closed" /\ p.type = "upgrade" => client.probe = "done"
      BY <1>5 DEF IInv, Agrees
    <3> HIDE DEF p
    <3> QED
      BY <1>2, <2>1, <3>1, OnPacketWhenUpgradingFacts
  <2>2. CASE OnPacket(p)
    <3>1. Control("pong") \in Packet
      BY ControlPacket DEF ControlTypes
    <3>2. server' = Send(server, Control("pong")) \/ server' = server
      BY <2>2 DEF OnPacket
    <3>3. Matched(server) /\ Flushed(server) /\ Linked(server, client)
      BY DEF IInv, ServerInv
    <3> QED
      BY <1>1, <3>1, <3>2, <3>3, SendFacts, KeepsLinked
  <2> QED
    BY <2>1, <2>2 DEF HandleFrame
<1>7. Linked(server', client')
  BY <1>1, <1>6 DEF Linked, ClientState
<1> QED
  BY <1>1, <1>4, <1>6, <1>7 DEF IInv, EndsTyped, ServerInv

\* Only a client that has gone, or an upgrade that failed, loses the websocket,
\* so a session is not forgotten under a client that is there.
LEMMA HandleWsCloseStep == IInv /\ HandleWsClose => IInv'
<1> SUFFICES ASSUME IInv, HandleWsClose PROVE IInv'
  OBVIOUS
<1>1. /\ server \in ServerState /\ client \in ClientState
      /\ client.state = "closed" \/ client.probe = "failed"
      /\ client' = [client EXCEPT !.ws = "closed", !.up = <<>>]
      /\ sent' = sent /\ said' = said
  BY DEF IInv, EndsTyped, HandleWsClose
<1>2. \/ server' = server
      \/ server' = [server EXCEPT !.registered = FALSE]
         /\ server.transport = "websocket"
  <2>1. CASE server.transport = "polling"
    <3>1. server' = [server EXCEPT !.registered = server.registered]
      BY <1>1, <2>1 DEF HandleWsClose, ServerState
    <3> QED
      BY <1>1, <3>1 DEF ServerState
  <2>2. CASE server.transport = "websocket"
    BY <1>1, <2>2 DEF HandleWsClose, ServerState
  <2> QED
    BY <1>1, <2>1, <2>2 DEF ServerState, Transport
<1>3. server' \in ServerState /\ Matched(server') /\ Flushed(server')
  BY <1>1, <1>2 DEF ServerState, Matched, Flushed, IInv, ServerInv
<1>4. ~Contains(<<>>, "upgrade")
  BY DEF Contains
<1>5. client' \in ClientState /\ Agrees(client')
  BY <1>1, <1>4, QueueFacts DEF ClientState, Agrees, IInv
<1>6. Linked(server', client')
  BY <1>1, <1>2 DEF Linked, IInv, ServerState, ClientState
<1> QED
  BY <1>1, <1>3, <1>5, <1>6 DEF IInv, EndsTyped, ServerInv

LEMMA SendMessageStep == IInv /\ SendMessage => IInv'
<1> SUFFICES ASSUME IInv, SendMessage PROVE IInv'
  OBVIOUS
<1>1. /\ server \in ServerState /\ client \in ClientState
      /\ sent' \in Nat /\ said' = said /\ client' = client
      /\ server' = Send(server, Message(sent'))
  BY DEF IInv, EndsTyped, SendMessage
<1>2. Message(sent') \in Packet
  BY <1>1, MessagePacket
<1>3. Matched(server) /\ Linked(server, client)
  BY DEF IInv, ServerInv
<1>4. /\ server' \in ServerState /\ Matched(server') /\ Flushed(server')
      /\ Keeps(server, server')
  BY <1>1, <1>2, <1>3, SendFacts
<1>5. Linked(server', client)
  BY <1>1, <1>3, <1>4, KeepsLinked
<1> QED
  BY <1>1, <1>4, <1>5 DEF IInv, EndsTyped, ServerInv

-----------------------------------------------------------------------------
\* The client's actions.

\* Steps that change the client only, neither its poll nor its being there,
\* and never undo its exchange.
LEMMA ClientOnly ==
  ASSUME IInv, UNCHANGED <<server, sent>>, said' \in Nat,
         client' \in ClientState, Agrees(client'),
         client'.state = client.state, client'.get = client.get,
         client.probe = "done" => client'.probe = "done"
  PROVE  IInv'
<1>1. Linked(server, client')
  BY DEF IInv, Linked
<1> QED
  BY <1>1 DEF IInv, EndsTyped, ServerInv

\* Steps that close the client.
LEMMA ClientCloses ==
  ASSUME IInv, UNCHANGED <<server, sent, said>>, client' = ClientClosed(client)
  PROVE  IInv'
<1>1. client' \in ClientState /\ Agrees(client')
      /\ client'.state = "closed" /\ client'.get = client.get
  BY ClientClosedFacts DEF IInv, EndsTyped
<1>2. Linked(server, client')
  BY <1>1 DEF IInv, Linked
<1> QED
  BY <1>1, <1>2 DEF IInv, EndsTyped, ServerInv

LEMMA ClientOpenStep == IInv /\ ClientOpen => IInv'
<1> SUFFICES ASSUME IInv, ClientOpen PROVE IInv'
  OBVIOUS
<1>1. /\ client \in ClientState /\ client.state = "idle"
      /\ client' = [client EXCEPT !.state = "opening", !.get = "handshake"]
      /\ UNCHANGED <<server, sent, said>>
  BY DEF IInv, EndsTyped, ClientOpen
<1>2. client.probe = "none"
  BY <1>1 DEF IInv, Agrees
<1>3. client' \in ClientState /\ Agrees(client')
  BY <1>1, <1>2 DEF ClientState, Agrees, IInv
<1>4. Linked(server, client')
  <2>1. client.get = "none"
    BY <1>1 DEF IInv, Agrees
  <2> QED
    BY <1>1, <1>2, <2>1 DEF IInv, Linked, ClientState
<1> QED
  BY <1>1, <1>3, <1>4 DEF IInv, EndsTyped, ServerInv

LEMMA ClientPolledStep == IInv /\ ClientPolled => IInv'
<1> SUFFICES ASSUME IInv, ClientPolled PROVE IInv'
  OBVIOUS
<1> DEFINE q == server.reply
           opened == IF Contains(q, "open")
                     THEN [client EXCEPT !.state = "open", !.probe = "asked",
                                         !.ws = "request"]
                     ELSE client
           get == IF client.probe = "pausing" THEN "none" ELSE "request"
           waits == opened.pinging /\ ~Contains(q, "pong")
           read == [opened EXCEPT !.pinging = waits, !.get = get]
<1>1. /\ server \in ServerState /\ client \in ClientState
      /\ client.state \in {"opening", "open"} /\ client.get = "held"
      /\ server.reply # <<>>
      /\ server' = [server EXCEPT !.reply = <<>>]
      /\ UNCHANGED <<sent, said>>
  BY DEF IInv, EndsTyped, ClientPolled
<1>2. client' = ClientPaused(ClientFlush(read))
  BY DEF ClientPolled
<1>3. client.probe # "done" /\ client.transport = "polling"
      /\ ~Contains(client.up, "upgrade")
  BY <1>1 DEF IInv, Agrees, ClientState, Transport
<1>4. /\ opened \in ClientState
      /\ opened.state \in {"opening", "open"} /\ opened.probe # "done"
      /\ opened.transport = "polling" /\ opened.up = client.up
      /\ opened.probe # "none" => opened.state = "open"
      /\ opened.state = "opening" => client.state = "opening"
  <2>1. CASE Contains(q, "open")
    BY <1>1, <1>3, <2>1 DEF ClientState
  <2>2. CASE ~Contains(q, "open")
    BY <1>1, <1>3, <2>2 DEF IInv, Agrees
  <2> QED
    BY <2>1, <2>2
<1>5. waits \in BOOLEAN
  BY ZenonT(20) DEF Contains
<1>6. get \in {"none", "request"}
  OBVIOUS
<1>7. /\ read \in ClientState
      /\ read.state = opened.state /\ read.probe = opened.probe
      /\ read.transport = opened.transport /\ read.up = opened.up
      /\ read.get = get
  <2> HIDE DEF opened, waits, get
  <2> QED
    BY <1>4, <1>5, <1>6 DEF ClientState
<1>8. Agrees(read)
  <2> HIDE DEF read, opened, get
  <2> QED
    BY <1>3, <1>4, <1>7 DEF Agrees
<1>9. /\ client' \in ClientState /\ Agrees(client')
      /\ client'.state = opened.state /\ client'.get = get
  <2> HIDE DEF read, opened, get
  <2>1. /\ ClientFlush(read) \in ClientState /\ Agrees(ClientFlush(read))
        /\ ClientFlush(read).state = opened.state
        /\ ClientFlush(read).get = get
    BY <1>7, <1>8, ClientFlushFacts
  <2> QED
    BY <1>2, <2>1, ClientPausedFacts
<1>10. server.poll = FALSE /\ server.registered /\ server.transport = "polling"
  <2>1. ~server.poll
    BY <1>1 DEF IInv, ServerInv, Matched
  <2>2. server.registered /\ server.transport # "websocket"
    BY <1>1, <1>3 DEF IInv, Linked
  <2> QED
    BY <1>1, <2>1, <2>2 DEF ServerState, Transport
<1>11. /\ server' \in ServerState /\ Matched(server') /\ Flushed(server')
       /\ server'.poll = FALSE /\ server'.reply = <<>> /\ server'.registered
       /\ server'.transport = "polling"
  <2>1. server' \in ServerState
    BY <1>1, QueueFacts DEF ServerState
  <2> QED
    BY <1>1, <1>10, <2>1 DEF ServerState, Matched, Flushed, IInv, ServerInv
<1>12. Linked(server', client')
  <2> HIDE DEF opened, get
  <2> QED
    BY <1>6, <1>9, <1>11 DEF Linked
<1> QED
  BY <1>1, <1>9, <1>11, <1>12 DEF IInv, EndsTyped, ServerInv

LEMMA ClientDrainedStep == IInv /\ ClientDrained => IInv'
<1> SUFFICES ASSUME IInv, ClientDrained PROVE IInv'
  OBVIOUS
<1> DEFINE c == [client EXCEPT !.post = "none"]
<1>1. /\ client \in ClientState /\ client.state = "open" /\ client.post = "ok"
      /\ client' = ClientPaused(ClientFlush(c))
      /\ UNCHANGED <<server, sent, said>> /\ said \in Nat
  BY DEF IInv, EndsTyped, ClientDrained
<1>2. c \in ClientState /\ Agrees(c) /\ c.state = client.state
      /\ c.get = client.get /\ c.probe = client.probe
  BY <1>1 DEF IInv, Agrees, ClientState
<1>3. client.probe # "done"
  BY <1>1 DEF IInv, Agrees
<1>4. /\ client' \in ClientState /\ Agrees(client')
      /\ client'.state = client.state /\ client'.get = client.get
  <2> HIDE DEF c
  <2>1. /\ ClientFlush(c) \in ClientState /\ Agrees(ClientFlush(c))
        /\ ClientFlush(c).state = client.state
        /\ ClientFlush(c).get = client.get
    BY <1>2, ClientFlushFacts
  <2> QED
    BY <1>1, <2>1, ClientPausedFacts
<1> QED
  BY <1>1, <1>3, <1>4, ClientOnly

LEMMA ClientProbeStep == IInv /\ ClientProbe => IInv'
<1> SUFFICES ASSUME IInv, ClientProbe PROVE IInv'
  OBVIOUS
<1>1. /\ client \in ClientState /\ client.state = "open"
      /\ client.probe = "asked" /\ client.up \in Seq(Packet)
      /\ client' = [client EXCEPT !.probe = "sent",
                                  !.up = Append(@, Control("probe"))]
      /\ UNCHANGED <<server, sent, said>> /\ said \in Nat
  BY DEF IInv, EndsTyped, ClientProbe, ClientState
<1>2. Control("probe") \in Packet /\ Control("probe").type = "probe"
  BY ControlPacket DEF ControlTypes
<1>3. ~Contains(client.up, "upgrade")
  BY <1>1 DEF IInv, Agrees
<1>4. ~Contains(Append(client.up, Control("probe")), "upgrade")
  BY <1>1, <1>2, <1>3, ContainsAppend
<1>5. Append(client.up, Control("probe")) \in Seq(Packet)
  BY <1>1, <1>2, QueueFacts
<1>6. client' \in ClientState /\ Agrees(client')
  BY <1>1, <1>4, <1>5 DEF IInv, Agrees, ClientState
<1> QED
  BY <1>1, <1>6, ClientOnly DEF ClientState

LEMMA ClientProbeLostStep == IInv /\ ClientProbeLost => IInv'
<1> SUFFICES ASSUME IInv, ClientProbeLost PROVE IInv'
  OBVIOUS
<1>1. /\ client \in ClientState /\ client.state = "open"
      /\ client.probe \in {"asked", "sent"}
      /\ client' = [client EXCEPT !.probe = "failed"]
      /\ UNCHANGED <<server, sent, said>> /\ said \in Nat
  BY DEF IInv, EndsTyped, ClientProbeLost
<1>2. client' \in ClientState /\ Agrees(client')
  BY <1>1 DEF IInv, Agrees, ClientState
<1> QED
  BY <1>1, <1>2, ClientOnly DEF ClientState

LEMMA ClientMessageStep == IInv /\ ClientMessage => IInv'
<1> SUFFICES ASSUME IInv, ClientMessage PROVE IInv'
  OBVIOUS
<1>1. /\ client \in ClientState /\ Agrees(client)
      /\ UNCHANGED <<server, sent>> /\ said' \in Nat
      /\ client' = ClientSend(client, Message(said'))
  BY DEF IInv, EndsTyped, ClientMessage
<1> QED
  BY <1>1, MessagePacket, ClientSendFacts, ClientOnly

LEMMA ClientPingStep == IInv /\ ClientPing => IInv'
<1> SUFFICES ASSUME IInv, ClientPing PROVE IInv'
  OBVIOUS
<1> DEFINE c == [client EXCEPT !.pinging = TRUE]
<1>1. /\ client \in ClientState /\ client' = ClientSend(c, Control("ping"))
      /\ UNCHANGED <<server, sent, said>> /\ said \in Nat
  BY DEF IInv, EndsTyped, ClientPing
<1>2. c \in ClientState /\ Agrees(c) /\ c.state = client.state
      /\ c.get = client.get /\ c.probe = client.probe
  BY <1>1 DEF IInv, Agrees, ClientState
<1>3. Control("ping") \in Packet
  BY ControlPacket DEF ControlTypes
<1> HIDE DEF c
<1> QED
  BY <1>1, <1>2, <1>3, ClientSendFacts, ClientOnly

LEMMA ClientFrameStep == IInv /\ ClientFrame => IInv'
<1> SUFFICES ASSUME IInv, ClientFrame PROVE IInv'
  OBVIOUS
<1> DEFINE p == Head(server.frames)
           c == [client EXCEPT !.probe = "pausing"]
           waits == client.pinging /\ p.type # "pong"
<1>1. /\ server \in ServerState /\ client \in ClientState
      /\ server.frames # <<>> /\ server.frames \in Seq(Packet)
      /\ server' = [server EXCEPT !.frames = Tail(@)]
      /\ client.state = "open" /\ UNCHANGED <<sent, said>>
  BY DEF IInv, EndsTyped, ClientFrame, ServerState
<1>2. Tail(server.frames) \in Seq(Packet)
  BY <1>1, QueueFacts
<1>3. /\ server' \in ServerState /\ Matched(server') /\ Flushed(server')
      /\ Keeps(server, server')
  BY <1>1, <1>2 DEF ServerState, Matched, Flushed, Keeps, IInv, ServerInv
<1>4. /\ client' \in ClientState /\ Agrees(client')
      /\ client'.state = client.state /\ client'.get = client.get
      /\ client.probe = "done" => client'.probe = "done"
  <2>1. CASE client.probe = "sent"
    <3>1. client' = ClientPaused(c)
      BY <2>1 DEF ClientFrame
    <3>2. c \in ClientState /\ Agrees(c)
          /\ c.state = client.state /\ c.get = client.get
      BY <1>1, <2>1 DEF IInv, Agrees, ClientState
    <3> HIDE DEF c
    <3> QED
      BY <2>1, <3>1, <3>2, ClientPausedFacts
  <2>2. CASE client.probe # "sent"
    <3>1. client' = [client EXCEPT !.pinging = waits]
      BY <2>2 DEF ClientFrame
    <3>2. waits \in BOOLEAN
      BY ZenonT(20)
    <3> HIDE DEF waits
    <3> QED
      BY <1>1, <3>1, <3>2 DEF IInv, Agrees, ClientState
  <2> QED
    BY <2>1, <2>2
<1>5. Linked(server', client')
  <2>1. Linked(server, client')
    BY <1>4 DEF IInv, Linked
  <2> QED
    BY <1>1, <1>3, <1>4, <2>1, KeepsLinked
<1> QED
  BY <1>1, <1>3, <1>4, <1>5 DEF IInv, EndsTyped, ServerInv

LEMMA StepIInv == IInv /\ [Next]_vars => IInv'
<1> SUFFICES ASSUME IInv, [Next]_vars PROVE IInv'
  OBVIOUS
<1>1. CASE ServerStep
  BY <1>1, HandleHandshakeStep, HandlePollStep, HandleDataStep,
     HandleUpgradeStep, HandleFrameStep, HandleWsCloseStep DEF ServerStep
<1>2. CASE ClientStep
  <2>1. ASSUME ClientRefused PROVE IInv'
    BY <2>1, ClientCloses DEF ClientRefused
  <2> QED
    BY <1>2, <2>1, ClientPolledStep, ClientDrainedStep, ClientProbeStep,
       ClientFrameStep DEF ClientStep
<1>3. CASE SendMessage
  BY <1>3, SendMessageStep
<1>4. CASE ClientOpen \/ ClientMessage \/ ClientPing \/ ClientProbeLost
  BY <1>4, ClientOpenStep, ClientMessageStep, ClientPingStep,
     ClientProbeLostStep
<1>5. CASE ClientTimeout \/ ClientClose
  BY <1>5, ClientCloses DEF ClientTimeout, ClientClose
<1>6. CASE UNCHANGED vars
  BY <1>6 DEF vars, IInv, EndsTyped, ServerInv
<1> QED
  BY <1>1, <1>2, <1>3, <1>4, <1>5, <1>6 DEF Next

THEOREM SessionInvariant == Spec => []IInv
BY InitIInv, StepIInv, PTL DEF Spec

-----------------------------------------------------------------------------
\* The server's session, the client and the wire between them always have
\* their types: every record a handler writes is one the next one can read.
THEOREM EndsTypeCorrect == Spec => []EndsTyped
<1>1. IInv => EndsTyped
  BY DEF IInv
<1> QED
  BY <1>1, SessionInvariant, PTL

\* No wake-up is lost (PollingTransport and Socket::Flush): over polling no
\* packet ever waits in write_buffer_ while a poll is held.
THEOREM NoWakeupLost == Spec => []NoLostWakeup
<1>1. IInv => NoLostWakeup
  BY DEF IInv, ServerInv, Matched, Flushed, NoLostWakeup, EndsTyped, ServerState
<1> QED
  BY <1>1, SessionInvariant, PTL

\* A poll is held, and an answer is under way, only for a client that has its
\* poll out, and never both at once (PollingTransport::req_).
THEOREM PollsAlwaysMatched == Spec => []PollsMatched
<1>1. IInv => PollsMatched
  BY DEF IInv, ServerInv, Matched, Linked, PollsMatched
<1> QED
  BY <1>1, SessionInvariant, PTL

\* The upgrade (Socket::OnPacketWhenUpgrading and the client's probe): when the
\* server has exchanged the transports, a client that is there has too, and no
\* poll and no write is left behind.
THEOREM SwitchIsClean == Spec => []CleanSwitch
<1>1. IInv => CleanSwitch
  BY DEF IInv, Agrees, Linked, CleanSwitch
<1> QED
  BY <1>1, SessionInvariant, PTL

\* "Request overlap", and the session or transport that does not fit, never
\* happen to the polls of a client that is there.
THEOREM PollsAreAccepted == Spec => []NoRefusedPoll
<1>1. IInv => NoRefusedPoll
  BY DEF IInv, Linked, NoRefusedPoll
<1> QED
  BY <1>1, SessionInvariant, PTL
-----------------------------------------------------------------------------
\* The channel from the application to the client.

LEMMA ContainsAppended ==
  ASSUME NEW q \in Seq(Packet), NEW p \in Packet, NEW t,
         Contains(q, t) \/ p.type = t
  PROVE  Contains(Append(q, p), t)
<1>1. /\ Len(Append(q, p)) = Len(q) + 1 /\ Append(q, p)[Len(q) + 1] = p
      /\ \A i \in 1..Len(q) : Append(q, p)[i] = q[i]
      /\ Len(q) \in Nat
  BY AppendProperties, LenProperties
<1>2. \A i \in 1..Len(q) : i \in 1..Len(q) + 1
  BY <1>1
<1>3. Len(q) + 1 \in 1..Len(q) + 1
  BY <1>1
<1> QED
  BY <1>1, <1>2, <1>3 DEF Contains

\* Control packets have no number.
LEMMA NumbersNone ==
  ASSUME NEW q \in Seq(Packet), ~Contains(q, "message")
  PROVE  Numbers(q) = <<>>
<1> DEFINE T == {r \in Seq(Packet) : ~Contains(r, "message") => Numbers(r) = <<>>}
<1>1. <<>> \in T
  BY NumbersEmpty, EmptySeq
<1>2. ASSUME NEW r \in T, NEW p \in Packet PROVE Append(r, p) \in T
  <2>1. r \in Seq(Packet) /\ Append(r, p) \in Seq(Packet)
    BY AppendProperties
  <2>2. ASSUME ~Contains(Append(r, p), "message") PROVE Numbers(Append(r, p)) = <<>>
    <3>1. ~Contains(r, "message") /\ p.type # "message"
      BY <2>1, <2>2, ContainsAppended
    <3> QED
      BY <2>1, <3>1, NumbersAppend
  <2> QED
    BY <2>1, <2>2
<1>3. T = Seq(Packet)
  <2> HIDE DEF T
  <2>1. T \in SUBSET Seq(Packet)
    BY DEF T
  <2> QED
    BY <1>1, <1>2, <2>1, SequenceInduction
<1> QED
  BY <1>3

LEMMA Regroup ==
  \A a, b, c \in Seq(Nat) : a \o (b \o c) = a \o b \o c
OBVIOUS

\* The messages on a record of the server, oldest first.
QueueOf(s) == Numbers(s.reply) \o Numbers(s.frames) \o Numbers(s.buffer)

\* Before the exchange of transports the frames carry no message.
Quiet(s) == s.transport = "polling" => Numbers(s.frames) = <<>>

LEMMA QueueOfType ==
  ASSUME NEW s \in ServerState
  PROVE  /\ Numbers(s.reply) \in Seq(Nat) /\ Numbers(s.frames) \in Seq(Nat)
         /\ Numbers(s.buffer) \in Seq(Nat) /\ QueueOf(s) \in Seq(Nat)
<1>1. s.reply \in Seq(Packet) /\ s.frames \in Seq(Packet) /\ s.buffer \in Seq(Packet)
  BY DEF ServerState
<1>2. /\ Numbers(s.reply) \in Seq(Nat) /\ Numbers(s.frames) \in Seq(Nat)
      /\ Numbers(s.buffer) \in Seq(Nat)
  BY <1>1, NumbersType
<1> QED
  BY <1>2, ConcatProperties DEF QueueOf

LEMMA FlushQueue ==
  ASSUME NEW s \in ServerState, Matched(s), Quiet(s), ~Binary
  PROVE  QueueOf(Flush(s)) = QueueOf(s) /\ Quiet(Flush(s))
<1> DEFINE emptied == [s EXCEPT !.buffer = <<>>]
<1>1. /\ s.buffer \in Seq(Packet) /\ s.frames \in Seq(Packet)
      /\ Numbers(s.reply) \in Seq(Nat) /\ Numbers(s.frames) \in Seq(Nat)
      /\ Numbers(s.buffer) \in Seq(Nat)
  BY QueueOfType DEF ServerState
<1>2. CASE ~IsWritable(s) \/ s.buffer = <<>>
  <2>1. Flush(s) = s
    BY <1>2 DEF Flush
  <2> QED
    BY <2>1
<1>3. CASE IsWritable(s) /\ s.buffer # <<>> /\ s.transport = "polling"
  <2>1. Flush(s) = AnswerPoll(emptied, s.buffer)
    BY <1>3 DEF Flush, ServerState
  <2>2. s.reply = <<>>
    BY <1>3 DEF IsWritable, Matched
  <2>3. /\ Flush(s).reply = s.buffer /\ Flush(s).frames = s.frames
        /\ Flush(s).buffer = <<>> /\ Flush(s).transport = s.transport
    BY <2>1 DEF AnswerPoll, EncodePayload, ServerState
  <2>4. Numbers(s.frames) = <<>>
    BY <1>3 DEF Quiet
  <2>5. QueueOf(Flush(s)) = Numbers(s.buffer) \o <<>> \o <<>>
    BY <2>3, <2>4, NumbersEmpty DEF QueueOf
  <2>6. QueueOf(s) = <<>> \o <<>> \o Numbers(s.buffer)
    BY <2>2, <2>4, NumbersEmpty DEF QueueOf
  <2>7. QueueOf(Flush(s)) = Numbers(s.buffer) /\ QueueOf(s) = Numbers(s.buffer)
    BY <2>5, <2>6, <1>1, ConcatEmptySeq, EmptySeq
  <2> QED
    BY <2>3, <2>4, <2>7 DEF Quiet
<1>4. CASE IsWritable(s) /\ s.buffer # <<>> /\ s.transport = "websocket"
  <2>1. Flush(s) = SendFrames(emptied, s.buffer)
    BY <1>4 DEF Flush, ServerState
  <2>2. /\ Flush(s).reply = s.reply /\ Flush(s).frames = s.frames \o s.buffer
        /\ Flush(s).buffer = <<>> /\ Flush(s).transport = s.transport
    BY <2>1 DEF SendFrames, ServerState
  <2>3. QueueOf(Flush(s))
          = Numbers(s.reply) \o (Numbers(s.frames) \o Numbers(s.buffer)) \o <<>>
    BY <2>2, <1>1, NumbersEmpty, NumbersConcat DEF QueueOf
  <2>4. Numbers(s.frames) \o Numbers(s.buffer) \in Seq(Nat)
    BY <1>1, ConcatProperties
  <2>5. QueueOf(Flush(s)) = Numbers(s.reply) \o (Numbers(s.frames) \o Numbers(s.buffer))
    BY <2>3, <2>4, <1>1, ConcatProperties, ConcatEmptySeq
  <2>6. Numbers(s.reply) \o (Numbers(s.frames) \o Numbers(s.buffer))
          = Numbers(s.reply) \o Numbers(s.frames) \o Numbers(s.buffer)
    BY <1>1, Regroup
  <2> QED
    BY <1>4, <2>2, <2>5, <2>6 DEF Quiet, QueueOf
<1> QED
  BY <1>2, <1>3, <1>4 DEF ServerState, Transport

LEMMA SendQueue ==
  ASSUME NEW s \in ServerState, Matched(s), Quiet(s), ~Binary, NEW p \in Packet
  PROVE  /\ QueueOf(Send(s, p)) = QueueOf(s) \o Numbers(<<p>>)
         /\ Quiet(Send(s, p))
<1> DEFINE t == [s EXCEPT !.buffer = Append(@, p)]
<1>1. /\ s.buffer \in Seq(Packet) /\ <<p>> \in Seq(Packet)
      /\ Numbers(s.reply) \in Seq(Nat) /\ Numbers(s.frames) \in Seq(Nat)
      /\ Numbers(s.buffer) \in Seq(Nat)
  BY QueueOfType DEF ServerState
<1>2. Numbers(<<p>>) \in Seq(Nat)
  BY <1>1, NumbersType
<1>3. Append(s.buffer, p) = s.buffer \o <<p>>
  BY <1>1, AppendIsConcat
<1>4. /\ t \in ServerState /\ t.reply = s.reply /\ t.frames = s.frames
      /\ t.buffer = s.buffer \o <<p>> /\ t.transport = s.transport
      /\ t.poll = s.poll /\ t.writable = s.writable
  BY <1>1, <1>3, QueueFacts DEF ServerState
<1>5. Matched(t) /\ Quiet(t) /\ Send(s, p) = Flush(t)
  BY <1>4 DEF Matched, Quiet, Send
<1> HIDE DEF t
<1>6. Numbers(t.buffer) = Numbers(s.buffer) \o Numbers(<<p>>)
  BY <1>1, <1>4, NumbersConcat
<1>7. QueueOf(t) = QueueOf(s) \o Numbers(<<p>>)
  <2>1. Numbers(s.reply) \o Numbers(s.frames) \in Seq(Nat)
    BY <1>1, ConcatProperties
  <2>2. Numbers(s.reply) \o Numbers(s.frames) \o (Numbers(s.buffer) \o Numbers(<<p>>))
          = Numbers(s.reply) \o Numbers(s.frames) \o Numbers(s.buffer) \o Numbers(<<p>>)
    BY <1>1, <1>2, <2>1, Regroup
  <2> QED
    BY <1>4, <1>6, <2>2 DEF QueueOf
<1> QED
  BY <1>4, <1>5, <1>7, FlushQueue

\* A control packet adds nothing.
LEMMA SendControlQueue ==
  ASSUME NEW s \in ServerState, Matched(s), Quiet(s), ~Binary,
         NEW t \in ControlTypes
  PROVE  QueueOf(Send(s, Control(t))) = QueueOf(s) /\ Quiet(Send(s, Control(t)))
<1>1. Control(t) \in Packet /\ Control(t).type # "message"
  BY ControlPacket DEF ControlTypes
<1>2. Numbers(<<Control(t)>>) = <<>>
  BY <1>1, NumbersOne
<1>3. QueueOf(s) \o <<>> = QueueOf(s)
  BY QueueOfType, ConcatEmptySeq
<1> QED
  BY <1>1, <1>2, <1>3, SendQueue

LEMMA HoldPollQueue ==
  ASSUME NEW s \in ServerState, s.reply = <<>>, Quiet(s), ~Binary
  PROVE  QueueOf(HoldPoll(s)) = QueueOf(s) /\ Quiet(HoldPoll(s))
<1> DEFINE t == [s EXCEPT !.poll = TRUE, !.writable = TRUE]
<1>1. /\ t \in ServerState /\ Matched(t) /\ Quiet(t) /\ HoldPoll(s) = Flush(t)
      /\ QueueOf(t) = QueueOf(s)
  BY DEF ServerState, Matched, Quiet, QueueOf, HoldPoll
<1> HIDE DEF t
<1> QED
  BY <1>1, FlushQueue

\* The inductive invariant of the channel, beside IInv.
ChannelInv ==
  /\ Quiet(server)
  /\ got \in Seq(Nat)
  /\ client.state # "closed" => Len(got) + Len(Queue) = sent

\* A step that leaves the messages on their way where they are.
LEMMA ChannelKept ==
  ASSUME ChannelInv, Quiet(server'), Queue' = Queue, UNCHANGED <<sent, got>>,
         client.state = "closed" => client'.state = "closed"
  PROVE  ChannelInv' /\ [Channel!Next]_(Channel!vars)
<1>1. ChannelInv'
  BY DEF ChannelInv
<1>2. CASE client'.state = "closed" <=> client.state = "closed"
  BY <1>1, <1>2, Zenon DEF Channel!vars
<1>3. CASE client'.state = "closed" /\ client.state # "closed"
  BY <1>1, <1>3, Zenon DEF Channel!Next, Channel!Leave
<1> QED
  BY <1>1, <1>2, <1>3

\* The oldest messages, those of a, reach a client that is there and stays.
LEMMA ChannelDelivers ==
  ASSUME ChannelInv, Quiet(server'), NEW a \in Seq(Nat), NEW b \in Seq(Nat),
         Queue = a \o b, Queue' = b, got' = got \o a, sent' = sent,
         client.state # "closed", client'.state # "closed"
  PROVE  ChannelInv' /\ [Channel!Next]_(Channel!vars)
<1>1. got \in Seq(Nat) /\ Len(got) + Len(Queue) = sent
  BY DEF ChannelInv
<1>2. /\ got' \in Seq(Nat) /\ Len(got') = Len(got) + Len(a)
      /\ Len(Queue) = Len(a) + Len(b)
      /\ Len(a) \in Nat /\ Len(b) \in Nat /\ Len(got) \in Nat
  BY <1>1, ConcatProperties, LenProperties
<1>3. ChannelInv'
  BY <1>1, <1>2 DEF ChannelInv
<1>4. CASE a = <<>>
  <2>1. Queue' = Queue /\ got' = got
    BY <1>1, <1>4, ConcatEmptySeq
  <2> QED
    BY <1>3, <2>1, Zenon DEF Channel!vars
<1>5. CASE a # <<>>
  <2>1. Len(a) \in 1..Len(Queue)
    BY <1>2, <1>5, EmptySeq
  <2>2. SubSeq(Queue, 1, Len(a)) = a /\ SubSeq(Queue, Len(a) + 1, Len(Queue)) = b
    BY <1>2, SplitConcat
  <2>3. Channel!Deliver
    BY <2>1, <2>2 DEF Channel!Deliver
  <2> QED
    BY <1>3, <2>3, Zenon DEF Channel!Next
<1> QED
  BY <1>4, <1>5

\* The six handlers of the server.
LEMMA ServerKeepsQueue ==
  ASSUME IInv, ChannelInv, ServerStep, ~Binary
  PROVE  Queue' = Queue /\ Quiet(server')
<1>1. /\ server \in ServerState /\ client \in ClientState
      /\ Matched(server) /\ Quiet(server) /\ Linked(server, client)
  BY DEF IInv, EndsTyped, ServerInv, ChannelInv
<1>2. Queue = QueueOf(server) /\ Queue' = QueueOf(server')
  BY DEF Queue, QueueOf
<1>3. CASE HandleHandshake
  <2> DEFINE s == [server EXCEPT !.registered = TRUE]
             h == HoldPoll(s)
  <2>1. s \in ServerState /\ s.reply = <<>> /\ Quiet(s) /\ QueueOf(s) = QueueOf(server)
    BY <1>1, <1>3 DEF HandleHandshake, Linked, ServerState, Quiet, QueueOf
  <2>2. /\ h \in ServerState /\ Matched(h) /\ Quiet(h)
        /\ QueueOf(h) = QueueOf(server)
    <3> HIDE DEF s
    <3> QED
      BY <2>1, HoldPollFacts, HoldPollQueue
  <2>3. server' = Send(h, Control("open")) /\ "open" \in ControlTypes
    BY <1>3 DEF HandleHandshake, ControlTypes
  <2> HIDE DEF h
  <2> QED
    BY <1>2, <2>2, <2>3, SendControlQueue
<1>4. CASE HandlePoll
  <2>1. server.reply = <<>>
    BY <1>1, <1>4 DEF HandlePoll, Linked
  <2>2. server' = server \/ server' = HoldPoll(server)
    BY <1>4 DEF HandlePoll
  <2> QED
    BY <1>1, <1>2, <2>1, <2>2, HoldPollQueue
<1>5. CASE HandleData
  <2> DEFINE q == DecodePayload(client.body)
  <2>1. \/ server' = [server EXCEPT !.buffer = @ \o Pongs(q)]
        \/ server' = server
    BY <1>5 DEF HandleData
  <2>2. Pongs(q) \in Seq(Packet) /\ Numbers(Pongs(q)) = <<>>
    <3>1. q \in Seq(Packet)
      BY <1>1, DecodeType DEF ClientState
    <3> HIDE DEF q
    <3>2. Pongs(q) \in Seq(Packet)
      BY <3>1, PongsType
    <3>3. \A i \in DOMAIN Pongs(q) : Pongs(q)[i] = Control("pong")
      BY DEF Pongs
    <3>4. ~Contains(Pongs(q), "message")
      <4>1. \A i \in 1..Len(Pongs(q)) : Pongs(q)[i] = Control("pong")
        BY <3>2, <3>3, LenProperties
      <4>2. Control("pong").type # "message"
        BY DEF Control
      <4> QED
        BY <4>1, <4>2 DEF Contains
    <3> QED
      BY <3>2, <3>4, NumbersNone
  <2>3. server.buffer \in Seq(Packet) /\ Numbers(server.buffer) \in Seq(Nat)
    BY <1>1, QueueOfType DEF ServerState
  <2> HIDE DEF q
  <2>4. Numbers(server.buffer \o Pongs(q)) = Numbers(server.buffer)
    <3>1. Numbers(server.buffer \o Pongs(q)) = Numbers(server.buffer) \o <<>>
      BY <2>2, <2>3, NumbersConcat
    <3> QED
      BY <2>3, <3>1, ConcatEmptySeq
  <2>5. /\ server'.reply = server.reply /\ server'.frames = server.frames
        /\ server'.transport = server.transport
        /\ Numbers(server'.buffer) = Numbers(server.buffer)
    BY <1>1, <2>1, <2>4 DEF ServerState
  <2> QED
    BY <1>1, <1>2, <2>5 DEF QueueOf, Quiet
<1>6. CASE HandleUpgrade
  <2>1. /\ server'.reply = server.reply /\ server'.frames = server.frames
        /\ server'.transport = server.transport /\ server'.buffer = server.buffer
    BY <1>1, <1>6 DEF HandleUpgrade, ServerState
  <2> QED
    BY <1>1, <1>2, <2>1 DEF QueueOf, Quiet
<1>7. CASE HandleFrame
  <2> DEFINE p == Head(client.up)
  <2>1. CASE OnPacketWhenUpgrading(p) /\ p.type = "probe"
    <3> DEFINE one == <<Control("probed")>>
               s == SendFrames(server, one)
    <3>1. server' = Send(s, Control("noop")) /\ "noop" \in ControlTypes
      BY <2>1 DEF OnPacketWhenUpgrading, ControlTypes
    <3>2. Control("probed") \in Packet /\ Control("probed").type # "message"
      BY ControlPacket DEF ControlTypes
    <3>3. one \in Seq(Packet) /\ Numbers(one) = <<>>
      <4>1. Numbers(one) = <<>>
        BY <3>2, NumbersOne
      <4> QED
        BY <3>2, <4>1
    <3>4. server.frames \in Seq(Packet) /\ Numbers(server.frames) \in Seq(Nat)
      BY <1>1, QueueOfType DEF ServerState
    <3> HIDE DEF one
    <3>5. Numbers(server.frames \o one) = Numbers(server.frames)
      <4>1. Numbers(server.frames \o one) = Numbers(server.frames) \o <<>>
        BY <3>3, <3>4, NumbersConcat
      <4> QED
        BY <3>4, <4>1, ConcatEmptySeq
    <3>6. server.frames \o one \in Seq(Packet)
      BY <3>3, <3>4, ConcatProperties
    <3>7. /\ s \in ServerState /\ s.reply = server.reply
          /\ s.frames = server.frames \o one /\ s.buffer = server.buffer
          /\ s.transport = server.transport /\ s.poll = server.poll
          /\ s.writable = server.writable
      BY <1>1, <3>6 DEF SendFrames, ServerState
    <3> HIDE DEF s
    <3>8. Matched(s) /\ Quiet(s) /\ QueueOf(s) = QueueOf(server)
      BY <1>1, <3>5, <3>7 DEF Matched, Quiet, QueueOf
    <3> QED
      BY <1>2, <3>1, <3>7, <3>8, SendControlQueue
  <2>2. CASE OnPacketWhenUpgrading(p) /\ p.type # "probe"
    <3>1. /\ server'.reply = server.reply /\ server'.frames = server.frames
          /\ server'.buffer = server.buffer
          /\ server'.transport \in {server.transport, "websocket"}
      BY <1>1, <2>2 DEF OnPacketWhenUpgrading, ServerState
    <3> QED
      BY <1>1, <1>2, <3>1 DEF QueueOf, Quiet
  <2>3. CASE OnPacket(p)
    <3>1. server' = Send(server, Control("pong")) \/ server' = server
      BY <2>3 DEF OnPacket
    <3>2. "pong" \in ControlTypes
      BY DEF ControlTypes
    <3> QED
      BY <1>1, <1>2, <3>1, <3>2, SendControlQueue
  <2> QED
    BY <1>7, <2>1, <2>2, <2>3 DEF HandleFrame
<1>8. CASE HandleWsClose
  <2>1. /\ server'.reply = server.reply /\ server'.frames = server.frames
        /\ server'.transport = server.transport /\ server'.buffer = server.buffer
    BY <1>1, <1>8 DEF HandleWsClose, ServerState
  <2> QED
    BY <1>1, <1>2, <2>1 DEF QueueOf, Quiet
<1> QED
  BY <1>3, <1>4, <1>5, <1>6, <1>7, <1>8 DEF ServerStep

LEMMA ClientFlushType ==
  ASSUME NEW c \in ClientState
  PROVE  ClientFlush(c) \in ClientState
<1>1. c.up \o c.outbox \in Seq(Packet) /\ <<>> \in Seq(Packet)
  BY QueueFacts DEF ClientState
<1>2. [c EXCEPT !.up = @ \o c.outbox, !.outbox = <<>>] \in ClientState
  BY <1>1 DEF ClientState
<1>3. [c EXCEPT !.post = "request", !.body = c.outbox, !.outbox = <<>>] \in ClientState
  BY <1>1 DEF ClientState
<1> QED
  BY <1>2, <1>3 DEF ClientFlush

\* Socket.flush and the callback of pause do not close the client.
LEMMA ClientStays ==
  ASSUME NEW c \in ClientState
  PROVE  /\ ClientFlush(c).state = c.state
         /\ ClientPaused(c).state = c.state
<1>1. \A d \in ClientState : ClientFlush(d).state = d.state
  BY DEF ClientFlush, ClientState
<1> DEFINE d == [c EXCEPT !.probe = "done", !.transport = "websocket",
                          !.up = Append(@, Control("upgrade"))]
<1>2. Append(c.up, Control("upgrade")) \in Seq(Packet)
  BY ControlPacket, QueueFacts DEF ControlTypes, ClientState
<1>3. d \in ClientState /\ d.state = c.state
  BY <1>2 DEF ClientState, Transport
<1>4. ClientPaused(c) = ClientFlush(d) \/ ClientPaused(c) = c
  BY DEF ClientPaused
<1> HIDE DEF d
<1> QED
  BY <1>1, <1>3, <1>4

\* The payload of a poll: the oldest messages there are.
LEMMA PolledDelivers ==
  ASSUME IInv, IInv', ChannelInv, ClientPolled
  PROVE  ChannelInv' /\ [Channel!Next]_(Channel!vars)
<1> DEFINE a == Numbers(server.reply)
           b == Numbers(server.frames) \o Numbers(server.buffer)
<1>1. /\ server \in ServerState /\ client \in ClientState
      /\ client.state \in {"opening", "open"}
      /\ server' = [server EXCEPT !.reply = <<>>]
      /\ got' = got \o a /\ sent' = sent
  BY DEF IInv, EndsTyped, ClientPolled
<1>2. /\ server'.reply = <<>> /\ server'.frames = server.frames
      /\ server'.buffer = server.buffer /\ server'.transport = server.transport
  BY <1>1 DEF ServerState
<1>3. a \in Seq(Nat) /\ Numbers(server.frames) \in Seq(Nat)
      /\ Numbers(server.buffer) \in Seq(Nat)
  BY <1>1, QueueOfType
<1>4. b \in Seq(Nat)
  BY <1>3, ConcatProperties
<1>5. Queue = a \o b
  BY <1>3, Regroup DEF Queue
<1>6. Queue' = b
  BY <1>2, <1>3, NumbersEmpty, ConcatEmptySeq DEF Queue
<1>7. Quiet(server')
  BY <1>2 DEF Quiet, ChannelInv
<1>8. client'.state # "closed"
  <2> DEFINE q == server.reply
             opened == IF Contains(q, "open")
                       THEN [client EXCEPT !.state = "open", !.probe = "asked",
                                           !.ws = "request"]
                       ELSE client
             get == IF client.probe = "pausing" THEN "none" ELSE "request"
             waits == opened.pinging /\ ~Contains(q, "pong")
             read == [opened EXCEPT !.pinging = waits, !.get = get]
  <2>1. client' = ClientPaused(ClientFlush(read))
    BY DEF ClientPolled
  <2>2. opened \in ClientState /\ opened.state # "closed"
    <3> DEFINE c == [client EXCEPT !.state = "open", !.probe = "asked",
                                   !.ws = "request"]
    <3>1. c \in ClientState /\ c.state = "open"
      BY <1>1 DEF ClientState
    <3>2. opened = c \/ opened = client
      OBVIOUS
    <3> HIDE DEF c, opened
    <3> QED
      BY <1>1, <3>1, <3>2
  <2>3. waits \in BOOLEAN
    BY ZenonT(20) DEF Contains
  <2>4. get \in {"none", "request"}
    OBVIOUS
  <2>5. read \in ClientState /\ read.state = opened.state
    <3> HIDE DEF opened, waits, get
    <3> QED
      BY <2>2, <2>3, <2>4 DEF ClientState
  <2> HIDE DEF read, opened
  <2>6. ClientFlush(read) \in ClientState
    BY <2>5, ClientFlushType
  <2> QED
    BY <2>1, <2>2, <2>5, <2>6, ClientStays
<1> HIDE DEF a, b
<1> QED
  BY <1>1, <1>3, <1>4, <1>5, <1>6, <1>7, <1>8, ChannelDelivers

\* A frame: the oldest message, or none.  A message on the websocket means
\* that the transports are exchanged, and then no answer to a poll is left.
LEMMA FrameDelivers ==
  ASSUME IInv, ChannelInv, ClientFrame
  PROVE  ChannelInv' /\ [Channel!Next]_(Channel!vars)
<1> DEFINE p == Head(server.frames)
           rest == Tail(server.frames)
           a == Numbers(<<p>>)
<1>1. /\ server \in ServerState /\ client \in ClientState
      /\ client.state = "open" /\ server.frames # <<>>
      /\ server.frames \in Seq(Packet)
      /\ server' = [server EXCEPT !.frames = rest]
      /\ got' = got \o a /\ sent' = sent
  BY DEF IInv, EndsTyped, ClientFrame, ServerState
<1>2. p \in Packet /\ rest \in Seq(Packet) /\ <<p>> \in Seq(Packet)
  BY <1>1, QueueFacts
<1>3. /\ server'.reply = server.reply /\ server'.frames = rest
      /\ server'.buffer = server.buffer /\ server'.transport = server.transport
  BY <1>1 DEF ServerState
<1>4. a \in Seq(Nat) /\ Numbers(rest) \in Seq(Nat)
  BY <1>2, NumbersType
<1>5. Numbers(server.reply) \in Seq(Nat) /\ Numbers(server.buffer) \in Seq(Nat)
  BY <1>1, QueueOfType
<1>6. Numbers(server.frames) = a \o Numbers(rest)
  BY <1>1, NumbersHead
<1>7. Quiet(server')
  <2>1. server.transport = "polling" => a \o Numbers(rest) = <<>>
    BY <1>6 DEF ChannelInv, Quiet
  <2>2. a \o Numbers(rest) = <<>> => Numbers(rest) = <<>>
    BY <1>4, ConcatEqualIffEmpty
  <2> QED
    BY <1>3, <2>1, <2>2 DEF Quiet
<1>8. a # <<>> => server.reply = <<>>
  <2> SUFFICES ASSUME a # <<>> PROVE server.reply = <<>>
    OBVIOUS
  <2>1. a \o Numbers(rest) # <<>>
    BY <1>4, ConcatEqualIffEmpty
  <2>2. server.transport = "websocket"
    BY <1>1, <1>6, <2>1 DEF ChannelInv, Quiet, ServerState, Transport
  <2> QED
    BY <1>1, <2>2 DEF IInv, Agrees, Linked
<1>9. Queue = Numbers(server.reply) \o (a \o Numbers(rest)) \o Numbers(server.buffer)
  BY <1>6 DEF Queue
<1>10. Queue' = Numbers(server.reply) \o Numbers(rest) \o Numbers(server.buffer)
  BY <1>3 DEF Queue
<1>11. client'.state # "closed"
  <2> DEFINE c == [client EXCEPT !.probe = "pausing"]
             waits == client.pinging /\ p.type # "pong"
  <2>1. c \in ClientState /\ c.state = "open"
    BY <1>1 DEF ClientState
  <2>2. client' = ClientPaused(c) \/ client' = [client EXCEPT !.pinging = waits]
    BY DEF ClientFrame
  <2> HIDE DEF c, waits
  <2> QED
    BY <1>1, <2>1, <2>2, ClientStays DEF ClientState
<1>12. Queue' \in Seq(Nat)
  BY <1>4, <1>5, <1>10, ConcatProperties
<1> HIDE DEF a, rest, p
<1>13. Queue = a \o Queue'
  <2> DEFINE x == Numbers(rest)
             y == Numbers(server.buffer)
             z == Numbers(server.reply)
  <2>1. x \in Seq(Nat) /\ y \in Seq(Nat) /\ z \in Seq(Nat) /\ a \in Seq(Nat)
    BY <1>4, <1>5
  <2>2. z = <<>> \/ a = <<>>
    BY <1>8, NumbersEmpty
  <2>3. Queue = z \o (a \o x) \o y /\ Queue' = z \o x \o y
    BY <1>9, <1>10
  <2> HIDE DEF x, y, z
  <2>4. z \o (a \o x) \o y = a \o (z \o x \o y)
    <3>1. CASE z = <<>>
      <4>1. a \o x \in Seq(Nat) /\ <<>> \o (a \o x) = a \o x /\ <<>> \o x = x
        BY <2>1, ConcatProperties, ConcatEmptySeq
      <4> QED
        BY <2>1, <3>1, <4>1, Regroup
    <3>2. CASE a = <<>>
      <4>1. <<>> \o x = x /\ <<>> \o (z \o x \o y) = z \o x \o y
        BY <2>1, ConcatProperties, ConcatEmptySeq
      <4> QED
        BY <3>2, <4>1
    <3> QED
      BY <2>2, <3>1, <3>2
  <2> QED
    BY <2>3, <2>4
<1> QED
  BY <1>1, <1>4, <1>7, <1>11, <1>12, <1>13, ChannelDelivers

LEMMA MessageSent ==
  ASSUME IInv, ChannelInv, SendMessage, ~Binary
  PROVE  ChannelInv' /\ [Channel!Next]_(Channel!vars)
<1>1. /\ server \in ServerState /\ Matched(server) /\ Quiet(server)
      /\ sent \in Nat /\ sent' = sent + 1 /\ UNCHANGED <<client, got>>
      /\ server' = Send(server, Message(sent'))
  BY DEF IInv, EndsTyped, ServerInv, ChannelInv, SendMessage
<1>2. /\ Message(sent') \in Packet /\ Message(sent').type = "message"
      /\ Message(sent').n = sent'
  BY <1>1, MessagePacket DEF Message
<1>3. Numbers(<<Message(sent')>>) = <<sent'>>
  BY <1>2, NumbersOne
<1>4. Queue = QueueOf(server) /\ Queue' = QueueOf(server')
  BY DEF Queue, QueueOf
<1>5. Queue' = Queue \o <<sent'>> /\ Quiet(server')
  BY <1>1, <1>2, <1>3, <1>4, SendQueue
<1>6. Queue \in Seq(Nat) /\ got \in Seq(Nat)
  BY <1>1, <1>4, QueueOfType DEF ChannelInv
<1>7. Queue' = Append(Queue, sent + 1)
  BY <1>1, <1>5, <1>6, AppendIsConcat
<1>8. Len(Queue') = Len(Queue) + 1 /\ Len(Queue) \in Nat /\ Len(got) \in Nat
  BY <1>1, <1>6, <1>7, AppendProperties, LenProperties
<1>9. ChannelInv'
  <2>1. client.state # "closed" => Len(got) + Len(Queue') = sent + 1
    BY <1>1, <1>8 DEF ChannelInv
  <2>2. got' = got /\ client' = client
    BY <1>1
  <2>3. client'.state # "closed" => Len(got') + Len(Queue') = sent'
    BY <1>1, <2>1, <2>2
  <2> QED
    BY <1>5, <1>6, <2>2, <2>3 DEF ChannelInv
<1>10. CASE client.state # "closed"
  <2>1. Len(Queue) + Len(got) + 1 = sent + 1
    BY <1>1, <1>8, <1>10 DEF ChannelInv
  <2>2. Channel!Send
    BY <1>1, <1>7, <2>1 DEF Channel!Send
  <2> QED
    BY <1>9, <1>10, <2>2, Zenon DEF Channel!Next
<1>11. CASE client.state = "closed"
  <2>1. Channel!Abandon
    BY <1>1, <1>11 DEF Channel!Abandon
  <2> QED
    BY <1>9, <2>1, Zenon DEF Channel!Next
<1> QED
  BY <1>10, <1>11

LEMMA ChannelStep ==
  ASSUME IInv, IInv', ChannelInv, [Next]_vars, ~Binary
  PROVE  ChannelInv' /\ [Channel!Next]_(Channel!vars)
<1>1. client \in ClientState
  BY DEF IInv, EndsTyped
<1>2. CASE ServerStep
  <2>1. client'.state = client.state
    BY <1>1, <1>2 DEF ServerStep, HandleHandshake, HandlePoll, HandleData,
       HandleUpgrade, HandleFrame, HandleWsClose, ClientState
  <2>2. UNCHANGED <<sent, got>>
    BY <1>2 DEF ServerStep, HandleHandshake, HandlePoll, HandleData,
       HandleUpgrade, HandleFrame, HandleWsClose
  <2> QED
    BY <1>2, <2>1, <2>2, ServerKeepsQueue, ChannelKept
<1>3. CASE ClientPolled
  BY <1>3, PolledDelivers
<1>4. CASE ClientFrame
  BY <1>4, FrameDelivers
<1>5. CASE SendMessage
  BY <1>5, MessageSent
<1>6. CASE UNCHANGED <<server, sent, got>>
           /\ (client.state = "closed" => client'.state = "closed")
  <2>1. Queue' = Queue /\ Quiet(server')
    BY <1>6 DEF Queue, ChannelInv
  <2> QED
    BY <1>6, <2>1, ChannelKept
<1>7. CASE ClientRefused \/ ClientDrained \/ ClientProbe \/ ClientOpen
           \/ ClientMessage \/ ClientPing \/ ClientProbeLost \/ ClientTimeout
           \/ ClientClose
  <2>1. client.state # "closed" /\ UNCHANGED <<server, sent, got>>
    BY <1>7 DEF ClientRefused, ClientDrained, ClientProbe, ClientOpen,
       ClientMessage, ClientPing, ClientProbeLost, ClientTimeout, ClientClose
  <2> QED
    BY <1>6, <2>1
<1>8. CASE UNCHANGED vars
  BY <1>6, <1>8 DEF vars
<1> QED
  BY <1>2, <1>3, <1>4, <1>5, <1>7, <1>8 DEF Next, ClientStep

\* Over textual payloads a session is the channel of PacketChannel
\* (Socket::SendMessage to the client's onmessage): no message is lost,
\* repeated or overtaken while the client is there, whatever the upgrade, the
\* polls and the flushes do in between.
THEOREM SessionImplementsChannel ==
  ASSUME ~Binary
  PROVE  Spec => ImplementsChannel
<1>1. Init => ChannelInv /\ Channel!Init
  <2> SUFFICES ASSUME Init PROVE ChannelInv /\ Channel!Init
    OBVIOUS
  <2>1. /\ server.reply = <<>> /\ server.frames = <<>> /\ server.buffer = <<>>
        /\ got = <<>> /\ sent = 0 /\ client.state = "idle"
    BY DEF Init
  <2>2. Queue = <<>>
    <3>1. Queue = <<>> \o <<>> \o <<>>
      BY <2>1, NumbersEmpty DEF Queue
    <3> QED
      BY <3>1
  <2> QED
    BY <2>1, <2>2, NumbersEmpty DEF ChannelInv, Quiet, Channel!Init
<1>2. IInv /\ IInv' /\ ChannelInv /\ [Next]_vars
        => ChannelInv' /\ [Channel!Next]_(Channel!vars)
  BY ChannelStep
<1> QED
  BY <1>1, <1>2, SessionInvariant, PTL DEF Spec, ImplementsChannel, Channel!Spec

-----------------------------------------------------------------------------
\* The other direction: from the client to the application.

\* What the client has said and the application not yet heard, oldest first.
SayingOf(c) == Numbers(c.body) \o (Numbers(c.up) \o Numbers(c.outbox))

\* Messages travel on one transport at a time.
Wire(c) ==
  /\ c.transport = "polling" => Numbers(c.up) = <<>>
  /\ c.transport = "websocket" => Numbers(c.body) = <<>>
  /\ c.post # "request" => c.body = <<>>

\* Until the server has exchanged the transports, no message on the websocket
\* overtakes the upgrade packet.
Behind(q) ==
  \A i \in 1..Len(q) :
    q[i].type = "message" => \E j \in 1..i - 1 : q[j].type = "upgrade"
Ready(c) ==
  /\ Behind(c.up)
  /\ c.state # "closed" /\ c.transport = "websocket" => Contains(c.up, "upgrade")

\* An operation of the client that loses and reorders nothing it has said.
Speaks(c, d) ==
  /\ Wire(d)
  /\ Ready(c) => Ready(d)
  /\ c.post = "refused" => d.post = "refused"

LEMMA SayingOfType ==
  ASSUME NEW c \in ClientState
  PROVE  /\ c.body \in Seq(Packet) /\ c.up \in Seq(Packet) /\ c.outbox \in Seq(Packet)
         /\ Numbers(c.body) \in Seq(Nat) /\ Numbers(c.up) \in Seq(Nat)
         /\ Numbers(c.outbox) \in Seq(Nat) /\ SayingOf(c) \in Seq(Nat)
<1>1. c.body \in Seq(Packet) /\ c.up \in Seq(Packet) /\ c.outbox \in Seq(Packet)
  BY DEF ClientState
<1>2. /\ Numbers(c.body) \in Seq(Nat) /\ Numbers(c.up) \in Seq(Nat)
      /\ Numbers(c.outbox) \in Seq(Nat)
  BY <1>1, NumbersType
<1> QED
  BY <1>1, <1>2, ConcatProperties DEF SayingOf

\* More behind the upgrade packet.
LEMMA BehindConcat ==
  ASSUME NEW q \in Seq(Packet), NEW r \in Seq(Packet), Behind(q), Contains(q, "upgrade")
  PROVE  Behind(q \o r) /\ Contains(q \o r, "upgrade")
<1> DEFINE s == q \o r
<1>1. /\ Len(q) \in Nat /\ Len(r) \in Nat /\ Len(s) = Len(q) + Len(r)
      /\ \A i \in 1..Len(q) : s[i] = q[i]
  BY LenProperties, ConcatProperties
<1> HIDE DEF s
<1>2. PICK u \in 1..Len(q) : q[u].type = "upgrade"
  BY DEF Contains
<1>3. u \in 1..Len(s) /\ s[u].type = "upgrade"
  BY <1>1, <1>2
<1>4. ASSUME NEW i \in 1..Len(s), s[i].type = "message"
      PROVE  \E j \in 1..i - 1 : s[j].type = "upgrade"
  <2>1. CASE i \in 1..Len(q)
    <3>1. PICK j \in 1..i - 1 : q[j].type = "upgrade"
      BY <1>1, <1>4, <2>1 DEF Behind
    <3>2. j \in 1..Len(q)
      BY <1>1, <2>1
    <3> QED
      BY <1>1, <3>1, <3>2
  <2>2. CASE i > Len(q)
    <3>1. u \in 1..i - 1
      BY <1>1, <2>2
    <3> QED
      BY <1>3, <3>1
  <2> QED
    BY <1>1, <2>1, <2>2
<1> QED
  BY <1>3, <1>4 DEF Behind, Contains, s

\* A control packet at the end.
LEMMA BehindAppend ==
  ASSUME NEW q \in Seq(Packet), NEW p \in Packet, Behind(q), p.type # "message"
  PROVE  Behind(Append(q, p))
<1>1. /\ Len(q) \in Nat /\ Len(Append(q, p)) = Len(q) + 1
      /\ Append(q, p)[Len(q) + 1] = p
      /\ \A i \in 1..Len(q) : Append(q, p)[i] = q[i]
  BY LenProperties, AppendProperties
<1> DEFINE r == Append(q, p)
<1> HIDE DEF r
<1>2. ASSUME NEW i \in 1..Len(q) + 1, r[i].type = "message"
      PROVE  \E j \in 1..i - 1 : r[j].type = "upgrade"
  <2>1. i \in 1..Len(q)
    BY <1>1, <1>2 DEF r
  <2>2. PICK j \in 1..i - 1 : q[j].type = "upgrade"
    BY <1>1, <1>2, <2>1 DEF Behind, r
  <2>3. j \in 1..Len(q)
    BY <1>1, <2>1
  <2> QED
    BY <1>1, <2>2, <2>3 DEF r
<1> QED
  BY <1>1, <1>2 DEF Behind, r

\* The first packet is not a message, and the rest is behind it.
LEMMA BehindTail ==
  ASSUME NEW q \in Seq(Packet), q # <<>>, Behind(q)
  PROVE  /\ Head(q).type # "message"
         /\ Head(q).type # "upgrade" =>
              /\ Behind(Tail(q))
              /\ Contains(q, "upgrade") => Contains(Tail(q), "upgrade")
<1>1. /\ Len(q) \in Nat /\ Len(q) # 0 /\ Head(q) = q[1] /\ Len(Tail(q)) = Len(q) - 1
      /\ \A i \in 1..Len(q) - 1 : Tail(q)[i] = q[i + 1]
  BY LenProperties, EmptySeq, HeadTailProperties
<1>2. Head(q).type # "message"
  <2>1. 1 \in 1..Len(q) /\ ~\E j \in 1..1 - 1 : TRUE
    BY <1>1
  <2> QED
    BY <1>1, <2>1 DEF Behind
<1>3. ASSUME Head(q).type # "upgrade", NEW i \in 1..Len(q) - 1,
             Tail(q)[i].type = "message"
      PROVE  \E j \in 1..i - 1 : Tail(q)[j].type = "upgrade"
  <2>1. i + 1 \in 1..Len(q) /\ q[i + 1].type = "message"
    BY <1>1, <1>3
  <2>2. PICK j \in 1..(i + 1) - 1 : q[j].type = "upgrade"
    BY <2>1 DEF Behind
  <2>3. j # 1
    BY <1>1, <1>3, <2>2
  <2>4. j - 1 \in 1..i - 1 /\ j - 1 \in 1..Len(q) - 1 /\ (j - 1) + 1 = j
    BY <1>1, <2>2, <2>3
  <2>5. Tail(q)[j - 1].type = "upgrade"
    BY <1>1, <2>2, <2>4
  <2> QED
    BY <2>4, <2>5
<1>4. ASSUME Head(q).type # "upgrade", Contains(q, "upgrade")
      PROVE  Contains(Tail(q), "upgrade")
  <2>1. PICK j \in 1..Len(q) : q[j].type = "upgrade"
    BY <1>4 DEF Contains
  <2>2. j # 1
    BY <1>1, <1>4, <2>1
  <2>3. j - 1 \in 1..Len(q) - 1 /\ (j - 1) + 1 = j
    BY <1>1, <2>1, <2>2
  <2>4. Tail(q)[j - 1].type = "upgrade"
    BY <1>1, <2>1, <2>3
  <2> QED
    BY <1>1, <2>3, <2>4 DEF Contains
<1> QED
  BY <1>1, <1>2, <1>3, <1>4 DEF Behind

\* Socket.flush of the client.
LEMMA ClientFlushSpeaks ==
  ASSUME NEW c \in ClientState, Wire(c)
  PROVE  Speaks(c, ClientFlush(c)) /\ SayingOf(ClientFlush(c)) = SayingOf(c)
<1> DEFINE flushes == c.state = "open" /\ c.probe # "pausing" /\ c.outbox # <<>>
<1>1. /\ c.body \in Seq(Packet) /\ c.up \in Seq(Packet) /\ c.outbox \in Seq(Packet)
      /\ Numbers(c.body) \in Seq(Nat) /\ Numbers(c.up) \in Seq(Nat)
      /\ Numbers(c.outbox) \in Seq(Nat)
  BY SayingOfType
<1>2. CASE ClientFlush(c) = c
  BY <1>2 DEF Speaks
<1>3. CASE flushes /\ c.transport = "websocket"
  <2> DEFINE d == [c EXCEPT !.up = @ \o c.outbox, !.outbox = <<>>]
  <2>1. ClientFlush(c) = d
    BY <1>3 DEF ClientFlush
  <2>2. /\ d.body = c.body /\ d.up = c.up \o c.outbox /\ d.outbox = <<>>
        /\ d.transport = c.transport /\ d.post = c.post /\ d.state = c.state
    BY DEF ClientState
  <2> HIDE DEF d
  <2>3. SayingOf(d) = SayingOf(c)
    <3>1. /\ Numbers(d.up) = Numbers(c.up) \o Numbers(c.outbox)
          /\ Numbers(d.up) \in Seq(Nat)
      <4>1. Numbers(c.up \o c.outbox) = Numbers(c.up) \o Numbers(c.outbox)
        BY <1>1, NumbersConcat
      <4>2. Numbers(c.up) \o Numbers(c.outbox) \in Seq(Nat)
        BY <1>1, ConcatProperties
      <4> QED
        BY <2>2, <4>1, <4>2
    <3>2. Numbers(d.up) \o Numbers(d.outbox) = Numbers(d.up)
      BY <2>2, <3>1, NumbersEmpty, ConcatEmptySeq
    <3> QED
      BY <2>2, <3>1, <3>2 DEF SayingOf
  <2>5. Wire(d)
    BY <1>3, <2>2 DEF Wire
  <2>6. Ready(c) => Ready(d)
    BY <1>1, <1>3, <2>2, BehindConcat DEF Ready
  <2> QED
    BY <2>1, <2>2, <2>3, <2>5, <2>6 DEF Speaks
<1>4. CASE flushes /\ c.transport = "polling" /\ c.post = "none"
  <2> DEFINE d == [c EXCEPT !.post = "request", !.body = c.outbox,
                            !.outbox = <<>>]
  <2>1. ClientFlush(c) = d
    BY <1>4 DEF ClientFlush
  <2>2. /\ d.body = c.outbox /\ d.up = c.up /\ d.outbox = <<>>
        /\ d.transport = c.transport /\ d.post = "request" /\ d.state = c.state
    BY DEF ClientState
  <2> HIDE DEF d
  <2>3. c.body = <<>> /\ Numbers(c.up) = <<>>
    BY <1>4 DEF Wire
  <2>4. SayingOf(c) = <<>> \o (<<>> \o Numbers(c.outbox))
        /\ SayingOf(d) = Numbers(c.outbox) \o (<<>> \o <<>>)
    BY <2>2, <2>3, NumbersEmpty DEF SayingOf
  <2>5. SayingOf(c) = Numbers(c.outbox) /\ SayingOf(d) = Numbers(c.outbox)
    BY <1>1, <2>4, ConcatEmptySeq, EmptySeq
  <2> QED
    BY <1>4, <2>1, <2>2, <2>3, <2>5 DEF Speaks, Wire, Ready
<1> QED
  BY <1>2, <1>3, <1>4 DEF ClientFlush, ClientState, Transport

\* The callback of Polling.pause.
LEMMA ClientPausedSpeaks ==
  ASSUME NEW c \in ClientState, Wire(c)
  PROVE  Speaks(c, ClientPaused(c)) /\ SayingOf(ClientPaused(c)) = SayingOf(c)
<1>1. CASE c.probe = "pausing" /\ c.get = "none" /\ c.post = "none"
  <2> DEFINE p == Control("upgrade")
             d == [c EXCEPT !.probe = "done", !.transport = "websocket",
                            !.up = Append(@, p)]
  <2>1. ClientPaused(c) = ClientFlush(d)
    BY <1>1 DEF ClientPaused
  <2>2. p \in Packet /\ p.type = "upgrade"
    BY ControlPacket DEF ControlTypes
  <2> HIDE DEF p
  <2>3. c.up \in Seq(Packet) /\ Append(c.up, p) \in Seq(Packet)
    BY <2>2, QueueFacts, SayingOfType
  <2>4. d \in ClientState
    BY <2>3 DEF ClientState, Transport
  <2>5. /\ d.body = c.body /\ d.up = Append(c.up, p) /\ d.outbox = c.outbox
        /\ d.transport = "websocket" /\ d.post = c.post /\ d.state = c.state
    BY <2>3 DEF ClientState
  <2> HIDE DEF d
  <2>6. Numbers(d.up) = Numbers(c.up) /\ Contains(d.up, "upgrade")
    BY <2>2, <2>3, <2>5, NumbersAppend, ContainsAppended
  <2>7. SayingOf(d) = SayingOf(c)
    BY <2>5, <2>6 DEF SayingOf
  <2>8. Wire(d)
    BY <1>1, <2>5, NumbersEmpty DEF Wire
  <2>9. Ready(c) => Ready(d)
    BY <2>2, <2>3, <2>5, <2>6, BehindAppend DEF Ready
  <2> QED
    BY <1>1, <2>1, <2>4, <2>5, <2>7, <2>8, <2>9, ClientFlushSpeaks DEF Speaks
<1>2. CASE ~(c.probe = "pausing" /\ c.get = "none" /\ c.post = "none")
  BY <1>2 DEF ClientPaused, Speaks
<1> QED
  BY <1>1, <1>2

\* Socket.onClose: the close packet is posted only when nothing else is.
LEMMA ClientClosedSpeaks ==
  ASSUME NEW c \in ClientState, Wire(c)
  PROVE  Speaks(c, ClientClosed(c)) /\ SayingOf(ClientClosed(c)) = SayingOf(c)
<1>1. CASE c.transport = "polling" /\ c.post = "none" /\ c.state = "open"
  <2> DEFINE p == Control("close")
             d == [c EXCEPT !.state = "closed", !.post = "request",
                            !.body = <<p>>]
  <2>1. ClientClosed(c) = d
    BY <1>1 DEF ClientClosed
  <2>2. p \in Packet /\ p.type # "message"
    BY ControlPacket DEF ControlTypes
  <2>3. Numbers(<<p>>) = <<>>
    BY <2>2, NumbersOne
  <2> HIDE DEF p
  <2>4. /\ d.body = <<p>> /\ d.up = c.up /\ d.outbox = c.outbox
        /\ d.transport = c.transport /\ d.post = "request" /\ d.state = "closed"
    BY DEF ClientState
  <2> HIDE DEF d
  <2>5. c.body = <<>>
    BY <1>1 DEF Wire
  <2>6. SayingOf(d) = SayingOf(c)
    BY <2>3, <2>4, <2>5, NumbersEmpty DEF SayingOf
  <2> QED
    BY <1>1, <2>1, <2>3, <2>4, <2>6 DEF Speaks, Wire, Ready
<1>2. CASE ~(c.transport = "polling" /\ c.post = "none" /\ c.state = "open")
  <2>1. ClientClosed(c) = [c EXCEPT !.state = "closed"]
    BY <1>2 DEF ClientClosed
  <2> QED
    BY <2>1 DEF Speaks, Wire, Ready, SayingOf, ClientState
<1> QED
  BY <1>1, <1>2

\* Socket.sendPacket: one more at the end.
LEMMA ClientSendSpeaks ==
  ASSUME NEW c \in ClientState, Wire(c), NEW p \in Packet
  PROVE  /\ Speaks(c, ClientSend(c, p))
         /\ SayingOf(ClientSend(c, p)) = SayingOf(c) \o Numbers(<<p>>)
<1> DEFINE d == [c EXCEPT !.outbox = Append(@, p)]
<1>1. /\ c.outbox \in Seq(Packet) /\ <<p>> \in Seq(Packet)
      /\ Numbers(c.body) \in Seq(Nat) /\ Numbers(c.up) \in Seq(Nat)
      /\ Numbers(c.outbox) \in Seq(Nat)
  BY SayingOfType
<1>2. Append(c.outbox, p) = c.outbox \o <<p>> /\ Append(c.outbox, p) \in Seq(Packet)
  BY <1>1, AppendIsConcat, AppendProperties
<1>3. d \in ClientState
  BY <1>2 DEF ClientState
<1>4. /\ d.body = c.body /\ d.up = c.up /\ d.outbox = c.outbox \o <<p>>
      /\ d.transport = c.transport /\ d.post = c.post /\ d.state = c.state
  BY <1>2 DEF ClientState
<1>5. ClientSend(c, p) = ClientFlush(d)
  BY DEF ClientSend
<1> HIDE DEF d
<1>6. Wire(d) /\ (Ready(c) => Ready(d))
  BY <1>4 DEF Wire, Ready
<1>7. SayingOf(d) = SayingOf(c) \o Numbers(<<p>>)
  <2> DEFINE x == Numbers(c.body)
             u == Numbers(c.up)
             y == Numbers(c.outbox)
             z == Numbers(<<p>>)
             v == u \o y
  <2>1. /\ x \in Seq(Nat) /\ u \in Seq(Nat) /\ y \in Seq(Nat)
        /\ z \in Seq(Nat) /\ v \in Seq(Nat)
    BY <1>1, NumbersType, ConcatProperties
  <2>2. SayingOf(d) = x \o (u \o (y \o z)) /\ SayingOf(c) = x \o v
    BY <1>1, <1>4, NumbersConcat DEF SayingOf
  <2> HIDE DEF x, u, y, z
  <2>3. u \o (y \o z) = v \o z
    BY ZenonT(20), <2>1, Regroup
  <2> HIDE DEF v
  <2>4. x \o (v \o z) = x \o v \o z
    BY ZenonT(20), <2>1, Regroup
  <2> QED
    BY <2>2, <2>3, <2>4 DEF z
<1> QED
  BY <1>3, <1>4, <1>5, <1>6, <1>7, ClientFlushSpeaks DEF Speaks

\* The inductive invariant of this direction, beside IInv.
HeardInv ==
  /\ heard \in Seq(Nat)
  /\ Wire(client)
  /\ server.transport = "polling" => Ready(client)
  /\ Rising(heard \o SayingOf(client), said)
  /\ client.state # "closed" /\ client.post # "refused" =>
       heard \o SayingOf(client) = [i \in 1..said |-> i]

\* A step that leaves everything said heard or on its way, in its order.
LEMMA SpokenKept ==
  ASSUME HeardInv, said' = said, heard' \in Seq(Nat), Wire(client'),
         heard' \o SayingOf(client') = heard \o SayingOf(client),
         server'.transport = "polling" => Ready(client'),
         client.state = "closed" => client'.state = "closed",
         client.post = "refused" => client'.post = "refused"
  PROVE  HeardInv'
<1>1. SayingOf(client)' = SayingOf(client')
  BY DEF SayingOf
<1> QED
  BY <1>1 DEF HeardInv, Wire, Ready

\* A step of the client that says nothing new.
LEMMA ClientSpeaks ==
  ASSUME HeardInv, UNCHANGED <<said, heard>>,
         server'.transport = server.transport, Speaks(client, client'),
         SayingOf(client') = SayingOf(client), client.state # "closed"
  PROVE  HeardInv'
BY SpokenKept DEF HeardInv, Speaks

LEMMA TransportKept ==
  ASSUME NEW s \in ServerState
  PROVE  /\ Flush(s).transport = s.transport
         /\ \A p \in Packet : Send(s, p).transport = s.transport
         /\ HoldPoll(s).transport = s.transport
<1>1. \A t \in ServerState : Flush(t).transport = t.transport
  BY DEF Flush, AnswerPoll, SendFrames, ServerState
<1>2. ASSUME NEW p \in Packet PROVE Send(s, p).transport = s.transport
  <2> DEFINE t == [s EXCEPT !.buffer = Append(@, p)]
  <2>1. Append(s.buffer, p) \in Seq(Packet)
    BY QueueFacts DEF ServerState
  <2>2. t \in ServerState /\ t.transport = s.transport
    BY <2>1 DEF ServerState
  <2> HIDE DEF t
  <2> QED
    BY <1>1, <2>2 DEF Send, t
<1>3. HoldPoll(s).transport = s.transport
  <2> DEFINE t == [s EXCEPT !.poll = TRUE, !.writable = TRUE]
  <2>1. t \in ServerState /\ t.transport = s.transport
    BY DEF ServerState
  <2> HIDE DEF t
  <2> QED
    BY <1>1, <2>1 DEF HoldPoll, t
<1> QED
  BY <1>1, <1>2, <1>3

\* Handlers that leave what the client has said where it is.
LEMMA SpokenUntouched ==
  ASSUME HeardInv, UNCHANGED <<said, heard>>,
         server'.transport = server.transport,
         client'.state = "closed" <=> client.state = "closed",
         client'.transport = client.transport,
         client'.post = client.post, client'.body = client.body,
         client'.up = client.up, client'.outbox = client.outbox
  PROVE  HeardInv'
<1>1. SayingOf(client') = SayingOf(client) /\ Wire(client')
      /\ (Ready(client) => Ready(client'))
  BY DEF SayingOf, Wire, Ready, HeardInv
<1> QED
  BY <1>1, SpokenKept DEF HeardInv

\* With binary contents a payload that holds a message is read whole.
LEMMA DecodeNumbers ==
  ASSUME NEW q \in Seq(Packet), Binary, Blobs
  PROVE  Numbers(DecodePayload(q)) = Numbers(q)
<1>1. CASE Contains(q, "message")
  BY <1>1 DEF DecodePayload
<1>2. CASE ~Contains(q, "message")
  <2>1. DecodePayload(q) = <<>> /\ Numbers(q) = <<>>
    BY <1>2, NumbersNone DEF DecodePayload
  <2> QED
    BY <2>1, NumbersEmpty
<1> QED
  BY <1>1, <1>2

\* A write is heard, or refused and its messages are lost.
LEMMA HandleDataHeard ==
  ASSUME IInv, HeardInv, HandleData, Binary, Blobs
  PROVE  HeardInv'
<1> DEFINE x == Numbers(client.body)
           y == Numbers(client.up) \o Numbers(client.outbox)
<1>1. /\ server \in ServerState /\ client \in ClientState /\ said' = said
      /\ heard \in Seq(Nat)
  BY DEF IInv, EndsTyped, HeardInv, HandleData
<1>2. x \in Seq(Nat) /\ y \in Seq(Nat) /\ client.body \in Seq(Packet)
  BY <1>1, SayingOfType, ConcatProperties
<1>3. /\ client'.body = <<>> /\ client'.up = client.up
      /\ client'.outbox = client.outbox /\ client'.transport = client.transport
      /\ client'.state = client.state /\ client'.post \in {"ok", "refused"}
      /\ server'.transport = server.transport
  BY <1>1 DEF HandleData, ClientState, ServerState
<1>4. Wire(client') /\ (Ready(client) => Ready(client'))
  BY <1>3, NumbersEmpty DEF HeardInv, Wire, Ready
<1>5. SayingOf(client) = x \o y /\ SayingOf(client') = <<>> \o y
  BY <1>3, NumbersEmpty DEF SayingOf
<1>6. server'.transport = "polling" => Ready(client')
  BY <1>3, <1>4 DEF HeardInv
<1>7. CASE Verified /\ ~server.poll
  <2>1. heard' = heard \o x
    BY <1>2, <1>7, DecodeNumbers DEF HandleData
  <2>2. client.post = "request"
    BY DEF HandleData
  <2> HIDE DEF x, y
  <2>3. heard \o x \in Seq(Nat) /\ <<>> \o y = y
    BY <1>1, <1>2, ConcatProperties, ConcatEmptySeq
  <2>4. heard \o (x \o y) = heard \o x \o y
    BY <1>1, <1>2, Regroup
  <2>5. heard' \o SayingOf(client') = heard \o SayingOf(client)
    BY <1>5, <2>1, <2>3, <2>4
  <2> QED
    BY <1>1, <1>3, <1>4, <1>6, <2>1, <2>2, <2>3, <2>5, SpokenKept
<1>8. CASE ~(Verified /\ ~server.poll)
  <2>1. heard' = heard /\ client'.post = "refused"
    BY <1>1, <1>8 DEF HandleData, ClientState
  <2> HIDE DEF x, y
  <2>2. heard \o (x \o y) = heard \o x \o y
    BY <1>1, <1>2, Regroup
  <2>3. Rising(heard \o x \o y, said)
    BY <1>5, <2>2 DEF HeardInv
  <2>4. Rising(heard \o y, said)
    BY <1>1, <1>2, <2>3, RisingDrop
  <2>5. <<>> \o y = y
    BY <1>2, ConcatEmptySeq
  <2>6. Rising(heard' \o SayingOf(client'), said')
    BY <1>1, <1>5, <2>1, <2>4, <2>5
  <2>7. SayingOf(client)' = SayingOf(client')
    BY DEF SayingOf
  <2> QED
    BY <1>1, <1>4, <1>6, <2>1, <2>6, <2>7 DEF HeardInv, Wire, Ready
<1> QED
  BY <1>7, <1>8

\* A frame: before the exchange it is no message; afterwards a message is
\* heard, and no write can be under way that it would overtake.
LEMMA HandleFrameHeard ==
  ASSUME IInv, HeardInv, HandleFrame
  PROVE  HeardInv'
<1> DEFINE p == Head(client.up)
           rest == Tail(client.up)
           one == Numbers(<<p>>)
           x == Numbers(client.body)
           y == Numbers(rest)
           z == Numbers(client.outbox)
<1>1. /\ server \in ServerState /\ client \in ClientState /\ said' = said
      /\ heard \in Seq(Nat) /\ client.up \in Seq(Packet) /\ client.up # <<>>
      /\ client' = [client EXCEPT !.up = rest]
  BY DEF IInv, EndsTyped, HeardInv, HandleFrame, ClientState
<1>2. p \in Packet /\ rest \in Seq(Packet) /\ <<p>> \in Seq(Packet)
  BY <1>1, QueueFacts
<1>3. /\ client'.body = client.body /\ client'.up = rest
      /\ client'.outbox = client.outbox /\ client'.transport = client.transport
      /\ client'.state = client.state /\ client'.post = client.post
  BY <1>1 DEF ClientState
<1>4. /\ one \in Seq(Nat) /\ x \in Seq(Nat) /\ y \in Seq(Nat) /\ z \in Seq(Nat)
      /\ Numbers(client.up) = one \o y
  BY <1>1, <1>2, NumbersType, NumbersHead, SayingOfType
<1>5. /\ SayingOf(client) = x \o ((one \o y) \o z)
      /\ SayingOf(client') = x \o (y \o z)
  BY <1>3, <1>4 DEF SayingOf
<1>6. Wire(client')
  <2>1. one \o y = <<>> => y = <<>>
    BY <1>4, ConcatEqualIffEmpty
  <2> QED
    BY <1>3, <1>4, <2>1 DEF HeardInv, Wire
<1>7. CASE OnPacketWhenUpgrading(p)
  <2>1. server.transport = "polling" /\ heard' = heard /\ Ready(client)
    BY <1>7 DEF OnPacketWhenUpgrading, HeardInv
  <2>2. /\ p.type # "message"
        /\ p.type # "upgrade" =>
             /\ Behind(rest)
             /\ Contains(client.up, "upgrade") => Contains(rest, "upgrade")
    BY <1>1, <2>1, BehindTail DEF Ready
  <2>3. one = <<>>
    BY <1>2, <2>2, NumbersOne
  <2>4. p.type = "upgrade" => server'.transport # "polling"
    BY <1>1, <1>7 DEF OnPacketWhenUpgrading, ServerState
  <2>5. server'.transport = "polling" => Ready(client')
    BY <1>3, <2>1, <2>2, <2>4 DEF Ready
  <2> HIDE DEF one, x, y, z
  <2>6. <<>> \o y = y
    BY <1>4
  <2> QED
    BY <1>1, <1>3, <1>5, <1>6, <2>1, <2>3, <2>5, <2>6, SpokenKept
<1>8. CASE OnPacket(p)
  <2>1. server.transport = "websocket" /\ heard' = heard \o one
    <3>1. one = IF p.type = "message" THEN <<p.n>> ELSE <<>>
      BY <1>2, NumbersOne
    <3>2. p.n \in Nat
      BY <1>2 DEF Packet
    <3>3. Append(heard, p.n) = heard \o <<p.n>> /\ heard \o <<>> = heard
      BY <1>1, <3>2, AppendIsConcat, ConcatEmptySeq
    <3> QED
      BY <1>8, <3>1, <3>3 DEF OnPacket
  <2>2. server'.transport = "websocket"
    <3>1. server' = Send(server, Control("pong")) \/ server' = server
      BY <1>8 DEF OnPacket
    <3>2. Control("pong") \in Packet
      BY ControlPacket DEF ControlTypes
    <3> QED
      BY <1>1, <2>1, <3>1, <3>2, TransportKept
  <2>3. x = <<>> \/ one = <<>>
    <3>1. one # <<>> => one \o y # <<>>
      BY <1>4, ConcatEqualIffEmpty
    <3>2. one # <<>> => client.transport = "websocket"
      BY <1>1, <1>4, <3>1 DEF HeardInv, Wire, ClientState, Transport
    <3> QED
      BY <3>2 DEF HeardInv, Wire
  <2> HIDE DEF one, x, y, z
  <2>4. heard' \o SayingOf(client') = heard \o SayingOf(client)
    <3> DEFINE w == y \o z
    <3>1. (one \o y) \o z = one \o w
      BY <1>4, Regroup
    <3>2. w \in Seq(Nat)
      BY <1>4, ConcatProperties
    <3> HIDE DEF w
    <3>3. SayingOf(client) = x \o (one \o w) /\ SayingOf(client') = x \o w
      BY <1>5, <3>1 DEF w
    <3>4. CASE x = <<>>
      <4>1. <<>> \o (one \o w) = one \o w /\ <<>> \o w = w
        BY <1>4, <3>2, ConcatProperties, ConcatEmptySeq
      <4>2. heard \o (one \o w) = heard \o one \o w
        BY <1>1, <1>4, <3>2, Regroup
      <4> QED
        BY <2>1, <3>3, <3>4, <4>1, <4>2
    <3>5. CASE one = <<>>
      <4>1. <<>> \o w = w /\ heard \o <<>> = heard
        BY <1>1, <3>2, ConcatEmptySeq
      <4> QED
        BY <2>1, <3>3, <3>5, <4>1
    <3> QED
      BY <2>3, <3>4, <3>5
  <2>5. heard' \in Seq(Nat)
    BY <1>1, <1>4, <2>1, ConcatProperties
  <2> QED
    BY <1>1, <1>3, <1>6, <2>2, <2>4, <2>5, SpokenKept
<1> QED
  BY <1>7, <1>8 DEF HandleFrame

\* The websocket is down: what it held is lost, but no message of a client
\* that is there.
LEMMA HandleWsCloseHeard ==
  ASSUME IInv, HeardInv, HandleWsClose
  PROVE  HeardInv'
<1> DEFINE x == Numbers(client.body)
           y == Numbers(client.up)
           z == Numbers(client.outbox)
<1>1. /\ server \in ServerState /\ client \in ClientState
      /\ said' = said /\ heard' = heard /\ heard \in Seq(Nat)
      /\ client.state = "closed" \/ client.probe = "failed"
      /\ client' = [client EXCEPT !.ws = "closed", !.up = <<>>]
  BY DEF IInv, EndsTyped, HeardInv, HandleWsClose
<1>2. /\ client'.body = client.body /\ client'.up = <<>>
      /\ client'.outbox = client.outbox /\ client'.transport = client.transport
      /\ client'.state = client.state /\ client'.post = client.post
      /\ server'.transport = server.transport
  BY <1>1 DEF ClientState, HandleWsClose, ServerState
<1>3. x \in Seq(Nat) /\ y \in Seq(Nat) /\ z \in Seq(Nat)
  BY <1>1, SayingOfType
<1>4. SayingOf(client) = x \o (y \o z) /\ SayingOf(client') = x \o z
  <2>1. <<>> \o z = z
    BY <1>3, ConcatEmptySeq
  <2> QED
    BY <1>2, <2>1, NumbersEmpty DEF SayingOf
<1>5. Wire(client')
  BY <1>2, NumbersEmpty DEF HeardInv, Wire
<1>6. Ready(client')
  <2>1. Behind(<<>>)
    BY DEF Behind
  <2>2. client.state # "closed" => client.transport # "websocket"
    BY <1>1 DEF IInv, Agrees
  <2> QED
    BY <1>2, <2>1, <2>2 DEF Ready
<1> HIDE DEF x, y, z
<1>7. CASE client.state # "closed"
  <2>1. y = <<>>
    BY <1>1, <1>7 DEF IInv, Agrees, HeardInv, Wire, ClientState, Transport, y
  <2>2. <<>> \o z = z
    BY <1>3, ConcatEmptySeq
  <2> QED
    BY <1>1, <1>2, <1>4, <1>5, <1>6, <2>1, <2>2, SpokenKept
<1>8. CASE client.state = "closed"
  <2> DEFINE hx == heard \o x
             yz == y \o z
  <2>0. hx \in Seq(Nat) /\ yz \in Seq(Nat) /\ heard \o (x \o z) = hx \o z
    BY <1>1, <1>3, ConcatProperties, Regroup
  <2>1. hx \o yz = hx \o y \o z
    <3> HIDE DEF hx
    <3> QED
      BY ZenonT(20), <1>3, <2>0, Regroup
  <2>2. heard \o (x \o yz) = hx \o yz
    <3> HIDE DEF yz
    <3> QED
      BY <1>1, <1>3, <2>0, Regroup
  <2> HIDE DEF hx
  <2>3. Rising(hx \o y \o z, said)
    BY <1>4, <2>1, <2>2 DEF HeardInv
  <2>4. Rising(hx \o z, said)
    BY <1>3, <2>0, <2>3, RisingDrop
  <2>5. Rising(heard' \o SayingOf(client'), said')
    BY <1>1, <1>4, <2>0, <2>4
  <2>6. SayingOf(client)' = SayingOf(client')
    BY DEF SayingOf
  <2> QED
    BY <1>1, <1>2, <1>5, <1>6, <1>8, <2>5, <2>6 DEF HeardInv, Wire, Ready
<1> QED
  BY <1>7, <1>8

\* The client's handlers, each a change of its own followed by a flush or the
\* end of a pause.
LEMMA ClientPolledHeard ==
  ASSUME IInv, HeardInv, ClientPolled
  PROVE  HeardInv'
<1> DEFINE q == server.reply
           opened == IF Contains(q, "open")
                     THEN [client EXCEPT !.state = "open", !.probe = "asked",
                                         !.ws = "request"]
                     ELSE client
           get == IF client.probe = "pausing" THEN "none" ELSE "request"
           waits == opened.pinging /\ ~Contains(q, "pong")
           read == [opened EXCEPT !.pinging = waits, !.get = get]
<1>1. /\ server \in ServerState /\ client \in ClientState
      /\ client.state \in {"opening", "open"}
      /\ server' = [server EXCEPT !.reply = <<>>]
      /\ said' = said /\ heard' = heard
      /\ client' = ClientPaused(ClientFlush(read))
  BY DEF IInv, EndsTyped, ClientPolled
<1>2. opened \in ClientState /\ opened.state # "closed"
      /\ opened.body = client.body /\ opened.up = client.up
      /\ opened.outbox = client.outbox /\ opened.post = client.post
      /\ opened.transport = client.transport
  <2> DEFINE c == [client EXCEPT !.state = "open", !.probe = "asked",
                                 !.ws = "request"]
  <2>1. c \in ClientState /\ c.state = "open"
        /\ c.body = client.body /\ c.up = client.up
        /\ c.outbox = client.outbox /\ c.post = client.post
        /\ c.transport = client.transport
    BY <1>1 DEF ClientState
  <2>2. opened = c \/ opened = client
    OBVIOUS
  <2> HIDE DEF c, opened
  <2> QED
    BY <1>1, <2>1, <2>2
<1>3. waits \in BOOLEAN
  BY ZenonT(20) DEF Contains
<1>4. get \in {"none", "request"}
  OBVIOUS
<1>5. /\ read \in ClientState /\ read.state = opened.state
      /\ read.body = client.body /\ read.up = client.up
      /\ read.outbox = client.outbox /\ read.post = client.post
      /\ read.transport = client.transport
  <2> HIDE DEF opened, waits, get
  <2> QED
    BY <1>2, <1>3, <1>4 DEF ClientState
<1> HIDE DEF read, opened
<1>6. Speaks(client, read) /\ SayingOf(read) = SayingOf(client)
  BY <1>1, <1>2, <1>5 DEF Speaks, Wire, Ready, SayingOf, HeardInv
<1> DEFINE sends == ClientFlush(read)
<1>7. /\ sends \in ClientState /\ Speaks(read, sends)
      /\ SayingOf(sends) = SayingOf(client)
  BY <1>5, <1>6, ClientFlushType, ClientFlushSpeaks DEF Speaks
<1> HIDE DEF sends
<1>8. Speaks(sends, client') /\ SayingOf(client') = SayingOf(client)
  BY <1>1, <1>7, ClientPausedSpeaks DEF Speaks, sends
<1>9. Speaks(client, client')
  BY <1>6, <1>7, <1>8 DEF Speaks
<1>10. server'.transport = server.transport
  BY <1>1 DEF ServerState
<1> QED
  BY <1>1, <1>8, <1>9, <1>10, ClientSpeaks

LEMMA ClientDrainedHeard ==
  ASSUME IInv, HeardInv, ClientDrained
  PROVE  HeardInv'
<1> DEFINE c == [client EXCEPT !.post = "none"]
           sends == ClientFlush(c)
<1>1. /\ client \in ClientState /\ client.state = "open" /\ client.post = "ok"
      /\ client' = ClientPaused(sends) /\ UNCHANGED <<server, said, heard>>
  BY DEF IInv, EndsTyped, ClientDrained
<1>2. /\ c \in ClientState /\ c.state = client.state /\ c.post = "none"
      /\ c.body = client.body /\ c.up = client.up
      /\ c.outbox = client.outbox /\ c.transport = client.transport
  BY <1>1 DEF ClientState
<1> HIDE DEF c
<1>3. Speaks(client, c) /\ SayingOf(c) = SayingOf(client)
  BY <1>1, <1>2 DEF Speaks, Wire, Ready, SayingOf, HeardInv
<1>4. /\ sends \in ClientState /\ Speaks(c, sends)
      /\ SayingOf(sends) = SayingOf(client)
  BY <1>2, <1>3, ClientFlushType, ClientFlushSpeaks DEF Speaks
<1> HIDE DEF sends
<1>5. Speaks(sends, client') /\ SayingOf(client') = SayingOf(client)
  BY <1>1, <1>4, ClientPausedSpeaks DEF Speaks
<1>6. Speaks(client, client')
  BY <1>3, <1>4, <1>5 DEF Speaks
<1> QED
  BY <1>1, <1>5, <1>6, ClientSpeaks

LEMMA ClientProbeHeard ==
  ASSUME IInv, HeardInv, ClientProbe
  PROVE  HeardInv'
<1> DEFINE p == Control("probe")
<1>1. /\ client \in ClientState /\ client.state = "open"
      /\ client.up \in Seq(Packet) /\ UNCHANGED <<server, said, heard>>
      /\ client' = [client EXCEPT !.probe = "sent", !.up = Append(@, p)]
  BY DEF IInv, EndsTyped, ClientProbe, ClientState
<1>2. p \in Packet /\ p.type = "probe"
  BY ControlPacket DEF ControlTypes
<1> HIDE DEF p
<1>3. Numbers(Append(client.up, p)) = Numbers(client.up)
  BY <1>1, <1>2, NumbersAppend
<1>4. /\ client'.state = client.state /\ client'.post = client.post
      /\ client'.body = client.body /\ client'.up = Append(client.up, p)
      /\ client'.outbox = client.outbox /\ client'.transport = client.transport
  BY <1>1 DEF ClientState
<1>5. Ready(client) => Ready(client')
  BY <1>1, <1>2, <1>4, BehindAppend, ContainsAppended DEF Ready
<1>6. Speaks(client, client') /\ SayingOf(client') = SayingOf(client)
  BY <1>3, <1>4, <1>5 DEF Speaks, Wire, SayingOf, HeardInv
<1> QED
  BY <1>1, <1>6, ClientSpeaks

LEMMA ClientFrameHeard ==
  ASSUME IInv, HeardInv, ClientFrame
  PROVE  HeardInv'
<1> DEFINE p == Head(server.frames)
           c == [client EXCEPT !.probe = "pausing"]
           waits == client.pinging /\ p.type # "pong"
<1>1. /\ server \in ServerState /\ client \in ClientState
      /\ client.state = "open" /\ said' = said /\ heard' = heard
      /\ server'.transport = server.transport
  BY DEF IInv, EndsTyped, ClientFrame, ServerState
<1>2. client' = ClientPaused(c) \/ client' = [client EXCEPT !.pinging = waits]
  BY DEF ClientFrame
<1>3. /\ c \in ClientState /\ c.state = client.state /\ c.post = client.post
      /\ c.body = client.body /\ c.up = client.up
      /\ c.outbox = client.outbox /\ c.transport = client.transport
  BY <1>1 DEF ClientState
<1> HIDE DEF c, waits
<1>4. CASE client' = ClientPaused(c)
  <2>1. Speaks(client, c) /\ SayingOf(c) = SayingOf(client)
    BY <1>3 DEF Speaks, Wire, Ready, SayingOf, HeardInv
  <2>2. Speaks(c, client') /\ SayingOf(client') = SayingOf(client)
    BY <1>3, <1>4, <2>1, ClientPausedSpeaks DEF Speaks
  <2>3. Speaks(client, client')
    BY <2>1, <2>2 DEF Speaks
  <2> QED
    BY <1>1, <2>2, <2>3, ClientSpeaks
<1>5. CASE client' = [client EXCEPT !.pinging = waits]
  <2>1. /\ client'.state = client.state /\ client'.post = client.post
        /\ client'.body = client.body /\ client'.up = client.up
        /\ client'.outbox = client.outbox /\ client'.transport = client.transport
    BY <1>1, <1>5 DEF ClientState
  <2> QED
    BY <1>1, <2>1, SpokenUntouched
<1> QED
  BY <1>2, <1>4, <1>5

\* The client says one more, behind all it has said.
LEMMA ClientMessageHeard ==
  ASSUME IInv, HeardInv, ClientMessage
  PROVE  HeardInv'
<1> DEFINE told == heard \o SayingOf(client)
<1>1. /\ client \in ClientState /\ Wire(client) /\ client.state = "open"
      /\ said \in Nat /\ said' = said + 1 /\ UNCHANGED <<server, heard>>
      /\ client' = ClientSend(client, Message(said')) /\ heard \in Seq(Nat)
  BY DEF IInv, EndsTyped, HeardInv, ClientMessage
<1>2. /\ Message(said') \in Packet /\ Message(said').type = "message"
      /\ Message(said').n = said + 1
  BY <1>1, MessagePacket DEF Message
<1>3. Numbers(<<Message(said')>>) = <<said + 1>>
  BY <1>2, NumbersOne
<1>4. Speaks(client, client') /\ SayingOf(client') = SayingOf(client) \o <<said + 1>>
  BY <1>1, <1>2, <1>3, ClientSendSpeaks
<1>5. SayingOf(client) \in Seq(Nat) /\ told \in Seq(Nat) /\ <<said + 1>> \in Seq(Nat)
  BY <1>1, SayingOfType, ConcatProperties
<1>6. heard' \o SayingOf(client') = Append(told, said + 1)
  <2>1. heard \o (SayingOf(client) \o <<said + 1>>) = told \o <<said + 1>>
    BY <1>1, <1>5, Regroup
  <2>2. told \o <<said + 1>> = Append(told, said + 1)
    BY <1>1, <1>5, AppendIsConcat
  <2> QED
    BY <1>1, <1>4, <2>1, <2>2
<1>7. Rising(told, said)
  BY DEF HeardInv
<1> HIDE DEF told
<1>8. Rising(heard' \o SayingOf(client'), said')
  BY <1>1, <1>5, <1>6, <1>7, RisingAppend
<1>9. ASSUME client'.state # "closed", client'.post # "refused"
      PROVE  heard' \o SayingOf(client') = [i \in 1..said' |-> i]
  <2>1. client.post # "refused"
    BY <1>4, <1>9 DEF Speaks
  <2>2. told = [i \in 1..said |-> i]
    BY <1>1, <2>1 DEF HeardInv, told
  <2>3. Append([i \in 1..said |-> i], said + 1) = [i \in 1..said + 1 |-> i]
    BY <1>1, UpToAppend
  <2> QED
    BY <1>1, <1>6, <2>2, <2>3
<1>10. SayingOf(client)' = SayingOf(client')
  BY DEF SayingOf
<1> QED
  BY <1>1, <1>4, <1>8, <1>9, <1>10 DEF HeardInv, Speaks, Wire, Ready

LEMMA ClientPingHeard ==
  ASSUME IInv, HeardInv, ClientPing
  PROVE  HeardInv'
<1> DEFINE c == [client EXCEPT !.pinging = TRUE]
           p == Control("ping")
<1>1. /\ client \in ClientState /\ client.state = "open"
      /\ client' = ClientSend(c, p) /\ UNCHANGED <<server, said, heard>>
  BY DEF IInv, EndsTyped, ClientPing
<1>2. /\ c \in ClientState /\ c.state = client.state /\ c.post = client.post
      /\ c.body = client.body /\ c.up = client.up
      /\ c.outbox = client.outbox /\ c.transport = client.transport
  BY <1>1 DEF ClientState
<1>3. p \in Packet /\ p.type = "ping"
  BY ControlPacket DEF ControlTypes
<1> HIDE DEF c, p
<1>4. Speaks(client, c) /\ SayingOf(c) = SayingOf(client)
  BY <1>2 DEF Speaks, Wire, Ready, SayingOf, HeardInv
<1>5. Numbers(<<p>>) = <<>>
  BY <1>3, NumbersOne
<1>6. SayingOf(c) \o <<>> = SayingOf(c)
  BY <1>2, SayingOfType, ConcatEmptySeq
<1>7. Speaks(c, client') /\ SayingOf(client') = SayingOf(client)
  BY <1>1, <1>2, <1>3, <1>4, <1>5, <1>6, ClientSendSpeaks DEF Speaks
<1>8. Speaks(client, client')
  BY <1>4, <1>7 DEF Speaks
<1> QED
  BY <1>1, <1>7, <1>8, ClientSpeaks

LEMMA ClientClosesHeard ==
  ASSUME IInv, HeardInv, UNCHANGED <<server, said, heard>>,
         client.state # "closed", client' = ClientClosed(client)
  PROVE  HeardInv'
<1>1. client \in ClientState /\ Wire(client)
  BY DEF IInv, EndsTyped, HeardInv
<1> QED
  BY <1>1, ClientClosedSpeaks, ClientSpeaks

LEMMA HeardStep ==
  ASSUME IInv, HeardInv, [Next]_vars, Binary, Blobs
  PROVE  HeardInv'
<1>1. server \in ServerState /\ client \in ClientState /\ sent \in Nat
  BY DEF IInv, EndsTyped
<1>2. CASE HandleHandshake
  <2> DEFINE s == [server EXCEPT !.registered = TRUE]
             h == HoldPoll(s)
  <2>1. s \in ServerState /\ s.reply = <<>> /\ s.transport = server.transport
    BY <1>1, <1>2 DEF HandleHandshake, IInv, Linked, ServerState
  <2>2. h \in ServerState /\ h.transport = server.transport
    <3> HIDE DEF s
    <3> QED
      BY <2>1, HoldPollFacts
  <2>3. Control("open") \in Packet
    BY ControlPacket DEF ControlTypes
  <2>4. server'.transport = server.transport
    <3>1. server' = Send(h, Control("open"))
      BY <1>2 DEF HandleHandshake
    <3> HIDE DEF h
    <3> QED
      BY <2>2, <2>3, <3>1, TransportKept
  <2> QED
    BY <1>1, <1>2, <2>4, SpokenUntouched DEF HandleHandshake, ClientState
<1>3. CASE HandlePoll
  <2>1. server'.transport = server.transport
    BY <1>1, <1>3, TransportKept DEF HandlePoll
  <2>2. /\ \E v \in {"held", "refused"} : client' = [client EXCEPT !.get = v]
        /\ UNCHANGED <<said, heard>>
    BY <1>3 DEF HandlePoll
  <2> QED
    BY <1>1, <2>1, <2>2, SpokenUntouched DEF ClientState
<1>4. CASE HandleUpgrade
  <2>1. server'.transport = server.transport
    BY <1>1, <1>4 DEF HandleUpgrade, ServerState
  <2>2. /\ \E v \in {"open", "closed"} : client' = [client EXCEPT !.ws = v]
        /\ UNCHANGED <<said, heard>>
    BY <1>4 DEF HandleUpgrade
  <2> QED
    BY <1>1, <2>1, <2>2, SpokenUntouched DEF ClientState
<1>5. CASE SendMessage
  <2>1. Message(sent') \in Packet
    BY <1>1, <1>5, MessagePacket DEF SendMessage
  <2>2. server'.transport = server.transport /\ UNCHANGED <<client, said, heard>>
    BY <1>1, <1>5, <2>1, TransportKept DEF SendMessage
  <2> QED
    BY <2>2, SpokenUntouched
<1>6. CASE ClientOpen
  BY <1>1, <1>6, SpokenUntouched DEF ClientOpen, ClientState
<1>7. CASE ClientProbeLost
  BY <1>1, <1>7, SpokenUntouched DEF ClientProbeLost, ClientState
<1>8. CASE ClientRefused \/ ClientTimeout \/ ClientClose
  BY <1>8, ClientClosesHeard DEF ClientRefused, ClientTimeout, ClientClose
<1>9. CASE UNCHANGED vars
  BY <1>9, SpokenUntouched DEF vars
<1>10. CASE HandleData \/ HandleFrame \/ HandleWsClose
  BY <1>10, HandleDataHeard, HandleFrameHeard, HandleWsCloseHeard
<1>11. CASE ClientPolled \/ ClientDrained \/ ClientProbe \/ ClientFrame
  BY <1>11, ClientPolledHeard, ClientDrainedHeard, ClientProbeHeard,
     ClientFrameHeard
<1>12. CASE ClientMessage \/ ClientPing
  BY <1>12, ClientMessageHeard, ClientPingHeard
<1> QED
  BY <1>2, <1>3, <1>4, <1>5, <1>6, <1>7, <1>8, <1>9, <1>10, <1>11, <1>12
  DEF Next, ServerStep, ClientStep

\* What the client of a session with binary contents has said is heard in
\* order and once, over polling and over the websocket (HandleDataRequest,
\* OnTextMessage and message_callback_), and while the client is there nothing
\* of it is missing unless a write was refused.
THEOREM EachHeardOnce ==
  ASSUME Binary, Blobs
  PROVE  Spec => []HeardOnce
<1>1. Init => HeardInv
  <2> SUFFICES ASSUME Init PROVE HeardInv
    OBVIOUS
  <2>1. /\ client.body = <<>> /\ client.up = <<>> /\ client.outbox = <<>>
        /\ client.transport = "polling" /\ heard = <<>> /\ said = 0
    BY DEF Init
  <2>2. heard \o SayingOf(client) = <<>>
    <3>1. heard \o SayingOf(client) = <<>> \o (<<>> \o (<<>> \o <<>>))
      BY <2>1, NumbersEmpty DEF SayingOf
    <3> QED
      BY <3>1
  <2>3. Rising(<<>>, 0) /\ <<>> = [i \in 1..0 |-> i]
    BY DEF Rising
  <2>4. Wire(client) /\ Ready(client)
    BY <2>1, NumbersEmpty DEF Wire, Ready, Behind
  <2> QED
    BY <2>1, <2>2, <2>3, <2>4 DEF HeardInv
<1>2. IInv /\ HeardInv /\ [Next]_vars => HeardInv'
  BY HeardStep
<1>3. IInv /\ HeardInv => HeardOnce
  <2> SUFFICES ASSUME IInv, HeardInv PROVE HeardOnce
    OBVIOUS
  <2> DEFINE x == Numbers(client.body)
             y == Numbers(client.up)
             z == Numbers(client.outbox)
             hx == heard \o x
             yz == y \o z
  <2>1. x \in Seq(Nat) /\ y \in Seq(Nat) /\ z \in Seq(Nat) /\ heard \in Seq(Nat)
    BY SayingOfType DEF IInv, EndsTyped, HeardInv
  <2>2. hx \in Seq(Nat) /\ yz \in Seq(Nat)
    BY <2>1, ConcatProperties
  <2>3. hx \o (y \o z) = hx \o y \o z
    <3>1. hx \in Seq(Nat) /\ y \in Seq(Nat) /\ z \in Seq(Nat)
      BY <2>1, <2>2
    <3> HIDE DEF hx, x, y, z, yz
    <3> QED
      BY <3>1, Regroup
  <2>4. heard \o (x \o yz) = hx \o yz
    <3> HIDE DEF yz, x
    <3> QED
      BY <2>1, <2>2, Regroup
  <2>5. SayingOf(client) = x \o yz
    BY DEF SayingOf
  <2>6. heard \o SayingOf(client) = hx \o y \o z
    BY <2>3, <2>4, <2>5
  <2>7. SayingOf(client) \in Seq(Nat)
    BY SayingOfType DEF IInv, EndsTyped
  <2>8. Rising(heard, said)
    <3>1. heard \o SayingOf(client) \o <<>> = heard \o SayingOf(client)
          /\ heard \o <<>> = heard
      BY <2>1, <2>7, ConcatProperties, ConcatEmptySeq
    <3>2. Rising(heard \o SayingOf(client) \o <<>>, said)
      BY <3>1 DEF HeardInv
    <3> QED
      BY <2>1, <2>7, <3>1, <3>2, RisingDrop, EmptySeq
  <2> QED
    BY <2>6, <2>8 DEF HeardInv, HeardOnce, Rising
<1> QED
  BY <1>1, <1>2, <1>3, SessionInvariant, PTL DEF Spec

-----------------------------------------------------------------------------
\* The types.
LEMMA GotHeardStep ==
  ASSUME IInv, got \in Seq(Nat), heard \in Seq(Nat), [Next]_vars
  PROVE  (got \in Seq(Nat))' /\ (heard \in Seq(Nat))'
<1>1. /\ server.reply \in Seq(Packet) /\ server.frames \in Seq(Packet)
      /\ client.up \in Seq(Packet) /\ client.body \in Seq(Packet)
  BY DEF IInv, EndsTyped, ServerState, ClientState
<1>2. CASE ClientPolled
  <2>1. got' = got \o Numbers(server.reply) /\ heard' = heard
    BY <1>2 DEF ClientPolled
  <2>2. Numbers(server.reply) \in Seq(Nat)
    BY <1>1, NumbersType
  <2> QED
    BY <2>1, <2>2, ConcatProperties
<1>3. CASE ClientFrame
  <2> DEFINE p == Head(server.frames)
  <2>1. got' = got \o Numbers(<<p>>) /\ heard' = heard
    BY <1>3 DEF ClientFrame
  <2>2. <<p>> \in Seq(Packet)
    BY <1>1, <1>3, QueueFacts DEF ClientFrame
  <2>3. Numbers(<<p>>) \in Seq(Nat)
    BY <2>2, NumbersType
  <2> QED
    BY <2>1, <2>3, ConcatProperties
<1>4. CASE HandleData
  <2> DEFINE q == DecodePayload(client.body)
  <2>1. got' = got /\ (heard' = heard \o Numbers(q) \/ heard' = heard)
    BY <1>4 DEF HandleData
  <2>2. Numbers(q) \in Seq(Nat)
    BY <1>1, DecodeType, NumbersType
  <2> HIDE DEF q
  <2> QED
    BY <2>1, <2>2, ConcatProperties
<1>5. CASE HandleFrame
  <2> DEFINE p == Head(client.up)
  <2>1. got' = got /\ (heard' = Append(heard, p.n) \/ heard' = heard)
    BY <1>5 DEF HandleFrame, OnPacket, OnPacketWhenUpgrading
  <2>2. p.n \in Nat
    BY <1>1, <1>5, QueueFacts DEF HandleFrame, Packet
  <2> HIDE DEF p
  <2>3. Append(heard, p.n) \in Seq(Nat)
    BY <2>2, AppendProperties
  <2> QED
    BY <2>1, <2>3
<1>6. CASE UNCHANGED <<got, heard>>
  BY <1>6
<1> QED
  BY <1>2, <1>3, <1>4, <1>5, <1>6
  DEF Next, ServerStep, ClientStep, HandleHandshake, HandlePoll, HandleUpgrade,
      HandleWsClose, SendMessage, ClientRefused, ClientDrained, ClientProbe,
      ClientOpen, ClientMessage, ClientPing, ClientProbeLost, ClientTimeout,
      ClientClose, vars

\* Every variable of a session always has its type, what the client and the
\* application have received included.
THEOREM SessionTypeCorrect == Spec => []TypeOK
<1>1. Init => got \in Seq(Nat) /\ heard \in Seq(Nat)
  BY EmptySeq DEF Init
<1>2. IInv /\ (got \in Seq(Nat) /\ heard \in Seq(Nat)) /\ [Next]_vars
        => (got \in Seq(Nat) /\ heard \in Seq(Nat))'
  BY GotHeardStep
<1>3. IInv /\ (got \in Seq(Nat) /\ heard \in Seq(Nat)) => TypeOK
  BY DEF IInv, TypeOK
<1> QED
  BY <1>1, <1>2, <1>3, SessionInvariant, PTL DEF Spec
=============================================================================
