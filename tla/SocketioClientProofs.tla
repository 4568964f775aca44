------------------------ MODULE SocketioClientProofs ------------------------
(***************************************************************************)
(* For any number of namespaces, engines, calls and attempts: the Manager, *)
(* its engine and its sockets agree on whether there is a connection, which*)
(* loses its last listener in one way only; events are sent in the order   *)
(* they were emitted; and a socket that believes it is connected is heard. *)
(*                                                                         *)
(* Consistent is the invariant of the Manager with its listeners; OrderInv *)
(* relates what is buffered to what was written; JoinInv relates what the  *)
(* sockets believe to what the server will have read.                      *)
(***************************************************************************)
EXTENDS SocketioClient, DataLemmas

-----------------------------------------------------------------------------
(* What the operators of the model do to the two records.                  *)

LEMMA Numbered == Engine \subseteq Nat \ {0}
BY ClientAssumption DEF Engine

LEMMA Packets ==
  ASSUME NEW n \in Nsp
  PROVE  /\ ConnectPacket(n) \in Packet /\ DisconnectPacket(n) \in Packet
         /\ \A k \in 0..MaxEmits : EventPacket(n, k) \in Packet
BY ClientAssumption DEF Packet, ConnectPacket, DisconnectPacket, EventPacket

LEMMA NewEngineType == NewEngine \in EngineState /\ Closed \in EngineState
BY EmptySeq DEF NewEngine, Closed, EngineState

LEMMA SubsType ==
  /\ Delay \in Subs
  /\ \A e \in Engine : Timeout(e) \in Subs /\ Live(e) \in Subs
  /\ \A e \in Engine, fn \in BOOLEAN : Opening(e, fn) \in Subs /\ Failing(e, fn) \in Subs
BY DEF Subs

LEMMA ResumesType ==
  /\ Nothing \in Resumes /\ Attempting \in Resumes
  /\ \A fn \in BOOLEAN : Reporting(fn) \in Resumes
  /\ \A n \in Nsp : Connecting(n) \in Resumes
  /\ \A left \in Seq(Nsp) : Closing(left) \in Resumes
BY DEF Resumes, Nothing, Attempting, Reporting, Connecting, Closing

\* A number for a new engine is one of those that are free.
LEMMA NewNumberFree ==
  ASSUME NEW c, Free(c) # {}
  PROVE  NewNumber(c) \in Free(c)
<1>1. Free(c) \in SUBSET Nat
  BY Numbered DEF Free
<1>2. \E e \in Free(c) : \A d \in Free(c) : e <= d
  BY <1>1, SmallestNumber
<1> QED
  BY <1>2 DEF NewNumber

LEMMA OpenOnFacts ==
  ASSUME NEW c \in ClientState, NEW e \in Engine, NEW fn \in BOOLEAN
  PROVE  /\ OpenOn(c, e, fn) \in ClientState
         /\ OpenOn(c, e, fn).state = "opening" /\ OpenOn(c, e, fn).engine = e
         /\ OpenOn(c, e, fn).subs = c.subs \cup {Opening(e, fn), Failing(e, fn), Timeout(e)}
         /\ OpenOn(c, e, fn).listening = c.listening /\ OpenOn(c, e, fn).made = c.made
         /\ OpenOn(c, e, fn).connected = c.connected
         /\ OpenOn(c, e, fn).buffer = c.buffer /\ OpenOn(c, e, fn).resume = c.resume
<1>1. c.subs \cup {Opening(e, fn), Failing(e, fn), Timeout(e)} \in SUBSET Subs
  BY SubsType DEF ClientState
<1> QED
  BY <1>1 DEF OpenOn, ClientState

LEMMA CleanupFacts ==
  ASSUME NEW c \in ClientState
  PROVE  /\ Cleanup(c) \in ClientState /\ Cleanup(c).subs = {}
         /\ Cleanup(c).state = c.state /\ Cleanup(c).engine = c.engine
         /\ Cleanup(c).listening = c.listening /\ Cleanup(c).made = c.made
         /\ Cleanup(c).connected = c.connected
         /\ Cleanup(c).buffer = c.buffer /\ Cleanup(c).resume = c.resume
BY DEF Cleanup, ClientState

LEMMA ReconnectFacts ==
  ASSUME NEW c \in ClientState
  PROVE  /\ Reconnect(c) \in ClientState
         /\ Reconnect(c).subs \in {c.subs, c.subs \cup {Delay}}
         /\ Reconnect(c).state = c.state /\ Reconnect(c).engine = c.engine
         /\ Reconnect(c).listening = c.listening /\ Reconnect(c).made = c.made
         /\ Reconnect(c).connected = c.connected
         /\ Reconnect(c).buffer = c.buffer /\ Reconnect(c).resume = c.resume
<1>1. CASE c.reconnecting \/ c.skip
  BY <1>1 DEF Reconnect
<1>2. CASE ~(c.reconnecting \/ c.skip) /\ GivesUp(c)
  <2>1. 0 \in 0..Attempts
    BY ClientAssumption
  <2> QED
    BY <1>2, <2>1 DEF Reconnect, ClientState
<1>3. CASE ~(c.reconnecting \/ c.skip) /\ ~GivesUp(c)
  <2>1. c.attempts + 1 \in 0..Attempts
    BY <1>3, ClientAssumption DEF GivesUp, ClientState
  <2>2. c.subs \cup {Delay} \in SUBSET Subs
    BY SubsType DEF ClientState
  <2> QED
    BY <1>3, <2>1, <2>2 DEF Reconnect, ClientState
<1> QED
  BY <1>1, <1>2, <1>3

LEMMA MaybeReconnectFacts ==
  ASSUME NEW c \in ClientState
  PROVE  MaybeReconnectOnOpen(c) \in {c, Reconnect(c)}
BY DEF MaybeReconnectOnOpen

\* The Manager is closed, and no more sockets than before are connected.
LEMMA OnCloseFacts ==
  ASSUME NEW c \in ClientState
  PROVE  /\ OnClose(c) \in ClientState /\ OnClose(c).subs \subseteq {Delay}
         /\ OnClose(c).state = "closed" /\ OnClose(c).engine = c.engine
         /\ OnClose(c).listening = c.listening /\ OnClose(c).made = c.made
         /\ OnClose(c).buffer = c.buffer
         /\ c.listening = <<>> =>
              OnClose(c).connected = c.connected /\ OnClose(c).resume = c.resume
         /\ c.listening # <<>> =>
              /\ OnClose(c).connected = c.connected \ {Head(c.listening)}
              /\ OnClose(c).resume = Closing(Tail(c.listening))
<1> DEFINE closed == [Cleanup(c) EXCEPT !.attempts = 0, !.state = "closed"]
<1>1. /\ closed \in ClientState /\ closed.subs = {} /\ closed.state = "closed"
      /\ closed.engine = c.engine /\ closed.listening = c.listening
      /\ closed.made = c.made /\ closed.connected = c.connected
      /\ closed.buffer = c.buffer /\ closed.resume = c.resume
  <2>1. 0 \in 0..Attempts
    BY ClientAssumption
  <2> QED
    BY <2>1 DEF Cleanup, ClientState
<1>2. OnClose(c) = IF c.listening = <<>> THEN Reconnect(closed)
                   ELSE [closed EXCEPT !.connected = @ \ {Head(c.listening)},
                                       !.resume = Closing(Tail(c.listening))]
  BY DEF OnClose
<1> HIDE DEF closed
<1>3. CASE c.listening = <<>>
  <2>1. OnClose(c) = Reconnect(closed)
    BY <1>2, <1>3
  <2> QED
    BY <1>1, <1>3, <2>1, ReconnectFacts
<1>4. CASE c.listening # <<>>
  <2>1. Tail(c.listening) \in Seq(Nsp)
    BY <1>4, HeadTailProperties DEF ClientState
  <2>2. Closing(Tail(c.listening)) \in Resumes
    BY <2>1, ResumesType
  <2>3. c.connected \ {Head(c.listening)} \in SUBSET Nsp
    BY DEF ClientState
  <2>4. OnClose(c) = [closed EXCEPT !.connected = c.connected \ {Head(c.listening)},
                                    !.resume = Closing(Tail(c.listening))]
    BY <1>1, <1>2, <1>4
  <2> QED
    BY <1>1, <1>4, <2>2, <2>3, <2>4 DEF ClientState
<1> QED
  BY <1>3, <1>4

\* Manager.packet adds to the write buffer of the Manager's engine, or not.
LEMMA WriteFacts ==
  ASSUME NEW es \in [Engine -> EngineState], NEW c \in ClientState,
         c.engine \in Engine, NEW ps \in Seq(Packet)
  PROVE  /\ Write(es, c, ps) \in [Engine -> EngineState]
         /\ \A e \in Engine :
              Write(es, c, ps)[e] =
                IF e = c.engine /\ es[e].state \in Alive
                THEN [es[e] EXCEPT !.out = @ \o ps] ELSE es[e]
         /\ \A e \in Engine :
              /\ Write(es, c, ps)[e].state = es[e].state
              /\ Write(es, c, ps)[e].heard = es[e].heard
              /\ Write(es, c, ps)[e].joined = es[e].joined
              /\ Write(es, c, ps)[e].replies = es[e].replies
              /\ Write(es, c, ps)[e].early = es[e].early
              /\ Write(es, c, ps)[e].out =
                   IF e = c.engine /\ es[e].state \in Alive
                   THEN es[e].out \o ps ELSE es[e].out
<1>1. es[c.engine].out \o ps \in Seq(Packet)
  BY ConcatProperties DEF EngineState
<1>2. [es[c.engine] EXCEPT !.out = @ \o ps] \in EngineState
  BY <1>1 DEF EngineState
<1>3. /\ Write(es, c, ps) \in [Engine -> EngineState]
      /\ \A e \in Engine :
           Write(es, c, ps)[e] = IF e = c.engine /\ es[e].state \in Alive
                                 THEN [es[e] EXCEPT !.out = @ \o ps] ELSE es[e]
  <2>1. CASE es[c.engine].state \in Alive
    <3>1. Write(es, c, ps) = [es EXCEPT ![c.engine] = [es[c.engine] EXCEPT !.out = @ \o ps]]
      BY <2>1 DEF Write
    <3> QED
      BY <1>2, <2>1, <3>1
  <2>2. CASE es[c.engine].state \notin Alive
    <3>1. Write(es, c, ps) = es
      BY <2>2 DEF Write
    <3> QED
      BY <2>2, <3>1
  <2> QED
    BY <2>1, <2>2
<1>4. \A e \in Engine : es[e] \in EngineState
  OBVIOUS
<1> QED
  BY <1>3, <1>4 DEF EngineState

-----------------------------------------------------------------------------
(* Requests: what the sockets that listen ask for, in order.               *)

Asking(F, q) ==
  F = [i \in 0..Len(q) |->
         IF i = 0 THEN <<>>
         ELSE IF q[i] = Root THEN F[i - 1]
         ELSE Append(F[i - 1], ConnectPacket(q[i]))]

LEMMA RequestsIs ==
  ASSUME NEW c
  PROVE  Requests(c) = (CHOOSE F : Asking(F, c.listening))[Len(c.listening)]
BY DEF Requests, Asking

LEMMA AskingStages ==
  ASSUME NEW q \in Seq(Nsp)
  PROVE  \E F : /\ F = CHOOSE G : Asking(G, q)
                /\ F[0] = <<>> /\ \A i \in 0..Len(q) : F[i] \in Seq(Packet)
                /\ \A i \in 1..Len(q) :
                     F[i] = IF q[i] = Root THEN F[i - 1]
                            ELSE Append(F[i - 1], ConnectPacket(q[i]))
<1> DEFINE n == Len(q)
           V == Seq(Packet)
           st == [i \in 1..n |-> [v \in V |->
                    IF q[i] = Root THEN v ELSE Append(v, ConnectPacket(q[i]))]]
<1>1. n \in Nat /\ <<>> \in V /\ \A i \in 1..n : q[i] \in Nsp
  BY LenProperties, EmptySeq, ElementOfSeq
<1>2. st \in [1..n -> [V -> V]]
  BY <1>1, Packets, AppendProperties
<1>3. \A i \in 1..n : \A v \in V :
        st[i][v] = IF q[i] = Root THEN v ELSE Append(v, ConnectPacket(q[i]))
  OBVIOUS
<1> DEFINE b == <<>>
<1>0. b \in V
  BY <1>1
<1> HIDE DEF st, V, b, n
<1>4. PICK H \in [0..n -> V] : H[0] = b /\ \A k \in 1..n : H[k] = st[k][H[k - 1]]
  <2>1. n \in Nat
    BY <1>1
  <2>2. PICK H : Stages(H, V, b, n, st)
    BY <1>0, <1>2, <2>1, Recursion
  <2> QED
    BY <2>2 DEF Stages
<1> USE DEF b, n
<1>5. Asking(H, q)
  <2>1. \A i \in 1..n : i - 1 \in 0..n /\ H[i - 1] \in V
    BY <1>1, <1>4
  <2>2. \A i \in 1..n : H[i] = IF q[i] = Root THEN H[i - 1]
                               ELSE Append(H[i - 1], ConnectPacket(q[i]))
    BY <1>3, <1>4, <2>1
  <2>3. H = [i \in 0..n |-> H[i]]
    BY <1>4
  <2>4. ASSUME NEW i \in 0..n
        PROVE  H[i] = IF i = 0 THEN <<>>
                      ELSE IF q[i] = Root THEN H[i - 1]
                      ELSE Append(H[i - 1], ConnectPacket(q[i]))
    <3>1. CASE i = 0
      BY <1>4, <3>1
    <3>2. CASE i # 0
      <4>1. i \in 1..n
        BY <1>1, <3>2
      <4> QED
        BY <2>2, <3>2, <4>1
    <3> QED
      BY <3>1, <3>2
  <2> QED
    BY <2>3, <2>4 DEF Asking
<1> DEFINE F == CHOOSE G : Asking(G, q)
<1>6. Asking(F, q)
  BY <1>5
<1> HIDE DEF F
<1>7. /\ F[0] = <<>>
      /\ \A i \in 1..n : F[i] = IF q[i] = Root THEN F[i - 1]
                                ELSE Append(F[i - 1], ConnectPacket(q[i]))
  <2>1. 0 \in 0..n /\ \A i \in 1..n : i \in 0..n /\ i # 0
    BY <1>1
  <2>2. \A i \in 0..n : F[i] = IF i = 0 THEN <<>>
                               ELSE IF q[i] = Root THEN F[i - 1]
                               ELSE Append(F[i - 1], ConnectPacket(q[i]))
    BY <1>6 DEF Asking
  <2> QED
    BY <2>1, <2>2
<1>8. \A k \in 1..n : F[k - 1] \in V => F[k] = st[k][F[k - 1]]
  BY <1>3, <1>7
<1>9. \A i \in 0..n : F[i] \in V
  BY <1>1, <1>2, <1>7, <1>8, RecursionTyped
<1> QED
  BY <1>7, <1>9 DEF F, V

\* They are connect packets, one for every namespace but "/".
LEMMA RequestsFacts ==
  ASSUME NEW c \in ClientState
  PROVE  /\ Requests(c) \in Seq(Packet)
         /\ \A j \in 1..Len(Requests(c)) :
              /\ Requests(c)[j].type = "connect" /\ Requests(c)[j].nsp # Root
              /\ Requests(c)[j].n = 0
         /\ \A n \in ToSet(c.listening) \ {Root} :
              \E j \in 1..Len(Requests(c)) : Requests(c)[j] = ConnectPacket(n)
<1> DEFINE q == c.listening
           n == Len(q)
<1>1. q \in Seq(Nsp) /\ n \in Nat /\ \A i \in 1..n : q[i] \in Nsp
  BY LenProperties, ElementOfSeq DEF ClientState
<1>2. PICK F : /\ F = CHOOSE G : Asking(G, q)
               /\ F[0] = <<>> /\ \A i \in 0..n : F[i] \in Seq(Packet)
               /\ \A i \in 1..n : F[i] = IF q[i] = Root THEN F[i - 1]
                                         ELSE Append(F[i - 1], ConnectPacket(q[i]))
  BY <1>1, AskingStages
<1> DEFINE Good(r, k) ==
             /\ \A j \in 1..Len(r) : r[j].type = "connect" /\ r[j].nsp # Root /\ r[j].n = 0
             /\ \A i \in 1..k : q[i] # Root =>
                  \E j \in 1..Len(r) : r[j] = ConnectPacket(q[i])
           T == {k \in Nat : k <= n => Good(F[k], k)}
<1>3. 0 \in T
  <2>1. F[0] = <<>> /\ Len(<<>>) = 0
    BY <1>2, EmptySeq
  <2>2. Good(F[0], 0)
    BY <2>1
  <2> HIDE DEF Good
  <2> QED
    BY <2>2
<1>4. ASSUME NEW k \in T PROVE k + 1 \in T
  <2> SUFFICES ASSUME k + 1 <= n PROVE Good(F[k + 1], k + 1)
    OBVIOUS
  <2>1. /\ k \in Nat /\ k + 1 \in 1..n /\ (k + 1) - 1 = k
        /\ k \in 0..n /\ F[k] \in Seq(Packet)
    BY <1>1, <1>2
  <2>2. Good(F[k], k)
    BY <1>1, <2>1
  <2>3. CASE q[k + 1] = Root
    <3>1. F[k + 1] = F[k]
      BY <1>2, <2>1, <2>3
    <3>2. \A i \in 1..k + 1 : q[i] # Root => i \in 1..k
      BY <2>1, <2>3
    <3> QED
      BY <2>2, <3>1, <3>2
  <2>4. CASE q[k + 1] # Root
    <3> DEFINE p == ConnectPacket(q[k + 1])
               r == Append(F[k], p)
    <3>1. F[k + 1] = r
      BY <1>2, <2>1, <2>4
    <3>2. p \in Packet /\ p.type = "connect" /\ p.nsp # Root /\ p.n = 0
      BY <1>1, <2>1, <2>4, Packets DEF ConnectPacket
    <3>3. /\ Len(r) = Len(F[k]) + 1 /\ r[Len(F[k]) + 1] = p
          /\ \A j \in 1..Len(F[k]) : r[j] = F[k][j]
          /\ Len(F[k]) \in Nat
      BY <2>1, <3>2, AppendProperties, LenProperties
    <3>4. \A j \in 1..Len(r) : r[j].type = "connect" /\ r[j].nsp # Root /\ r[j].n = 0
      <4> HIDE DEF p, r
      <4>1. \A j \in 1..Len(r) : j \in 1..Len(F[k]) \/ j = Len(F[k]) + 1
        BY <3>3
      <4> QED
        BY <2>2, <3>2, <3>3, <4>1
    <3>5. \A i \in 1..k + 1 : q[i] # Root =>
            \E j \in 1..Len(r) : r[j] = ConnectPacket(q[i])
      <4> SUFFICES ASSUME NEW i \in 1..k + 1, q[i] # Root
                   PROVE  \E j \in 1..Len(r) : r[j] = ConnectPacket(q[i])
        OBVIOUS
      <4>1. CASE i = k + 1
        <5>1. Len(F[k]) + 1 \in 1..Len(r)
          BY <3>3
        <5> QED
          BY <3>3, <4>1, <5>1
      <4>2. CASE i # k + 1
        <5>1. i \in 1..k
          BY <2>1, <4>2
        <5>2. PICK j \in 1..Len(F[k]) : F[k][j] = ConnectPacket(q[i])
          BY <2>2, <5>1
        <5>3. j \in 1..Len(r)
          BY <3>3
        <5> HIDE DEF r
        <5> QED
          BY <3>3, <5>2, <5>3
      <4> QED
        BY <4>1, <4>2
    <3> HIDE DEF r
    <3> QED
      BY <3>1, <3>4, <3>5
  <2> QED
    BY <2>3, <2>4
<1>5. T = Nat
  <2> HIDE DEF T
  <2>1. T \in SUBSET Nat
    BY DEF T
  <2> QED
    BY <1>3, <1>4, <2>1, NumberInduction
<1>6. Requests(c) = F[n]
  BY <1>2, RequestsIs
<1>7. Good(F[n], n) /\ F[n] \in Seq(Packet)
  <2> HIDE DEF Good
  <2>1. n \in T /\ n \in 0..n /\ n <= n
    BY <1>1, <1>5
  <2>2. \A k \in T : k <= n => Good(F[k], k)
    OBVIOUS
  <2> HIDE DEF n, T
  <2>3. Good(F[n], n)
    BY <2>1, <2>2
  <2>4. F[n] \in Seq(Packet)
    BY <1>2, <2>1
  <2> QED
    BY <2>3, <2>4
<1>8. \A m \in ToSet(q) : \E i \in 1..n : m = q[i]
  BY <1>1, LenProperties DEF ToSet
<1> QED
  BY <1>6, <1>7, <1>8

-----------------------------------------------------------------------------
(* Served: what a write buffer is at the server.                           *)

LEMMA HandledFacts ==
  ASSUME NEW v \in EngineState, NEW p \in Packet, names \in BOOLEAN
  PROVE  /\ Handled(v, p) \in EngineState
         /\ Handled(v, p).state = v.state /\ Handled(v, p).early = v.early
         /\ Handled(v, p).out = v.out
         /\ Handled(v, p).heard \in {v.heard, Append(v.heard, p)}
         /\ Handled(v, p).joined =
              CASE p.type = "connect" -> v.joined \cup {p.nsp}
                [] p.type = "disconnect" -> v.joined \ {p.nsp}
                [] p.type = "event" -> v.joined
         /\ Handled(v, p).replies =
              IF p.type = "connect"
              THEN Append(v.replies, IF names THEN p.nsp ELSE Root) ELSE v.replies
<1>1. p.type \in {"connect", "disconnect", "event"} /\ p.nsp \in Nsp
  BY DEF Packet
<1>2. CASE p.type = "connect"
  <2> DEFINE n == IF names THEN p.nsp ELSE Root
  <2>1. n \in Nsp
    BY <1>1, ClientAssumption
  <2>2. Append(v.replies, n) \in Seq(Nsp)
    BY <2>1, AppendProperties DEF EngineState
  <2>3. Handled(v, p) = [v EXCEPT !.joined = @ \cup {p.nsp}, !.replies = Append(@, n)]
    BY <1>2 DEF Handled
  <2>4. v.joined \cup {p.nsp} \in SUBSET Nsp
    BY <1>1 DEF EngineState
  <2> HIDE DEF n
  <2>5. /\ Handled(v, p) \in EngineState /\ Handled(v, p).state = v.state
        /\ Handled(v, p).early = v.early /\ Handled(v, p).out = v.out
        /\ Handled(v, p).heard = v.heard
        /\ Handled(v, p).joined = v.joined \cup {p.nsp}
        /\ Handled(v, p).replies = Append(v.replies, n)
    BY <2>2, <2>3, <2>4 DEF EngineState
  <2> QED
    BY <1>2, <2>5 DEF n
<1>3. CASE p.type = "disconnect"
  <2>1. Handled(v, p) = [v EXCEPT !.joined = @ \ {p.nsp}]
    BY <1>3 DEF Handled
  <2> QED
    BY <1>3, <2>1 DEF EngineState
<1>4. CASE p.type = "event"
  <2>1. Append(v.heard, p) \in Seq(Packet)
    BY AppendProperties DEF EngineState
  <2>2. Handled(v, p) = IF p.nsp \in v.joined THEN [v EXCEPT !.heard = Append(@, p)] ELSE v
    BY <1>4 DEF Handled
  <2>3. CASE p.nsp \in v.joined
    BY <1>4, <2>1, <2>2, <2>3 DEF EngineState
  <2>4. CASE p.nsp \notin v.joined
    BY <1>4, <2>2, <2>4 DEF EngineState
  <2> QED
    BY <2>3, <2>4
<1> QED
  BY <1>1, <1>2, <1>3, <1>4

\* h holds some of the first m elements of q, in their order.
Within(h, q, m) ==
  \E g \in [1..Len(h) -> 1..m] :
    /\ \A i \in 1..Len(h) : h[i] = q[g[i]]
    /\ \A i, j \in 1..Len(h) : i < j => g[i] < g[j]

LEMMA WithinNext ==
  ASSUME NEW h \in Seq(Packet), NEW q, NEW m \in Nat, Within(h, q, m),
         NEW r, r \in {h, Append(h, q[m + 1])}, q[m + 1] \in Packet
  PROVE  Within(r, q, m + 1)
<1>1. PICK g \in [1..Len(h) -> 1..m] :
        /\ \A i \in 1..Len(h) : h[i] = q[g[i]]
        /\ \A i, j \in 1..Len(h) : i < j => g[i] < g[j]
  BY DEF Within
<1>2. Len(h) \in Nat
  BY LenProperties
<1>3. CASE r = h
  <2>1. g \in [1..Len(h) -> 1..m + 1]
    OBVIOUS
  <2> QED
    BY <1>1, <1>3, <2>1 DEF Within
<1>4. CASE r = Append(h, q[m + 1])
  <2> DEFINE n == Len(h)
             f == [i \in 1..n + 1 |-> IF i <= n THEN g[i] ELSE m + 1]
  <2>1. /\ Len(r) = n + 1 /\ r[n + 1] = q[m + 1]
        /\ \A i \in 1..n : r[i] = h[i]
    BY <1>4, AppendProperties
  <2>2. f \in [1..n + 1 -> 1..m + 1]
    BY <1>1, <1>2
  <2>3. \A i \in 1..n + 1 : r[i] = q[f[i]]
    BY <1>1, <1>2, <2>1
  <2>4. \A i, j \in 1..n + 1 : i < j => f[i] < f[j]
    BY <1>1, <1>2
  <2> HIDE DEF f
  <2> QED
    BY <2>1, <2>2, <2>3, <2>4 DEF Within
<1> QED
  BY <1>3, <1>4

\* The last word on namespace n, of the first k packets of the write buffer
\* and the server's.
JoinsTo(s, n, k) ==
  \/ \E i \in 1..k :
       /\ s.out[i].type = "connect" /\ s.out[i].nsp = n
       /\ \A j \in i + 1..k : ~(s.out[j].type = "disconnect" /\ s.out[j].nsp = n)
  \/ /\ n \in s.joined
     /\ \A j \in 1..k : ~(s.out[j].type = "disconnect" /\ s.out[j].nsp = n)

Joins(s, n) == JoinsTo(s, n, Len(s.out))

\* No packet asks for "/".
Rootless(q) == \A i \in 1..Len(q) : ~(q[i].type = "connect" /\ q[i].nsp = Root)

Stage(v, s, k) ==
  /\ v \in EngineState /\ v.state = s.state /\ v.early = s.early /\ v.out = <<>>
  /\ Within(v.heard, s.heard \o s.out, Len(s.heard) + k)
  /\ \A n \in Nsp : n \in v.joined <=> JoinsTo(s, n, k)
  /\ names /\ Rootless(s.out) =>
       \A i \in 1..Len(v.replies) : v.replies[i] = Root =>
         i \in 1..Len(s.replies) /\ s.replies[i] = Root

LEMMA StageFirst ==
  ASSUME NEW s \in EngineState
  PROVE  Stage([s EXCEPT !.out = <<>>], s, 0)
<1> DEFINE v == [s EXCEPT !.out = <<>>]
           q == s.heard \o s.out
           n == Len(s.heard)
<1>1. /\ s.heard \in Seq(Packet) /\ s.out \in Seq(Packet)
      /\ s.replies \in Seq(Nsp)
  BY DEF EngineState
<1>2. <<>> \in Seq(Packet)
  BY EmptySeq
<1>3. /\ v \in EngineState /\ v.state = s.state /\ v.early = s.early /\ v.out = <<>>
      /\ v.heard = s.heard /\ v.joined = s.joined /\ v.replies = s.replies
  BY <1>2 DEF EngineState
<1>4. n \in Nat /\ \A i \in 1..n : q[i] = s.heard[i]
  <2>1. n \in Nat /\ Len(s.out) \in Nat
    BY <1>1, LenProperties
  <2>2. \A i \in 1..n + Len(s.out) :
          q[i] = IF i <= n THEN s.heard[i] ELSE s.out[i - n]
    BY <1>1, ConcatProperties
  <2> HIDE DEF n, q
  <2> QED
    BY <2>1, <2>2
<1>5. Within(s.heard, q, n + 0)
  <2> DEFINE g == [i \in 1..n |-> i]
  <2>1. /\ g \in [1..n -> 1..n + 0] /\ \A i \in 1..n : s.heard[i] = q[g[i]]
        /\ \A i, j \in 1..n : i < j => g[i] < g[j]
    <3> HIDE DEF n, q
    <3> QED
      BY <1>4
  <2> HIDE DEF g
  <2> QED
    BY <2>1 DEF Within
<1>6. \A m \in Nsp : m \in s.joined <=> JoinsTo(s, m, 0)
  BY DEF JoinsTo
<1> HIDE DEF v
<1>7. Stage(v, s, 0)
  BY <1>3, <1>5, <1>6 DEF Stage
<1> QED
  BY <1>7 DEF v

LEMMA StageNext ==
  ASSUME NEW s \in EngineState, NEW v, NEW k \in Nat, k + 1 <= Len(s.out),
         Stage(v, s, k), names \in BOOLEAN
  PROVE  Stage(Handled(v, s.out[k + 1]), s, k + 1)
<1> DEFINE p == s.out[k + 1]
           w == Handled(v, p)
           q == s.heard \o s.out
           n == Len(s.heard)
<1>1. /\ s.heard \in Seq(Packet) /\ s.out \in Seq(Packet)
      /\ v \in EngineState /\ v.heard \in Seq(Packet) /\ v.replies \in Seq(Nsp)
  BY DEF EngineState, Stage
<1>2. /\ n \in Nat /\ Len(s.out) \in Nat /\ k + 1 \in 1..Len(s.out)
      /\ p \in Packet /\ p.nsp \in Nsp /\ p.type \in {"connect", "disconnect", "event"}
  <2>1. n \in Nat /\ Len(s.out) \in Nat
    BY <1>1, LenProperties
  <2>2. k + 1 \in 1..Len(s.out)
    BY <2>1
  <2>3. p \in Packet
    BY <1>1, <2>2, ElementOfSeq
  <2> HIDE DEF p
  <2> QED
    BY <2>1, <2>2, <2>3 DEF Packet
<1>3. q[n + k + 1] = p
  <2>1. n + k + 1 \in 1..n + Len(s.out) /\ ~(n + k + 1 <= n)
        /\ (n + k + 1) - n = k + 1
    <3> HIDE DEF n, p
    <3> QED
      BY <1>2
  <2> QED
    BY <1>1, <2>1, ConcatProperties
<1> HIDE DEF p
<1>4. /\ w \in EngineState /\ w.state = v.state /\ w.early = v.early
      /\ w.out = v.out /\ w.heard \in {v.heard, Append(v.heard, p)}
      /\ w.joined = CASE p.type = "connect" -> v.joined \cup {p.nsp}
                      [] p.type = "disconnect" -> v.joined \ {p.nsp}
                      [] p.type = "event" -> v.joined
      /\ w.replies = IF p.type = "connect"
                     THEN Append(v.replies, IF names THEN p.nsp ELSE Root)
                     ELSE v.replies
  BY <1>1, <1>2, HandledFacts
<1> HIDE DEF w
<1>5. Within(w.heard, q, n + (k + 1))
  <2> HIDE DEF q, n
  <2>1. Within(v.heard, q, n + k)
    BY DEF Stage, q, n
  <2>2. n + k \in Nat /\ n + (k + 1) = (n + k) + 1 /\ q[(n + k) + 1] = p
    BY <1>2, <1>3
  <2> QED
    BY <1>1, <1>2, <1>4, <2>1, <2>2, WithinNext
<1>6. ASSUME NEW m \in Nsp PROVE m \in w.joined <=> JoinsTo(s, m, k + 1)
  <2>1. m \in v.joined <=> JoinsTo(s, m, k)
    BY DEF Stage
  <2>2. CASE p.type = "connect" /\ p.nsp = m
    <3>1. m \in w.joined
      BY <1>4, <2>2
    <3>2. k + 1 \in 1..k + 1 /\ \A j \in (k + 1) + 1..k + 1 : FALSE
      OBVIOUS
    <3>3. JoinsTo(s, m, k + 1)
      BY <2>2, <3>2 DEF JoinsTo, p
    <3> QED
      BY <3>1, <3>3
  <2>3. CASE p.type = "disconnect" /\ p.nsp = m
    <3>1. m \notin w.joined
      BY <1>4, <2>3
    <3>2. \A i \in 1..k : k + 1 \in i + 1..k + 1
      OBVIOUS
    <3>3. s.out[k + 1].type = "disconnect" /\ s.out[k + 1].nsp = m
      BY <2>3 DEF p
    <3>4. \A i \in 1..k + 1 : i \in 1..k \/ i = k + 1
      OBVIOUS
    <3>5. ~JoinsTo(s, m, k + 1)
      BY <3>2, <3>3, <3>4 DEF JoinsTo
    <3> QED
      BY <3>1, <3>5
  <2>4. CASE ~(p.type \in {"connect", "disconnect"} /\ p.nsp = m)
    <3>1. m \in w.joined <=> m \in v.joined
      BY <1>2, <1>4, <2>4
    <3>2. /\ ~(s.out[k + 1].type = "connect" /\ s.out[k + 1].nsp = m)
          /\ ~(s.out[k + 1].type = "disconnect" /\ s.out[k + 1].nsp = m)
      BY <2>4 DEF p
    <3>3. /\ \A i \in 1..k + 1 : i \in 1..k \/ i = k + 1
          /\ \A i \in 1..k : i \in 1..k + 1
          /\ \A i \in 1..k : \A j \in i + 1..k + 1 : j \in i + 1..k \/ j = k + 1
          /\ \A i \in 1..k : \A j \in i + 1..k : j \in i + 1..k + 1
      OBVIOUS
    <3>4. JoinsTo(s, m, k) => JoinsTo(s, m, k + 1)
      BY <3>2, <3>3 DEF JoinsTo
    <3>5. JoinsTo(s, m, k + 1) => JoinsTo(s, m, k)
      BY <3>2, <3>3 DEF JoinsTo
    <3> QED
      BY <2>1, <3>1, <3>4, <3>5
  <2> QED
    BY <2>2, <2>3, <2>4
<1>7. ASSUME names, Rootless(s.out), NEW i \in 1..Len(w.replies), w.replies[i] = Root
      PROVE  i \in 1..Len(s.replies) /\ s.replies[i] = Root
  <2>1. CASE p.type = "connect"
    <3>1. w.replies = Append(v.replies, p.nsp) /\ p.nsp # Root
      BY <1>2, <1>4, <1>7, <2>1 DEF Rootless, p
    <3>2. /\ Len(w.replies) = Len(v.replies) + 1 /\ Len(v.replies) \in Nat
          /\ w.replies[Len(v.replies) + 1] = p.nsp
          /\ \A j \in 1..Len(v.replies) : w.replies[j] = v.replies[j]
      BY <1>1, <1>2, <3>1, AppendProperties, LenProperties
    <3>3. i \in 1..Len(v.replies)
      BY <1>7, <3>1, <3>2
    <3> QED
      BY <1>7, <3>2, <3>3 DEF Stage
  <2>2. CASE p.type # "connect"
    BY <1>4, <1>7, <2>2 DEF Stage
  <2> QED
    BY <2>1, <2>2
<1>8. Stage(w, s, k + 1)
  BY <1>4, <1>5, <1>6, <1>7 DEF Stage
<1> QED
  BY <1>8 DEF w, p

Serving(F, s) ==
  F = [i \in 0..Len(s.out) |->
         IF i = 0 THEN [s EXCEPT !.out = <<>>] ELSE Handled(F[i - 1], s.out[i])]

LEMMA ServedIs ==
  ASSUME NEW s
  PROVE  Served(s) = (CHOOSE F : Serving(F, s))[Len(s.out)]
BY DEF Served, Serving

LEMMA ServedFacts ==
  ASSUME NEW s \in EngineState, names \in BOOLEAN
  PROVE  Stage(Served(s), s, Len(s.out))
<1> DEFINE n == Len(s.out)
           V == EngineState
           b == [s EXCEPT !.out = <<>>]
           st == [i \in 1..n |-> [v \in V |-> Handled(v, s.out[i])]]
<1>1. n \in Nat /\ \A i \in 1..n : s.out[i] \in Packet
  BY LenProperties, ElementOfSeq DEF EngineState
<1>2. b \in V /\ Stage(b, s, 0)
  BY StageFirst DEF Stage
<1>3. st \in [1..n -> [V -> V]]
  BY <1>1, HandledFacts
<1>4. \A i \in 1..n : \A v \in V : st[i][v] = Handled(v, s.out[i])
  OBVIOUS
<1> HIDE DEF st, V, b, n
<1>5. PICK H \in [0..n -> V] : H[0] = b /\ \A k \in 1..n : H[k] = st[k][H[k - 1]]
  <2>1. n \in Nat /\ b \in V
    BY <1>1, <1>2
  <2>2. PICK H : Stages(H, V, b, n, st)
    BY <1>3, <2>1, Recursion
  <2> QED
    BY <2>2 DEF Stages
<1>6. Serving(H, s)
  <2>1. \A i \in 1..n : i - 1 \in 0..n /\ H[i - 1] \in V
    BY <1>1, <1>5
  <2>2. \A i \in 1..n : H[i] = Handled(H[i - 1], s.out[i])
    BY <1>4, <1>5, <2>1
  <2>3. H = [i \in 0..n |-> H[i]]
    BY <1>5
  <2>4. ASSUME NEW i \in 0..n
        PROVE  H[i] = IF i = 0 THEN b ELSE Handled(H[i - 1], s.out[i])
    <3>1. CASE i = 0
      BY <1>5, <3>1
    <3>2. CASE i # 0
      <4>1. i \in 1..n
        BY <1>1, <3>2
      <4> QED
        BY <2>2, <3>2, <4>1
    <3> QED
      BY <3>1, <3>2
  <2> QED
    BY <2>3, <2>4 DEF Serving, b, n
<1> DEFINE F == CHOOSE G : Serving(G, s)
<1>7. Serving(F, s)
  BY <1>6
<1> HIDE DEF F
<1>8. F[0] = b /\ \A i \in 1..n : F[i] = Handled(F[i - 1], s.out[i])
  <2>1. 0 \in 0..n /\ \A i \in 1..n : i \in 0..n /\ i # 0
    BY <1>1
  <2>2. \A i \in 0..n : F[i] = IF i = 0 THEN b ELSE Handled(F[i - 1], s.out[i])
    BY <1>7 DEF Serving, b, n
  <2> QED
    BY <2>1, <2>2
<1> DEFINE T == {k \in Nat : k <= n => Stage(F[k], s, k)}
<1>9. 0 \in T
  BY <1>2, <1>8
<1>10. ASSUME NEW k \in T PROVE k + 1 \in T
  <2> SUFFICES ASSUME k + 1 <= n PROVE Stage(F[k + 1], s, k + 1)
    OBVIOUS
  <2>1. k \in Nat /\ k + 1 \in 1..n /\ (k + 1) - 1 = k /\ k <= n
    BY <1>1
  <2>2. Stage(F[k], s, k)
    BY <2>1
  <2>3. F[k + 1] = Handled(F[k], s.out[k + 1])
    BY <1>8, <2>1
  <2> QED
    BY <2>1, <2>2, <2>3, StageNext DEF n
<1>11. T = Nat
  <2> HIDE DEF T
  <2>1. T \in SUBSET Nat
    BY DEF T
  <2> QED
    BY <1>9, <1>10, <2>1, NumberInduction
<1>12. Served(s) = F[n]
  BY ServedIs DEF F, n
<1>13. Stage(F[n], s, n)
  BY <1>1, <1>11
<1> QED
  BY <1>12, <1>13 DEF n

-----------------------------------------------------------------------------
(* The invariant of the Manager, its engine and its sockets.               *)

\* The listeners are those of the sockets, in the order they began to listen.
Listening(c) ==
  /\ ToSet(c.listening) \subseteq c.made /\ IsInjective(c.listening)
  /\ c.connected \subseteq ToSet(c.listening)

\* A Manager that is open has the listeners of its engine and no others, and
\* no handler of a lost connection is half done; one that is opening has all
\* three that wait for its engine; what else may listen is the timer of
\* reconnect, and the close listener of an engine that has yet to close.
Manager(c, es) ==
  /\ c.engine = 0 =>
       c.state = "closed" /\ c.listening = <<>> /\ c.resume.call # "onconnect"
  /\ c.state = "opening" =>
       /\ es[c.engine].state = "opening"
       /\ \E fn \in BOOLEAN : Opening(c.engine, fn) \in c.subs /\ Failing(c.engine, fn) \in c.subs
       /\ Timeout(c.engine) \in c.subs
  /\ c.state = "open" =>
       /\ es[c.engine].state = "open" /\ c.subs = {Live(c.engine)}
       /\ c.resume.call \in {"none", "onconnect"}
  /\ \A s \in c.subs :
       s.sub \in {"open", "error", "timeout"} => c.state = "opening" /\ s.engine = c.engine
  /\ \A e \in Engine : Live(e) \in c.subs =>
       es[e].state = "closing" \/ (c.state = "open" /\ e = c.engine)

\* Sockets are connected while the Manager is open, and then until the `close'
\* event, which goes through them in order, has reached them.
Sockets(c) ==
  /\ c.resume.call = "onclose" => c.connected \subseteq ToSet(c.resume.left)
  /\ c.connected # {} => c.state = "open" \/ c.resume.call = "onclose"

Consistent(c, es) ==
  /\ c \in ClientState /\ es \in [Engine -> EngineState]
  /\ Listening(c) /\ Manager(c, es) /\ Sockets(c)

Counted ==
  /\ calls \in 0..MaxCalls /\ emitted \in 0..MaxEmits /\ names \in BOOLEAN
  /\ eager \subseteq 1..MaxEmits /\ failed \in BOOLEAN

IInv == Consistent(client, engines) /\ Counted

LEMMA ToSetIs ==
  ASSUME NEW S, NEW q \in Seq(S)
  PROVE  ToSet(q) = {q[i] : i \in 1..Len(q)}
BY LenProperties DEF ToSet

LEMMA ListensIs ==
  ASSUME client \in ClientState, NEW n
  PROVE  Listens(n) <=> n \in ToSet(client.listening)
<1>1. client.listening \in Seq(Nsp)
  BY DEF ClientState
<1> QED
  BY <1>1, ToSetIs DEF Listens, Contains

\* A socket more, and a socket less.
LEMMA AppendListening ==
  ASSUME NEW q \in Seq(Nsp), NEW n \in Nsp, IsInjective(q), n \notin ToSet(q)
  PROVE  /\ Append(q, n) \in Seq(Nsp) /\ IsInjective(Append(q, n))
         /\ ToSet(Append(q, n)) = ToSet(q) \cup {n}
<1> DEFINE r == Append(q, n)
<1>1. /\ r \in Seq(Nsp) /\ Len(r) = Len(q) + 1 /\ r[Len(q) + 1] = n
      /\ \A i \in 1..Len(q) : r[i] = q[i]
      /\ Len(q) \in Nat /\ DOMAIN q = 1..Len(q) /\ DOMAIN r = 1..Len(r)
  BY AppendProperties, LenProperties
<1>2. ToSet(q) = {q[i] : i \in 1..Len(q)} /\ ToSet(r) = {r[i] : i \in 1..Len(r)}
  BY <1>1, ToSetIs
<1>3. \A i \in 1..Len(r) : i \in 1..Len(q) \/ i = Len(q) + 1
  BY <1>1
<1>4. \A i \in 1..Len(q) : i \in 1..Len(r)
  BY <1>1
<1>5. Len(q) + 1 \in 1..Len(r)
  BY <1>1
<1> HIDE DEF r
<1>6. ToSet(r) = ToSet(q) \cup {n}
  BY <1>1, <1>2, <1>3, <1>4, <1>5
<1>7. IsInjective(r)
  <2> SUFFICES ASSUME NEW i \in 1..Len(r), NEW j \in 1..Len(r), r[i] = r[j] PROVE i = j
    BY <1>1 DEF IsInjective
  <2>1. CASE i \in 1..Len(q) /\ j \in 1..Len(q)
    BY <1>1, <2>1 DEF IsInjective
  <2>2. CASE ~(i \in 1..Len(q) /\ j \in 1..Len(q))
    BY <1>1, <1>2, <1>3, <2>2
  <2> QED
    BY <2>1, <2>2
<1> QED
  BY <1>1, <1>6, <1>7 DEF r

LEMMA RemoveListening ==
  ASSUME NEW q \in Seq(Nsp), NEW k \in 1..Len(q), IsInjective(q)
  PROVE  /\ RemoveAt(q, k) \in Seq(Nsp) /\ IsInjective(RemoveAt(q, k))
         /\ ToSet(RemoveAt(q, k)) = ToSet(q) \ {q[k]}
<1> DEFINE r == RemoveAt(q, k)
           f(j) == IF j < k THEN j ELSE j + 1
<1>1. /\ r \in Seq(Nsp) /\ Len(r) = Len(q) - 1
      /\ \A j \in 1..Len(r) : r[j] = IF j < k THEN q[j] ELSE q[j + 1]
  BY WithoutOne DEF RemoveAt
<1>2. Len(q) \in Nat /\ DOMAIN q = 1..Len(q) /\ DOMAIN r = 1..Len(r) /\ k \in 1..Len(q)
  BY <1>1, LenProperties
<1>3. ToSet(q) = {q[i] : i \in 1..Len(q)} /\ ToSet(r) = {r[i] : i \in 1..Len(r)}
  BY <1>1, ToSetIs
<1> HIDE DEF r
<1>4. \A j \in 1..Len(r) : f(j) \in 1..Len(q) /\ f(j) # k /\ r[j] = q[f(j)]
  BY <1>1, <1>2
<1>5. \A i, j \in 1..Len(r) : f(i) = f(j) => i = j
  BY <1>1, <1>2
<1>6. \A i \in 1..Len(q) : i # k => \E j \in 1..Len(r) : f(j) = i
  <2> TAKE i \in 1..Len(q)
  <2>1. CASE i < k
    BY <1>1, <1>2, <2>1
  <2>2. CASE i > k
    <3>1. i - 1 \in 1..Len(r) /\ ~(i - 1 < k) /\ (i - 1) + 1 = i
      BY <1>1, <1>2, <2>2
    <3> QED
      BY <3>1
  <2> QED
    BY <1>2, <2>1, <2>2
<1> HIDE DEF f
<1>7. \A i, j \in 1..Len(q) : q[i] = q[j] => i = j
  BY <1>2 DEF IsInjective
<1>8. IsInjective(r)
  BY <1>2, <1>4, <1>5, <1>7 DEF IsInjective
<1>9. ToSet(r) = ToSet(q) \ {q[k]}
  <2>1. \A x \in ToSet(r) : x \in ToSet(q) \ {q[k]}
    BY <1>2, <1>3, <1>4, <1>7
  <2>2. \A x \in ToSet(q) \ {q[k]} : x \in ToSet(r)
    BY <1>3, <1>4, <1>6
  <2> QED
    BY <2>1, <2>2
<1> QED
  BY <1>1, <1>8, <1>9 DEF r

LEMMA ToSetHeadTail ==
  ASSUME NEW q \in Seq(Nsp), q # <<>>
  PROVE  /\ Head(q) \in Nsp /\ Tail(q) \in Seq(Nsp)
         /\ ToSet(q) = {Head(q)} \cup ToSet(Tail(q))
<1>1. /\ Head(q) \in Nsp /\ Tail(q) \in Seq(Nsp) /\ Len(Tail(q)) = Len(q) - 1
      /\ \A i \in 1..Len(Tail(q)) : Tail(q)[i] = q[i + 1]
      /\ Len(q) \in Nat \ {0} /\ Head(q) = q[1]
  BY HeadTailProperties, EmptySeq
<1>2. /\ ToSet(q) = {q[i] : i \in 1..Len(q)}
      /\ ToSet(Tail(q)) = {Tail(q)[i] : i \in 1..Len(Tail(q))}
  BY <1>1, ToSetIs
<1>3. \A i \in 1..Len(q) : i = 1 \/ (i - 1 \in 1..Len(Tail(q)) /\ (i - 1) + 1 = i)
  BY <1>1
<1>4. \A i \in 1..Len(Tail(q)) : i + 1 \in 1..Len(q)
  BY <1>1
<1>5. 1 \in 1..Len(q)
  BY <1>1
<1>6. \A x \in ToSet(q) : x \in {Head(q)} \cup ToSet(Tail(q))
  BY SMTT(30), <1>1, <1>2, <1>3
<1>7. \A x \in {Head(q)} \cup ToSet(Tail(q)) : x \in ToSet(q)
  BY <1>1, <1>2, <1>4, <1>5
<1> QED
  BY <1>1, <1>6, <1>7

LEMMA ToSetEmpty == ToSet(<<>>) = {}
<1>1. <<>> \in Seq(Nsp) /\ Len(<<>>) = 0
  BY EmptySeq
<1>2. ToSet(<<>>) = {<<>>[i] : i \in 1..0}
  BY <1>1, ToSetIs
<1> QED
  BY <1>2

-----------------------------------------------------------------------------
(* What the operators keep of it.                                          *)

\* An engine that is written to, or that the server reads, goes on as it was.
LEMMA SameStates ==
  ASSUME NEW c, NEW es, Consistent(c, es), NEW fs \in [Engine -> EngineState],
         \A e \in Engine : fs[e].state = es[e].state
  PROVE  Consistent(c, fs)
<1>1. c.state # "closed" => c.engine \in Engine
  BY DEF Consistent, Manager, ClientState
<1>2. Manager(c, fs)
  BY <1>1 DEF Consistent, Manager
<1> QED
  BY <1>2 DEF Consistent

LEMMA EngineNamed ==
  ASSUME NEW c, NEW es, Consistent(c, es),
         c.state # "closed" \/ c.listening # <<>> \/ c.resume.call = "onconnect"
  PROVE  c.engine \in Engine
BY DEF Consistent, Manager, ClientState

\* Manager.open with a number that is free.
LEMMA OpenOnConsistent ==
  ASSUME NEW c \in ClientState, NEW es \in [Engine -> EngineState],
         c.state = "closed", Listening(c), Sockets(c),
         \A s \in c.subs : s.sub \notin {"open", "error", "timeout"},
         \A x \in Engine : Live(x) \in c.subs => es[x].state = "closing",
         NEW e \in Engine, \A s \in c.subs : s.engine # e, NEW fn \in BOOLEAN
  PROVE  Consistent(OpenOn(c, e, fn), [es EXCEPT ![e] = NewEngine])
<1> DEFINE d == OpenOn(c, e, fn)
           fs == [es EXCEPT ![e] = NewEngine]
<1>2. /\ d \in ClientState /\ d.state = "opening" /\ d.engine = e
      /\ d.subs = c.subs \cup {Opening(e, fn), Failing(e, fn), Timeout(e)}
      /\ d.listening = c.listening /\ d.made = c.made
      /\ d.connected = c.connected /\ d.resume = c.resume
  BY OpenOnFacts
<1>3. /\ fs \in [Engine -> EngineState] /\ fs[e].state = "opening"
      /\ \A x \in Engine : x # e => fs[x] = es[x]
  BY NewEngineType DEF NewEngine
<1>4. e # 0
  BY Numbered
<1> HIDE DEF d, fs
<1>5. Listening(d) /\ Sockets(d)
  BY <1>2 DEF Listening, Sockets
<1>6. Manager(d, fs)
  <2>1. d.state = "opening" =>
          /\ fs[d.engine].state = "opening"
          /\ \E f \in BOOLEAN : Opening(d.engine, f) \in d.subs /\ Failing(d.engine, f) \in d.subs
          /\ Timeout(d.engine) \in d.subs
    BY <1>2, <1>3
  <2>2. \A s \in d.subs : s.sub \in {"open", "error", "timeout"} =>
          d.state = "opening" /\ s.engine = d.engine
    BY <1>2 DEF Opening, Failing, Timeout
  <2>3. \A x \in Engine : Live(x) \in d.subs => fs[x].state = "closing"
    <3> TAKE x \in Engine
    <3> HAVE Live(x) \in d.subs
    <3>1. Live(x) \in c.subs
      BY <1>2 DEF Live, Opening, Failing, Timeout
    <3>2. x # e
      BY <3>1 DEF Live
    <3> QED
      BY <1>3, <3>1, <3>2
  <2> QED
    BY <1>2, <1>4, <2>1, <2>2, <2>3 DEF Manager
<1> QED
  BY <1>2, <1>3, <1>5, <1>6 DEF Consistent, d, fs

\* Manager.onclose, in whatever state the engines are.
LEMMA OnCloseConsistent ==
  ASSUME NEW c \in ClientState, Listening(c),
         c.engine = 0 => c.listening = <<>> /\ c.resume.call # "onconnect",
         c.resume.call # "onclose" \/ c.listening = <<>>,
         NEW es \in [Engine -> EngineState]
  PROVE  Consistent(OnClose(c), es)
<1> DEFINE d == OnClose(c)
<1>1. /\ d \in ClientState /\ d.subs \subseteq {Delay}
      /\ d.state = "closed" /\ d.engine = c.engine
      /\ d.listening = c.listening /\ d.made = c.made
      /\ c.listening = <<>> => d.connected = c.connected /\ d.resume = c.resume
      /\ c.listening # <<>> => /\ d.connected = c.connected \ {Head(c.listening)}
                               /\ d.resume = Closing(Tail(c.listening))
  BY OnCloseFacts
<1>2. c.listening \in Seq(Nsp)
  BY DEF ClientState
<1> HIDE DEF d
<1>3. Listening(d)
  BY <1>1 DEF Listening
<1>4. c.listening = <<>> => c.connected = {}
  BY ToSetEmpty DEF Listening
<1>5. c.listening # <<>> => c.connected \ {Head(c.listening)} \subseteq ToSet(Tail(c.listening))
  BY <1>2, ToSetHeadTail DEF Listening
<1>6. Sockets(d)
  <2>1. CASE c.listening = <<>>
    BY <1>1, <1>4, <2>1 DEF Sockets
  <2>2. CASE c.listening # <<>>
    <3>1. d.resume.call = "onclose" /\ d.resume.left = Tail(c.listening)
      <4> DEFINE t == Tail(c.listening)
      <4>1. d.resume = Closing(t)
        BY <1>1, <2>2
      <4> HIDE DEF t
      <4>2. Closing(t).call = "onclose" /\ Closing(t).left = t
        BY DEF Closing
      <4> QED
        BY <4>1, <4>2 DEF t
    <3> QED
      BY <1>1, <1>5, <2>2, <3>1 DEF Sockets
  <2> QED
    BY <2>1, <2>2
<1>7. d.engine = 0 => d.listening = <<>> /\ d.resume.call # "onconnect"
  BY <1>1
<1>8. Manager(d, es)
  BY <1>1, <1>7 DEF Manager, Delay, Live
<1> QED
  BY <1>1, <1>3, <1>6, <1>8 DEF Consistent, d

\* The `close' event of an engine that nothing is done for meanwhile.
LEMMA CloseEventConsistent ==
  ASSUME NEW c, NEW es, Consistent(c, es), c.resume = Nothing, NEW e \in Engine,
         es[e].state \in {"open", "closing", "stalled"}
  PROVE  Consistent(CloseEvent(c, e), [es EXCEPT ![e] = Closed])
<1> DEFINE fs == [es EXCEPT ![e] = Closed]
<1>1. c \in ClientState /\ es \in [Engine -> EngineState]
      /\ Listening(c) /\ Manager(c, es) /\ Sockets(c)
  BY DEF Consistent
<1>2. fs \in [Engine -> EngineState] /\ \A x \in Engine : x # e => fs[x] = es[x]
  BY <1>1, NewEngineType
<1>3. c.resume.call = "none"
  BY DEF Nothing
<1> HIDE DEF fs
<1>4. CASE Live(e) \in c.subs
  <2>1. CloseEvent(c, e) = OnClose(c)
    BY <1>4 DEF CloseEvent
  <2>2. Consistent(OnClose(c), fs)
    BY <1>1, <1>2, <1>3, OnCloseConsistent DEF Manager
  <2> QED
    BY <2>1, <2>2 DEF fs
<1>5. CASE Live(e) \notin c.subs
  <2>1. CloseEvent(c, e) = c
    BY <1>5 DEF CloseEvent
  <2>2. c.state = "opening" \/ c.state = "open" => c.engine \in Engine /\ c.engine # e
    BY <1>1, <1>5 DEF Manager, ClientState
  <2>3. Manager(c, fs)
    BY <1>1, <1>2, <1>5, <2>2 DEF Manager
  <2> QED
    BY <1>1, <1>2, <2>1, <2>3 DEF Consistent, fs
<1> QED
  BY <1>4, <1>5

\* The `error' event of an engine before it is open; d is c, with or without
\* the listener of `open'.
LEMMA ErrorEventConsistent ==
  ASSUME NEW c, NEW es, Consistent(c, es), c.resume = Nothing, NEW e \in Engine,
         es[e].state = "opening", NEW s \in EngineState,
         NEW d, d \in {c, [c EXCEPT !.subs = {x \in @ : x.sub # "open"}]},
         d = c \/ Timeout(e) \in c.subs
  PROVE  Consistent(ErrorEvent(d, e), [es EXCEPT ![e] = s])
<1> DEFINE fs == [es EXCEPT ![e] = s]
           r == ErrorEvent(d, e)
           fails == \E fn \in BOOLEAN : Failing(e, fn) \in c.subs
<1>1. c \in ClientState /\ es \in [Engine -> EngineState]
      /\ Listening(c) /\ Manager(c, es) /\ Sockets(c)
  BY DEF Consistent
<1>2. fs \in [Engine -> EngineState] /\ \A x \in Engine : x # e => fs[x] = es[x]
  BY <1>1
<1>3. c.resume.call = "none"
  BY DEF Nothing
<1>4. /\ d \in ClientState /\ d.state = c.state /\ d.engine = c.engine
      /\ d.listening = c.listening /\ d.made = c.made
      /\ d.connected = c.connected /\ d.resume = c.resume
      /\ \A fn \in BOOLEAN : Failing(e, fn) \in d.subs <=> Failing(e, fn) \in c.subs
  BY <1>1 DEF ClientState, Failing
<1>5. Timeout(e) \in c.subs => fails
  BY <1>1 DEF Manager, Timeout
<1> HIDE DEF fs
<1>6. CASE fails
  <2>1. c.state = "opening" /\ c.connected = {}
    BY <1>1, <1>3, <1>6 DEF Manager, Sockets, Failing
  <2> DEFINE fn == Failing(e, TRUE) \in d.subs
  <2>2. r = [Cleanup(d) EXCEPT !.state = "closed", !.resume = Reporting(fn)]
    BY <1>4, <1>6 DEF ErrorEvent
  <2>3. fn \in BOOLEAN
    OBVIOUS
  <2> HIDE DEF fn
  <2>4. Reporting(fn) \in Resumes
    BY <2>3, ResumesType
  <2>5. /\ r \in ClientState /\ r.state = "closed" /\ r.subs = {}
        /\ r.engine = c.engine /\ r.resume.call = "connect_error"
        /\ r.listening = c.listening /\ r.made = c.made /\ r.connected = {}
    <3>1. /\ Cleanup(d) \in ClientState /\ Cleanup(d).subs = {}
          /\ Cleanup(d).engine = c.engine /\ Cleanup(d).listening = c.listening
          /\ Cleanup(d).made = c.made /\ Cleanup(d).connected = {}
      BY <1>4, <2>1, CleanupFacts
    <3> HIDE DEF r
    <3> QED
      BY <2>2, <2>4, <3>1 DEF ClientState, Reporting
  <2> HIDE DEF r
  <2>6. Listening(r) /\ Sockets(r)
    BY <1>1, <2>5 DEF Listening, Sockets
  <2>7. r.engine # 0
    BY <1>1, <2>1, <2>5 DEF Manager
  <2>8. Manager(r, fs)
    BY <2>5, <2>7 DEF Manager
  <2> QED
    BY <1>2, <2>5, <2>6, <2>8 DEF Consistent, r, fs
<1>7. CASE ~fails
  <2>1. d = c /\ r = d
    BY <1>4, <1>5, <1>7 DEF ErrorEvent
  <2>2. c.state = "opening" \/ c.state = "open" => c.engine \in Engine /\ c.engine # e
    BY <1>1, <1>7 DEF Manager, ClientState
  <2>3. Manager(c, fs)
    BY <1>1, <1>2, <2>2 DEF Manager
  <2> QED
    BY <1>1, <1>2, <2>1, <2>3 DEF Consistent, fs
<1> QED
  BY <1>6, <1>7

\* reconnect adds its timer at most, when there is no connection.
LEMMA ReconnectConsistent ==
  ASSUME NEW c, NEW es, Consistent(c, es), c.state # "open"
  PROVE  Consistent(Reconnect(c), es)
<1> DEFINE d == Reconnect(c)
<1>1. c \in ClientState /\ es \in [Engine -> EngineState]
      /\ Listening(c) /\ Manager(c, es) /\ Sockets(c)
  BY DEF Consistent
<1>2. /\ d \in ClientState /\ d.subs \in {c.subs, c.subs \cup {Delay}}
      /\ d.state = c.state /\ d.engine = c.engine
      /\ d.listening = c.listening /\ d.made = c.made
      /\ d.connected = c.connected /\ d.resume = c.resume
  BY <1>1, ReconnectFacts
<1> HIDE DEF d
<1>3. Listening(d) /\ Sockets(d)
  BY <1>1, <1>2 DEF Listening, Sockets
<1>4. Manager(d, es)
  <2>1. \A x \in d.subs : x \in c.subs \/ x = Delay
    BY <1>2
  <2>2. Delay.sub = "delay" /\ \A e \in Engine : Live(e) # Delay
    BY DEF Delay, Live
  <2>3. c.subs \subseteq d.subs
    BY <1>2
  <2> QED
    BY <1>1, <1>2, <2>1, <2>2, <2>3 DEF Manager
<1> QED
  BY <1>1, <1>2, <1>3, <1>4 DEF Consistent, d

\* Manager.close, when the last socket has gone.
LEMMA CloseManagerConsistent ==
  ASSUME NEW c, NEW es, Consistent(c, es), c.listening = <<>>, c.engine \in Engine,
         NEW waits \in BOOLEAN, CloseManager(c, es, waits)
  PROVE  Consistent(client, engines)'
<1> DEFINE idle == IF c.state = "opening" THEN Cleanup(c) ELSE c
           closed == [idle EXCEPT !.skip = TRUE, !.reconnecting = FALSE,
                                  !.attempts = 0, !.state = "closed"]
           old == es[c.engine].state
           new == CASE old \notin Alive -> old
                    [] old \in Alive /\ ~waits -> "closed"
                    [] old = "open" /\ waits -> "closing"
                    [] old = "opening" /\ waits -> "stalled"
           e == c.engine
<1>1. c \in ClientState /\ es \in [Engine -> EngineState]
      /\ Listening(c) /\ Manager(c, es) /\ Sockets(c) /\ e \in Engine /\ e # 0
  BY Numbered DEF Consistent
<1>2. /\ closed \in ClientState /\ closed.state = "closed"
      /\ closed.subs = IF c.state = "opening" THEN {} ELSE c.subs
      /\ closed.engine = e /\ closed.listening = <<>> /\ closed.made = c.made
      /\ closed.connected = c.connected /\ closed.resume = c.resume
  <2>1. 0 \in 0..Attempts
    BY ClientAssumption
  <2>2. /\ idle \in ClientState
        /\ idle.subs = IF c.state = "opening" THEN {} ELSE c.subs
        /\ idle.engine = e /\ idle.listening = <<>> /\ idle.made = c.made
        /\ idle.connected = c.connected /\ idle.resume = c.resume
    BY <1>1, CleanupFacts
  <2> HIDE DEF idle
  <2> QED
    BY <2>1, <2>2 DEF ClientState
<1>3. /\ client' = IF new = "closed" /\ old # new THEN CloseEvent(closed, e) ELSE closed
      /\ engines' = [es EXCEPT ![e] = IF new = "closed" THEN Closed
                                      ELSE [@ EXCEPT !.state = new]]
      /\ waits => old = "open" \/ old = "opening"
  BY DEF CloseManager
<1>4. es[e] \in EngineState /\ old \in {"opening", "open", "closing", "closed", "stalled"}
  BY <1>1 DEF EngineState
<1>5. new \in {"opening", "open", "closing", "closed", "stalled"}
      /\ (old \notin Alive => new = old)
      /\ (old \in Alive => new \in {"closed", "closing", "stalled"})
      /\ (new = "stalled" => old \in {"opening", "stalled"})
  BY <1>4 DEF Alive
<1> HIDE DEF closed, idle, old, new
<1>6. /\ engines' \in [Engine -> EngineState] /\ engines'[e].state = new
      /\ \A x \in Engine : x # e => engines'[x] = es[x]
  <2>1. [es[e] EXCEPT !.state = new] \in EngineState
        /\ [es[e] EXCEPT !.state = new].state = new
    BY <1>4, <1>5 DEF EngineState
  <2>2. CASE new = "closed"
    BY <1>1, <1>3, <2>2, NewEngineType DEF Closed, NewEngine
  <2>3. CASE new # "closed"
    BY <1>1, <1>3, <2>1, <2>3
  <2> QED
    BY <2>2, <2>3
<1>7. Listening(closed) /\ Sockets(closed)
  <2>1. c.connected = {}
    BY <1>1, ToSetEmpty DEF Listening
  <2> QED
    BY <1>1, <1>2, <2>1 DEF Listening, Sockets
<1>8. c.state \in {"open", "opening"} => old = c.state
  BY <1>1 DEF Manager, old
<1>9. /\ \A s \in closed.subs : s.sub \notin {"open", "error", "timeout"}
      /\ \A x \in Engine : Live(x) \in closed.subs =>
           es[x].state = "closing" \/ (old = "open" /\ x = e)
  BY <1>1, <1>2, <1>8 DEF Manager
<1>10. CASE Live(e) \in closed.subs /\ new = "closed" /\ old # new
  <2>1. client' = OnClose(closed)
    BY <1>3, <1>10 DEF CloseEvent
  <2>2. Consistent(OnClose(closed), engines')
    BY <1>1, <1>2, <1>6, <1>7, OnCloseConsistent
  <2> QED
    BY <2>1, <2>2 DEF Consistent, Listening, Manager, Sockets
<1>11. CASE ~(Live(e) \in closed.subs /\ new = "closed" /\ old # new)
  <2>1. client' = closed
    BY <1>3, <1>11 DEF CloseEvent
  <2>2. ASSUME NEW x \in Engine, Live(x) \in closed.subs
        PROVE  engines'[x].state = "closing"
    <3>1. CASE x # e
      BY <1>6, <1>9, <2>2, <3>1
    <3>2. CASE x = e
      <4>1. old = "closing" \/ old = "open"
        BY <1>9, <2>2, <3>2 DEF old
      <4>2. old = "closing" => new = "closing"
        BY <1>5 DEF Alive
      <4>3. old = "open" => new = "closing"
        BY <1>5, <1>11, <2>2, <3>2 DEF Alive
      <4> QED
        BY <1>6, <3>2, <4>1, <4>2, <4>3
    <3> QED
      BY <3>1, <3>2
  <2>3. Manager(closed, engines')
    BY <1>1, <1>2, <1>9, <2>2 DEF Manager
  <2>4. Consistent(closed, engines')
    BY <1>2, <1>6, <1>7, <2>3 DEF Consistent
  <2> QED
    BY <2>1, <2>4 DEF Consistent, Listening, Manager, Sockets
<1> QED
  BY <1>10, <1>11

-----------------------------------------------------------------------------
(* What every step keeps of it.                                            *)

LEMMA ConnectStep ==
  ASSUME IInv, NEW n \in Nsp, Connect(n)
  PROVE  Consistent(client, engines)'
<1> DEFINE c == [client EXCEPT !.made = @ \cup {n},
                   !.listening = IF Listens(n) THEN @ ELSE Append(@, n)]
<1>1. client \in ClientState /\ engines \in [Engine -> EngineState]
      /\ Listening(client) /\ Manager(client, engines) /\ Sockets(client)
  BY DEF IInv, Consistent
<1>2. client.listening \in Seq(Nsp) /\ client.made \cup {n} \in SUBSET Nsp
  BY <1>1 DEF ClientState
<1>3. /\ c \in ClientState /\ c.made = client.made \cup {n}
      /\ c.listening = IF Listens(n) THEN client.listening ELSE Append(client.listening, n)
      /\ c.state = client.state /\ c.engine = client.engine /\ c.subs = client.subs
      /\ c.connected = client.connected /\ c.resume = client.resume
  <2>1. Append(client.listening, n) \in Seq(Nsp)
    BY <1>2, AppendProperties
  <2> QED
    BY <1>1, <1>2, <2>1 DEF ClientState
<1> HIDE DEF c
<1>4. Listening(c)
  <2>1. CASE Listens(n)
    BY <1>1, <1>3, <2>1 DEF Listening
  <2>2. CASE ~Listens(n)
    <3>1. n \notin ToSet(client.listening)
      BY <1>1, <2>2, ListensIs
    <3> QED
      BY <1>1, <1>2, <1>3, <2>2, <3>1, AppendListening DEF Listening
  <2> QED
    BY <2>1, <2>2
<1>5. Sockets(c)
  BY <1>1, <1>3 DEF Sockets
<1>6. CASE c.state \in Alive /\ client' = c
           /\ engines' = IF c.state = "open" /\ n # Root
                         THEN Write(engines, c, <<ConnectPacket(n)>>) ELSE engines
  <2>1. c.engine \in Engine /\ c.engine # 0
    BY <1>1, <1>3, <1>6 DEF Manager, Alive, ClientState
  <2>2. Manager(c, engines)
    BY <1>1, <1>3, <2>1 DEF Manager
  <2>3. Consistent(c, engines)
    BY <1>1, <1>3, <1>4, <1>5, <2>2 DEF Consistent
  <2>4. <<ConnectPacket(n)>> \in Seq(Packet)
    BY Packets
  <2>5. engines' \in [Engine -> EngineState]
        /\ \A e \in Engine : engines'[e].state = engines[e].state
    <3>1. CASE c.state = "open" /\ n # Root
      <4> DEFINE ps == <<ConnectPacket(n)>>
      <4>1. ps \in Seq(Packet) /\ engines' = Write(engines, c, ps)
        BY <1>6, <2>4, <3>1
      <4> HIDE DEF ps
      <4> QED
        BY <1>1, <1>3, <2>1, <4>1, WriteFacts
    <3>2. CASE ~(c.state = "open" /\ n # Root)
      BY <1>1, <1>6, <3>2
    <3> QED
      BY <3>1, <3>2
  <2>6. Consistent(c, engines')
    BY <2>3, <2>5, SameStates
  <2> QED
    BY <1>6, <2>6 DEF Consistent, Listening, Manager, Sockets
<1>7. CASE /\ c.state = "closed" /\ Free(c) # {}
           /\ client' = OpenOn(c, NewNumber(c), FALSE)
           /\ engines' = [engines EXCEPT ![NewNumber(c)] = NewEngine]
  <2> DEFINE e == NewNumber(c)
  <2>1. e \in Engine /\ engines[e].state = "closed" /\ e # c.engine
        /\ \A s \in c.subs : s.engine # e
    BY <1>7, NewNumberFree DEF Free
  <2> HIDE DEF e
  <2>2. /\ \A s \in c.subs : s.sub \notin {"open", "error", "timeout"}
        /\ \A x \in Engine : Live(x) \in c.subs => engines[x].state = "closing"
    BY <1>1, <1>3, <1>7 DEF Manager
  <2>3. Consistent(OpenOn(c, e, FALSE), [engines EXCEPT ![e] = NewEngine])
    BY <1>1, <1>3, <1>4, <1>5, <1>7, <2>1, <2>2, OpenOnConsistent
  <2> QED
    BY <1>7, <2>3 DEF Consistent, Listening, Manager, Sockets, e
<1> QED
  BY <1>6, <1>7 DEF Connect, c

LEMMA DisconnectStep ==
  ASSUME IInv, NEW n \in Nsp, Disconnect(n)
  PROVE  Consistent(client, engines)'
<1>1. client \in ClientState /\ engines \in [Engine -> EngineState]
      /\ Listening(client) /\ Manager(client, engines) /\ Sockets(client)
  BY DEF IInv, Consistent
<1>2. PICK i \in 1..Len(client.listening) :
        LET c == [client EXCEPT !.listening = RemoveAt(@, i), !.connected = @ \ {n}]
            es == IF n \in client.connected
                  THEN Write(engines, client, <<DisconnectPacket(n)>>) ELSE engines
        IN  /\ client.listening[i] = n
            /\ IF c.listening # <<>> THEN client' = c /\ engines' = es
               ELSE \E waits \in BOOLEAN : CloseManager(c, es, waits)
  BY DEF Disconnect
<1> DEFINE c == [client EXCEPT !.listening = RemoveAt(@, i), !.connected = @ \ {n}]
           es == IF n \in client.connected
                 THEN Write(engines, client, <<DisconnectPacket(n)>>) ELSE engines
<1>3. client.listening \in Seq(Nsp) /\ client.listening # <<>>
  <2>1. client.listening \in Seq(Nsp)
    BY <1>1 DEF ClientState
  <2> QED
    BY <1>2, <2>1, EmptySeq
<1>4. /\ RemoveAt(client.listening, i) \in Seq(Nsp)
      /\ IsInjective(RemoveAt(client.listening, i))
      /\ ToSet(RemoveAt(client.listening, i)) = ToSet(client.listening) \ {n}
  BY <1>1, <1>2, <1>3, RemoveListening DEF Listening
<1>5. /\ c \in ClientState /\ c.listening = RemoveAt(client.listening, i)
      /\ c.connected = client.connected \ {n} /\ c.made = client.made
      /\ c.state = client.state /\ c.engine = client.engine /\ c.subs = client.subs
      /\ c.resume = client.resume
  BY <1>1, <1>4 DEF ClientState
<1>6. client.engine \in Engine /\ client.engine # 0
  BY <1>1, <1>3 DEF Manager, ClientState
<1>7. es \in [Engine -> EngineState] /\ \A e \in Engine : es[e].state = engines[e].state
  <2>1. CASE n \in client.connected
    <3> DEFINE ps == <<DisconnectPacket(n)>>
    <3>1. ps \in Seq(Packet)
      BY Packets
    <3>2. es = Write(engines, client, ps)
      BY <2>1
    <3> HIDE DEF ps, es
    <3> QED
      BY <1>1, <1>6, <3>1, <3>2, WriteFacts
  <2>2. CASE n \notin client.connected
    BY <1>1, <2>2
  <2> QED
    BY <2>1, <2>2
<1>8. /\ c.listening # <<>> => client' = c /\ engines' = es
      /\ c.listening = <<>> => \E waits \in BOOLEAN : CloseManager(c, es, waits)
  BY <1>2
<1> HIDE DEF c, es
<1>9. Consistent(c, es)
  <2>1. Listening(c) /\ Sockets(c)
    BY <1>1, <1>4, <1>5 DEF Listening, Sockets
  <2>2. Manager(c, engines)
    BY <1>1, <1>5, <1>6 DEF Manager
  <2>3. Consistent(c, engines)
    BY <1>1, <1>5, <2>1, <2>2 DEF Consistent
  <2> QED
    BY <1>7, <2>3, SameStates
<1>10. CASE c.listening # <<>>
  BY <1>8, <1>9, <1>10 DEF Consistent, Listening, Manager, Sockets
<1>11. CASE c.listening = <<>>
  BY <1>5, <1>6, <1>8, <1>9, <1>11, CloseManagerConsistent
<1> QED
  BY <1>10, <1>11

LEMMA EmitStep ==
  ASSUME IInv, NEW n \in Nsp, Emit(n)
  PROVE  Consistent(client, engines)'
<1>1. client \in ClientState /\ engines \in [Engine -> EngineState]
      /\ Listening(client) /\ Manager(client, engines) /\ Sockets(client)
      /\ Consistent(client, engines)
  BY DEF IInv, Consistent
<1>2. emitted + 1 \in 1..MaxEmits
  BY ClientAssumption DEF Emit, IInv, Counted
<1>3. CASE n \in client.connected
  <2> DEFINE ps == <<EventPacket(n, emitted + 1)>>
  <2>1. ps \in Seq(Packet)
    BY <1>2, Packets
  <2>2. client' = client /\ engines' = Write(engines, client, ps)
    BY <1>3 DEF Emit
  <2>3. client.engine \in Engine
    BY <1>1, <1>3, ToSetEmpty DEF Manager, Listening, ClientState
  <2> HIDE DEF ps
  <2>4. engines' \in [Engine -> EngineState]
        /\ \A e \in Engine : engines'[e].state = engines[e].state
    BY <1>1, <2>1, <2>2, <2>3, WriteFacts
  <2>5. Consistent(client, engines')
    BY <1>1, <2>4, SameStates
  <2> QED
    BY <2>2, <2>5 DEF Consistent, Listening, Manager, Sockets
<1>4. CASE n \notin client.connected
  <2> DEFINE b == Append(client.buffer[n], emitted + 1)
             c == [client EXCEPT !.buffer = [@ EXCEPT ![n] = b]]
  <2>1. b \in Seq(1..MaxEmits)
    <3>1. client.buffer[n] \in Seq(1..MaxEmits)
      BY <1>1 DEF ClientState
    <3> QED
      BY <1>2, <3>1, AppendProperties
  <2>2. client' = c /\ engines' = engines
    BY <1>4 DEF Emit
  <2> HIDE DEF b
  <2>3. /\ c \in ClientState /\ c.listening = client.listening
        /\ c.connected = client.connected /\ c.made = client.made
        /\ c.state = client.state /\ c.engine = client.engine /\ c.subs = client.subs
        /\ c.resume = client.resume
    BY <1>1, <2>1 DEF ClientState
  <2> HIDE DEF c
  <2>4. Listening(c) /\ Manager(c, engines) /\ Sockets(c)
    BY <1>1, <2>3 DEF Listening, Manager, Sockets
  <2> QED
    BY <1>1, <2>2, <2>3, <2>4 DEF Consistent, Listening, Manager, Sockets
<1> QED
  BY <1>3, <1>4

LEMMA OnCloseReturnsStep ==
  ASSUME IInv, OnCloseReturns
  PROVE  Consistent(client, engines)'
<1> DEFINE left == client.resume.left
           done == [client EXCEPT !.resume = Nothing]
           next == [client EXCEPT !.connected = @ \ {Head(left)},
                                  !.resume = Closing(Tail(left))]
<1>1. client \in ClientState /\ engines \in [Engine -> EngineState]
      /\ Listening(client) /\ Manager(client, engines) /\ Sockets(client)
  BY DEF IInv, Consistent
<1>2. client.resume.call = "onclose" /\ engines' = engines
      /\ (left # <<>> => client' = next) /\ (left = <<>> => client' = Reconnect(done))
  BY DEF OnCloseReturns
<1>3. left \in Seq(Nsp) /\ client.connected \subseteq ToSet(left) /\ client.state # "open"
  BY <1>1, <1>2 DEF ClientState, Resumes, Sockets, Manager
<1> HIDE DEF left
<1>4. CASE left # <<>>
  <2> DEFINE t == Tail(left)
  <2>1. t \in Seq(Nsp) /\ ToSet(left) = {Head(left)} \cup ToSet(t)
    BY <1>3, <1>4, ToSetHeadTail
  <2> HIDE DEF t
  <2>2. Closing(t) \in Resumes /\ Closing(t).call = "onclose" /\ Closing(t).left = t
    BY <2>1, ResumesType DEF Closing
  <2>3. next = [client EXCEPT !.connected = @ \ {Head(left)}, !.resume = Closing(t)]
    BY DEF t
  <2> HIDE DEF next
  <2>4. /\ next \in ClientState /\ next.listening = client.listening
        /\ next.connected = client.connected \ {Head(left)} /\ next.made = client.made
        /\ next.state = client.state /\ next.engine = client.engine
        /\ next.subs = client.subs /\ next.resume = Closing(t)
    BY <1>1, <2>2, <2>3 DEF ClientState
  <2>5. Listening(next) /\ Sockets(next)
    BY <1>1, <1>3, <2>1, <2>2, <2>4 DEF Listening, Sockets
  <2>6. Manager(next, engines)
    BY <1>1, <1>3, <2>2, <2>4 DEF Manager
  <2> QED
    BY <1>1, <1>2, <1>4, <2>4, <2>5, <2>6 DEF Consistent, Listening, Manager, Sockets
<1>5. CASE left = <<>>
  <2>1. /\ done \in ClientState /\ done.listening = client.listening
        /\ done.connected = client.connected /\ done.made = client.made
        /\ done.state = client.state /\ done.engine = client.engine
        /\ done.subs = client.subs /\ done.resume = Nothing
    BY <1>1, ResumesType DEF ClientState
  <2> HIDE DEF done
  <2>2. client.connected = {}
    BY <1>3, <1>5, ToSetEmpty
  <2>3. Listening(done) /\ Sockets(done)
    BY <1>1, <2>1, <2>2 DEF Listening, Sockets, Nothing
  <2>4. Manager(done, engines)
    BY <1>1, <1>3, <2>1 DEF Manager, Nothing
  <2>5. Consistent(done, engines)
    BY <1>1, <2>1, <2>3, <2>4 DEF Consistent
  <2>6. Consistent(Reconnect(done), engines)
    BY <1>3, <2>1, <2>5, ReconnectConsistent
  <2> QED
    BY <1>2, <1>5, <2>6 DEF Consistent, Listening, Manager, Sockets
<1> QED
  BY <1>4, <1>5

LEMMA OnConnectReturnsStep ==
  ASSUME IInv, OnConnectReturns
  PROVE  Consistent(client, engines)'
<1> DEFINE n == client.resume.nsp
           queue == client.buffer[n]
           ps == [i \in 1..Len(queue) |-> EventPacket(n, queue[i])]
           c == [client EXCEPT !.buffer[n] = <<>>, !.resume = Nothing]
<1>1. client \in ClientState /\ engines \in [Engine -> EngineState]
      /\ Listening(client) /\ Manager(client, engines) /\ Sockets(client)
      /\ Consistent(client, engines)
  BY DEF IInv, Consistent
<1>2. client.resume.call = "onconnect" /\ client' = c
      /\ engines' = Write(engines, client, ps)
  BY DEF OnConnectReturns
<1>3. n \in Nsp
  BY <1>1, <1>2 DEF ClientState, Resumes
<1>4. queue \in Seq(1..MaxEmits) /\ <<>> \in Seq(1..MaxEmits)
  BY <1>1, <1>3, EmptySeq DEF ClientState
<1> HIDE DEF n
<1>5. ps \in Seq(Packet)
  <2>1. Len(queue) \in Nat /\ \A i \in 1..Len(queue) : queue[i] \in 0..MaxEmits
    BY <1>4, LenProperties, ElementOfSeq, ClientAssumption
  <2> HIDE DEF queue
  <2>2. \A i \in 1..Len(queue) : EventPacket(n, queue[i]) \in Packet
    BY <1>3, <2>1, Packets
  <2>3. ps \in [1..Len(queue) -> Packet]
    BY <2>2
  <2> QED
    BY <2>1, <2>3
<1> HIDE DEF ps, queue
<1>6. client.engine \in Engine
  BY <1>1, <1>2 DEF Manager, ClientState
<1>7. engines' \in [Engine -> EngineState]
      /\ \A e \in Engine : engines'[e].state = engines[e].state
  BY <1>1, <1>2, <1>5, <1>6, WriteFacts
<1>8. /\ c \in ClientState /\ c.listening = client.listening
      /\ c.connected = client.connected /\ c.made = client.made
      /\ c.state = client.state /\ c.engine = client.engine
      /\ c.subs = client.subs /\ c.resume = Nothing
  <2>1. [client.buffer EXCEPT ![n] = <<>>] \in [Nsp -> Seq(1..MaxEmits)]
    BY <1>1, <1>4 DEF ClientState
  <2>2. c = [client EXCEPT !.buffer = [client.buffer EXCEPT ![n] = <<>>], !.resume = Nothing]
    BY <1>1 DEF ClientState
  <2> HIDE DEF c
  <2> QED
    BY <1>1, <2>1, <2>2, ResumesType DEF ClientState
<1> HIDE DEF c
<1>9. Listening(c) /\ Sockets(c)
  BY <1>1, <1>2, <1>8 DEF Listening, Sockets, Nothing
<1>10. Manager(c, engines)
  BY <1>1, <1>8 DEF Manager, Nothing
<1>11. Consistent(c, engines)
  BY <1>1, <1>8, <1>9, <1>10 DEF Consistent
<1>12. Consistent(c, engines')
  BY <1>7, <1>11, SameStates
<1> QED
  BY <1>2, <1>12 DEF Consistent, Listening, Manager, Sockets

LEMMA AttemptReturnsStep ==
  ASSUME IInv, AttemptReturns
  PROVE  Consistent(client, engines)'
<1> DEFINE c == [client EXCEPT !.resume = Nothing]
<1>1. client \in ClientState /\ engines \in [Engine -> EngineState]
      /\ Listening(client) /\ Manager(client, engines) /\ Sockets(client)
      /\ client.resume.call = "attempt"
  BY DEF IInv, Consistent, AttemptReturns, Attempting
<1>2. /\ c \in ClientState /\ c.listening = client.listening
      /\ c.connected = client.connected /\ c.made = client.made
      /\ c.state = client.state /\ c.engine = client.engine
      /\ c.subs = client.subs /\ c.resume = Nothing
  BY <1>1, ResumesType DEF ClientState
<1>3. /\ client' = c /\ engines' = engines
      \/ /\ c.state = "closed" /\ Free(c) # {}
         /\ client' = OpenOn(c, NewNumber(c), TRUE)
         /\ engines' = [engines EXCEPT ![NewNumber(c)] = NewEngine]
  BY DEF AttemptReturns
<1> HIDE DEF c
<1>4. Listening(c) /\ Sockets(c)
  BY <1>1, <1>2 DEF Listening, Sockets, Nothing
<1>5. Manager(c, engines)
  BY <1>1, <1>2 DEF Manager, Nothing
<1>6. CASE client' = c /\ engines' = engines
  BY <1>1, <1>2, <1>4, <1>5, <1>6 DEF Consistent, Listening, Manager, Sockets
<1>7. CASE /\ c.state = "closed" /\ Free(c) # {}
           /\ client' = OpenOn(c, NewNumber(c), TRUE)
           /\ engines' = [engines EXCEPT ![NewNumber(c)] = NewEngine]
  <2> DEFINE e == NewNumber(c)
  <2>1. e \in Engine /\ \A s \in c.subs : s.engine # e
    BY <1>7, NewNumberFree DEF Free
  <2> HIDE DEF e
  <2>2. /\ \A s \in c.subs : s.sub \notin {"open", "error", "timeout"}
        /\ \A x \in Engine : Live(x) \in c.subs => engines[x].state = "closing"
    BY <1>5, <1>7 DEF Manager
  <2>3. Consistent(OpenOn(c, e, TRUE), [engines EXCEPT ![e] = NewEngine])
    BY <1>1, <1>2, <1>4, <1>7, <2>1, <2>2, OpenOnConsistent
  <2> QED
    BY <1>7, <2>3 DEF Consistent, Listening, Manager, Sockets, e
<1> QED
  BY <1>3, <1>6, <1>7

LEMMA ConnectErrorReturnsStep ==
  ASSUME IInv, ConnectErrorReturns
  PROVE  Consistent(client, engines)'
<1> DEFINE c == [client EXCEPT !.resume = Nothing]
           retry == [c EXCEPT !.reconnecting = FALSE]
<1>1. client \in ClientState /\ engines \in [Engine -> EngineState]
      /\ Listening(client) /\ Manager(client, engines) /\ Sockets(client)
      /\ client.resume.call = "connect_error" /\ engines' = engines
  BY DEF IInv, Consistent, ConnectErrorReturns
<1>2. client.state # "open"
  BY <1>1 DEF Manager
<1>3. ASSUME NEW d, d \in {c, retry} PROVE Consistent(d, engines) /\ d.state # "open"
  <2>1. /\ d \in ClientState /\ d.listening = client.listening
        /\ d.connected = client.connected /\ d.made = client.made
        /\ d.state = client.state /\ d.engine = client.engine
        /\ d.subs = client.subs /\ d.resume = Nothing
    BY <1>1, <1>3, ResumesType DEF ClientState
  <2>2. Listening(d) /\ Sockets(d)
    BY <1>1, <2>1 DEF Listening, Sockets, Nothing
  <2>3. Manager(d, engines)
    BY <1>1, <2>1 DEF Manager, Nothing
  <2> QED
    BY <1>1, <1>2, <2>1, <2>2, <2>3 DEF Consistent
<1>4. client' = Reconnect(retry) \/ client' = MaybeReconnectOnOpen(c)
  BY DEF ConnectErrorReturns
<1> HIDE DEF c, retry
<1>5. client' \in {c, Reconnect(c), Reconnect(retry)}
  BY <1>4 DEF MaybeReconnectOnOpen
<1>6. Consistent(client', engines)
  BY <1>3, <1>5, ReconnectConsistent
<1> QED
  BY <1>1, <1>6 DEF Consistent, Listening, Manager, Sockets

LEMMA OnOpenFacts ==
  ASSUME NEW c \in ClientState, c.engine \in Engine, NEW fn \in BOOLEAN
  PROVE  /\ OnOpen(c, fn) \in ClientState /\ OnOpen(c, fn).state = "open"
         /\ OnOpen(c, fn).subs = {Live(c.engine)} /\ OnOpen(c, fn).engine = c.engine
         /\ OnOpen(c, fn).listening = c.listening /\ OnOpen(c, fn).made = c.made
         /\ OnOpen(c, fn).connected = c.connected
         /\ OnOpen(c, fn).buffer = c.buffer /\ OnOpen(c, fn).resume = c.resume
<1> DEFINE open == [Cleanup(c) EXCEPT !.state = "open", !.subs = @ \cup {Live(c.engine)}]
<1>1. {} \cup {Live(c.engine)} \in SUBSET Subs /\ 0 \in 0..Attempts
  BY SubsType, ClientAssumption
<1>2. /\ open \in ClientState /\ open.state = "open" /\ open.subs = {Live(c.engine)}
      /\ open.engine = c.engine /\ open.listening = c.listening /\ open.made = c.made
      /\ open.connected = c.connected /\ open.buffer = c.buffer /\ open.resume = c.resume
  <2> DEFINE d == Cleanup(c)
  <2>1. /\ d \in ClientState /\ d.subs = {} /\ d.engine = c.engine
        /\ d.listening = c.listening /\ d.made = c.made /\ d.connected = c.connected
        /\ d.buffer = c.buffer /\ d.resume = c.resume
    BY CleanupFacts
  <2> HIDE DEF d
  <2>2. open = [d EXCEPT !.state = "open", !.subs = @ \cup {Live(c.engine)}]
    BY DEF d
  <2> HIDE DEF open
  <2> QED
    BY <1>1, <2>1, <2>2 DEF ClientState
<1>3. OnOpen(c, fn) = IF fn THEN [open EXCEPT !.reconnecting = FALSE, !.attempts = 0]
                            ELSE open
  BY DEF OnOpen
<1> HIDE DEF open
<1>4. CASE fn
  <2>1. OnOpen(c, fn) = [open EXCEPT !.reconnecting = FALSE, !.attempts = 0]
    BY <1>3, <1>4
  <2> QED
    BY <1>1, <1>2, <2>1 DEF ClientState
<1>5. CASE ~fn
  BY <1>2, <1>3, <1>5
<1> QED
  BY <1>4, <1>5

\* The engine the Manager waits for is its own.
LEMMA EngineHeard ==
  ASSUME IInv, NEW e \in Engine, engines[e].state = "opening"
  PROVE  /\ (\E fn \in BOOLEAN : Opening(e, fn) \in client.subs) =>
              client.state = "opening" /\ e = client.engine
         /\ client.state # "closed" /\ e = client.engine =>
              \E fn \in BOOLEAN : Opening(e, fn) \in client.subs
BY DEF IInv, Consistent, Manager, Opening, ClientState

LEMMA EngineOpensStep ==
  ASSUME IInv, NEW e \in Engine, EngineOpens(e)
  PROVE  Consistent(client, engines)'
<1> DEFINE heard == \E fn \in BOOLEAN : Opening(e, fn) \in client.subs
           fn == Opening(e, TRUE) \in client.subs
           s == [engines[e] EXCEPT !.state = "open", !.joined = {Root},
                                   !.replies = <<Root>>, !.early = (engines[e].out # <<>>)]
           es == [engines EXCEPT ![e] = s]
           c == OnOpen(client, fn)
<1>1. client \in ClientState /\ engines \in [Engine -> EngineState]
      /\ Listening(client) /\ Manager(client, engines) /\ Sockets(client)
      /\ client.resume.call = "none" /\ engines[e].state = "opening"
  BY DEF IInv, Consistent, EngineOpens, Quiet, Nothing
<1>2. /\ client' = IF heard THEN c ELSE client
      /\ engines' = IF heard THEN Write(es, client, Requests(client)) ELSE es
  BY <1>1 DEF EngineOpens
<1>3. s \in EngineState /\ s.state = "open"
  <2> DEFINE early == engines[e].out # <<>>
  <2>1. <<Root>> \in Seq(Nsp) /\ {Root} \in SUBSET Nsp /\ early \in BOOLEAN
    BY ClientAssumption
  <2>2. engines[e] \in EngineState
    BY <1>1
  <2> HIDE DEF early
  <2>3. s = [engines[e] EXCEPT !.state = "open", !.joined = {Root},
                               !.replies = <<Root>>, !.early = early]
    BY DEF early
  <2> HIDE DEF s
  <2> QED
    BY <2>1, <2>2, <2>3 DEF EngineState
<1> HIDE DEF s
<1>4. /\ es \in [Engine -> EngineState] /\ es[e].state = "open"
      /\ \A x \in Engine : x # e => es[x] = engines[x]
  BY <1>1, <1>3
<1>5. fn \in BOOLEAN
  OBVIOUS
<1> HIDE DEF es, fn
<1>6. CASE heard
  <2>1. client.state = "opening" /\ e = client.engine
    BY <1>1, <1>6, EngineHeard
  <2>2. /\ c \in ClientState /\ c.state = "open" /\ c.subs = {Live(e)} /\ c.engine = e
        /\ c.listening = client.listening /\ c.made = client.made
        /\ c.connected = client.connected /\ c.resume = client.resume
    BY <1>1, <1>5, <2>1, OnOpenFacts
  <2> HIDE DEF c, heard
  <2>3. Listening(c) /\ Sockets(c)
    BY <1>1, <2>2 DEF Listening, Sockets
  <2>4. e # 0 /\ Live(e).sub = "live" /\ \A x \in Engine : Live(x) = Live(e) => x = e
    BY Numbered DEF Live
  <2>5. Manager(c, es)
    BY <1>1, <1>4, <2>2, <2>4 DEF Manager
  <2>6. Consistent(c, es)
    BY <1>4, <2>2, <2>3, <2>5 DEF Consistent
  <2>7. Requests(client) \in Seq(Packet)
    BY <1>1, RequestsFacts
  <2>8. engines' \in [Engine -> EngineState]
        /\ \A x \in Engine : engines'[x].state = es[x].state
    BY <1>1, <1>2, <1>4, <1>6, <2>1, <2>7, WriteFacts
  <2>9. Consistent(c, engines')
    BY <2>6, <2>8, SameStates
  <2> QED
    BY <1>2, <1>6, <2>9 DEF Consistent, Listening, Manager, Sockets
<1>7. CASE ~heard
  <2>1. client' = client /\ engines' = es
    BY <1>2, <1>7
  <2>2. client.state \in {"opening", "open"} => client.engine \in Engine /\ client.engine # e
    BY <1>1, <1>7, EngineHeard DEF Manager, ClientState
  <2>3. Manager(client, es)
    BY <1>1, <1>4, <2>2 DEF Manager
  <2> QED
    BY <1>1, <1>4, <2>1, <2>3 DEF Consistent, Listening, Manager, Sockets
<1> QED
  BY <1>6, <1>7

LEMMA EngineFailsStep ==
  ASSUME IInv, NEW e \in Engine, EngineFails(e)
  PROVE  Consistent(client, engines)'
<1>1. /\ Consistent(client, engines) /\ client.resume = Nothing
      /\ engines[e].state = "opening" /\ Closed \in EngineState
  BY NewEngineType DEF IInv, EngineFails, Quiet
<1>2. engines' = [engines EXCEPT ![e] = Closed] /\ client' = ErrorEvent(client, e)
  BY DEF EngineFails
<1>3. Consistent(ErrorEvent(client, e), [engines EXCEPT ![e] = Closed])
  BY <1>1, ErrorEventConsistent
<1> QED
  BY <1>2, <1>3 DEF Consistent, Listening, Manager, Sockets

LEMMA TimesOutStep ==
  ASSUME IInv, NEW e \in Engine, TimesOut(e)
  PROVE  Consistent(client, engines)'
<1> DEFINE c == [client EXCEPT !.subs = {s \in @ : s.sub # "open"}]
           s == IF engines[e].out = <<>> THEN Closed ELSE [engines[e] EXCEPT !.state = "stalled"]
<1>1. /\ Consistent(client, engines) /\ client.resume = Nothing
      /\ Timeout(e) \in client.subs
  BY DEF IInv, TimesOut, Quiet
<1>2. engines[e].state = "opening"
  BY <1>1 DEF Consistent, Manager, Timeout
<1>3. s \in EngineState
  BY <1>1, NewEngineType DEF Consistent, EngineState
<1>4. engines' = [engines EXCEPT ![e] = s] /\ client' = ErrorEvent(c, e)
  BY <1>1 DEF TimesOut, Consistent
<1>5. c \in {client, c}
  OBVIOUS
<1> HIDE DEF s
<1>6. Consistent(ErrorEvent(c, e), [engines EXCEPT ![e] = s])
  BY <1>1, <1>2, <1>3, ErrorEventConsistent
<1> QED
  BY <1>4, <1>6 DEF Consistent, Listening, Manager, Sockets

LEMMA EngineLostStep ==
  ASSUME IInv, NEW e \in Engine, EngineLost(e)
  PROVE  Consistent(client, engines)'
<1>1. /\ Consistent(client, engines) /\ client.resume = Nothing
      /\ engines[e].state \in {"open", "closing", "stalled"}
  BY DEF IInv, EngineLost, Quiet
<1>2. engines' = [engines EXCEPT ![e] = Closed] /\ client' = CloseEvent(client, e)
  BY DEF EngineLost
<1>3. Consistent(CloseEvent(client, e), [engines EXCEPT ![e] = Closed])
  BY <1>1, CloseEventConsistent
<1> QED
  BY <1>2, <1>3 DEF Consistent, Listening, Manager, Sockets

LEMMA DrainStep ==
  ASSUME IInv, NEW e \in Engine, Drain(e)
  PROVE  Consistent(client, engines)'
<1>1. /\ Consistent(client, engines) /\ client.resume = Nothing
      /\ engines[e].state \in {"open", "closing"} /\ engines \in [Engine -> EngineState]
  BY DEF IInv, Drain, Quiet, Consistent
<1>2. CASE engines[e].state = "closing"
  <2>1. engines' = [engines EXCEPT ![e] = Closed] /\ client' = CloseEvent(client, e)
    BY <1>2 DEF Drain
  <2>2. Consistent(CloseEvent(client, e), [engines EXCEPT ![e] = Closed])
    BY <1>1, CloseEventConsistent
  <2> QED
    BY <2>1, <2>2 DEF Consistent, Listening, Manager, Sockets
<1>3. CASE engines[e].state = "open"
  <2> DEFINE s == Served(engines[e])
  <2>1. client' = client /\ engines' = [engines EXCEPT ![e] = s]
    BY <1>3 DEF Drain
  <2>2. engines[e] \in EngineState /\ names \in BOOLEAN
    BY <1>1 DEF IInv, Counted
  <2>3. s \in EngineState /\ s.state = engines[e].state
    BY <2>2, ServedFacts DEF Stage
  <2> HIDE DEF s
  <2>4. engines' \in [Engine -> EngineState]
        /\ \A x \in Engine : engines'[x].state = engines[x].state
    BY <1>1, <2>1, <2>3
  <2>5. Consistent(client, engines')
    BY <1>1, <2>4, SameStates
  <2> QED
    BY <2>1, <2>5 DEF Consistent, Listening, Manager, Sockets
<1> QED
  BY <1>1, <1>2, <1>3

LEMMA ReceiveStep ==
  ASSUME IInv, NEW e \in Engine, Receive(e)
  PROVE  Consistent(client, engines)'
<1> DEFINE q == engines[e].replies
           n == Head(q)
           c == [client EXCEPT !.connected = @ \cup {n}, !.resume = Connecting(n)]
           s == [engines[e] EXCEPT !.replies = Tail(q)]
<1>1. client \in ClientState /\ engines \in [Engine -> EngineState]
      /\ Listening(client) /\ Manager(client, engines) /\ Sockets(client)
      /\ Consistent(client, engines)
      /\ client.resume.call = "none" /\ engines[e].state = "open" /\ q # <<>>
      /\ Live(e) \in client.subs
  BY DEF IInv, Consistent, Receive, Quiet, Nothing
<1>2. q \in Seq(Nsp)
  BY <1>1 DEF EngineState
<1>3. n \in Nsp /\ Tail(q) \in Seq(Nsp)
  BY <1>1, <1>2, HeadTailProperties
<1>4. engines' = [engines EXCEPT ![e] = s] /\ client' = IF Listens(n) THEN c ELSE client
  BY <1>1 DEF Receive
<1>5. s \in EngineState /\ s.state = engines[e].state
  <2>1. engines[e] \in EngineState
    BY <1>1
  <2> HIDE DEF q
  <2> QED
    BY <1>3, <2>1 DEF EngineState
<1> HIDE DEF s, n, q
<1>6. engines' \in [Engine -> EngineState]
      /\ \A x \in Engine : engines'[x].state = engines[x].state
  BY <1>1, <1>4, <1>5
<1>7. client.state = "open"
  BY <1>1 DEF Manager
<1>8. CASE Listens(n)
  <2>1. Connecting(n) \in Resumes /\ Connecting(n).call = "onconnect"
    BY <1>3, ResumesType DEF Connecting
  <2>2. /\ c \in ClientState /\ c.listening = client.listening
        /\ c.connected = client.connected \cup {n} /\ c.made = client.made
        /\ c.state = client.state /\ c.engine = client.engine
        /\ c.subs = client.subs /\ c.resume = Connecting(n)
    BY <1>1, <1>3, <2>1 DEF ClientState
  <2> HIDE DEF c
  <2>3. n \in ToSet(client.listening)
    BY <1>1, <1>8, ListensIs
  <2>4. Listening(c) /\ Sockets(c)
    BY <1>1, <1>7, <2>1, <2>2, <2>3 DEF Listening, Sockets
  <2>5. client.engine # 0
    BY <1>1, <1>7 DEF Manager
  <2>6. Manager(c, engines)
    BY <1>1, <1>7, <2>1, <2>2, <2>5 DEF Manager
  <2>7. Consistent(c, engines)
    BY <1>1, <2>2, <2>4, <2>6 DEF Consistent
  <2>8. Consistent(c, engines')
    BY <1>6, <2>7, SameStates
  <2> QED
    BY <1>4, <1>8, <2>8 DEF Consistent, Listening, Manager, Sockets
<1>9. CASE ~Listens(n)
  <2>1. Consistent(client, engines')
    BY <1>1, <1>6, SameStates
  <2> QED
    BY <1>4, <1>9, <2>1 DEF Consistent, Listening, Manager, Sockets
<1> QED
  BY <1>8, <1>9

LEMMA DelayEndsStep ==
  ASSUME IInv, DelayEnds
  PROVE  Consistent(client, engines)'
<1> DEFINE r == IF client.skip THEN Nothing ELSE Attempting
           c == [client EXCEPT !.subs = @ \ {Delay}, !.resume = r]
<1>1. client \in ClientState /\ engines \in [Engine -> EngineState]
      /\ Listening(client) /\ Manager(client, engines) /\ Sockets(client)
      /\ client.resume.call = "none" /\ Delay \in client.subs
      /\ client' = c /\ engines' = engines
  BY DEF IInv, Consistent, DelayEnds, Quiet, Nothing
<1>2. r \in Resumes /\ r.call \in {"none", "attempt"}
  BY ResumesType DEF Nothing, Attempting
<1> HIDE DEF r
<1>3. /\ c \in ClientState /\ c.listening = client.listening
      /\ c.connected = client.connected /\ c.made = client.made
      /\ c.state = client.state /\ c.engine = client.engine
      /\ c.subs = client.subs \ {Delay} /\ c.resume = r
  BY <1>1, <1>2 DEF ClientState
<1> HIDE DEF c
<1>4. client.state # "open"
  BY <1>1 DEF Manager, Delay, Live
<1>5. Listening(c) /\ Sockets(c)
  BY <1>1, <1>2, <1>3 DEF Listening, Sockets
<1>6. \A e \in Engine : \A fn \in BOOLEAN :
        Delay \notin {Opening(e, fn), Failing(e, fn), Timeout(e), Live(e)}
  BY DEF Delay, Opening, Failing, Timeout, Live
<1>7. client.state = "opening" => client.engine \in Engine
  BY <1>1 DEF Manager, ClientState
<1>8. Manager(c, engines)
  BY <1>1, <1>2, <1>3, <1>4, <1>6, <1>7 DEF Manager
<1> QED
  BY <1>1, <1>3, <1>5, <1>8 DEF Consistent, Listening, Manager, Sockets

LEMMA CountedStep == IInv /\ [Next]_vars => Counted'
<1> SUFFICES ASSUME IInv, [Next]_vars PROVE Counted'
  OBVIOUS
<1> USE DEF IInv, Counted
<1>1. CASE UNCHANGED vars
  BY <1>1 DEF vars
<1>2. ASSUME NEW n \in Nsp, Connect(n) PROVE Counted'
  <2>1. calls' \in 0..MaxCalls /\ emitted' = emitted /\ eager' = eager /\ names' = names
    BY <1>2, ClientAssumption DEF Connect
  <2>2. failed' = failed \/ failed' = FALSE
    BY <1>2, Zenon DEF Connect
  <2> QED
    BY <2>1, <2>2
<1>3. ASSUME NEW n \in Nsp, Disconnect(n) PROVE Counted'
  BY <1>3, ClientAssumption DEF Disconnect
<1>4. ASSUME NEW n \in Nsp, Emit(n) PROVE Counted'
  <2>1. emitted + 1 \in 1..MaxEmits /\ emitted' = emitted + 1
        /\ UNCHANGED <<calls, failed, names>>
    BY <1>4, ClientAssumption DEF Emit
  <2>2. eager' = eager \/ eager' = eager \cup {emitted + 1}
    BY <1>4 DEF Emit
  <2>3. emitted' \in 0..MaxEmits
    BY <2>1, ClientAssumption
  <2>4. eager' \subseteq 1..MaxEmits
    BY <2>1, <2>2
  <2> QED
    BY <2>1, <2>3, <2>4, Zenon
<1>5. CASE OnCloseReturns
  BY <1>5, Zenon DEF OnCloseReturns
<1>6. CASE OnConnectReturns
  BY <1>6 DEF OnConnectReturns
<1>7. CASE AttemptReturns
  BY <1>7 DEF AttemptReturns
<1>8. CASE ConnectErrorReturns
  BY <1>8, Zenon DEF ConnectErrorReturns
<1>9. ASSUME NEW e \in Engine,
             EngineOpens(e) \/ EngineFails(e) \/ TimesOut(e) \/ EngineLost(e)
               \/ Drain(e) \/ Receive(e)
      PROVE  Counted'
  <2>1. UNCHANGED <<calls, emitted, eager, failed, names>>
    BY <1>9 DEF EngineOpens, EngineFails, TimesOut, EngineLost, Drain, Receive
  <2> QED
    BY <2>1
<1>10. CASE DelayEnds
  BY <1>10 DEF DelayEnds
<1> QED
  BY <1>1, <1>2, <1>3, <1>4, <1>5, <1>6, <1>7, <1>8, <1>9, <1>10
  DEF Next, ApplicationStep, CallbackReturns, EngineStep

LEMMA IInvInit == Init => IInv
<1> SUFFICES ASSUME Init PROVE IInv
  OBVIOUS
<1>1. client \in ClientState
  <2>1. <<>> \in Seq(Nsp) /\ <<>> \in Seq(1..MaxEmits) /\ 0 \in 0..Attempts
    BY EmptySeq, ClientAssumption
  <2> QED
    BY <2>1, ResumesType DEF Init, ClientState
<1>2. engines \in [Engine -> EngineState]
  BY NewEngineType DEF Init
<1>3. client.listening = <<>> /\ client.connected = {} /\ client.subs = {}
      /\ client.state = "closed" /\ client.resume.call = "none" /\ client.made = {}
  BY DEF Init, Nothing
<1>4. ToSet(client.listening) = {} /\ IsInjective(client.listening)
  <2>1. DOMAIN <<>> = {}
    OBVIOUS
  <2> QED
    BY <1>3, <2>1, ToSetEmpty DEF IsInjective
<1>5. Listening(client) /\ Manager(client, engines) /\ Sockets(client)
  BY <1>3, <1>4 DEF Listening, Manager, Sockets
<1>6. Counted
  <2>1. calls = 0 /\ emitted = 0 /\ eager = {} /\ names \in BOOLEAN /\ failed \in BOOLEAN
    BY Zenon DEF Init
  <2> QED
    BY <2>1, ClientAssumption DEF Counted
<1> QED
  BY <1>1, <1>2, <1>5, <1>6 DEF IInv, Consistent

LEMMA IInvStep == IInv /\ [Next]_vars => IInv'
<1> SUFFICES ASSUME IInv, [Next]_vars PROVE IInv'
  OBVIOUS
<1>1. Counted'
  BY CountedStep
<1>2. Consistent(client, engines)'
  <2>1. CASE UNCHANGED vars
    BY <2>1 DEF vars, IInv, Consistent, Listening, Manager, Sockets
  <2>2. CASE ApplicationStep
    BY <2>2, ConnectStep, DisconnectStep, EmitStep DEF ApplicationStep
  <2>3. CASE CallbackReturns
    BY <2>3, OnCloseReturnsStep, OnConnectReturnsStep, AttemptReturnsStep,
       ConnectErrorReturnsStep DEF CallbackReturns
  <2>4. CASE EngineStep
    BY <2>4, EngineOpensStep, EngineFailsStep, TimesOutStep, EngineLostStep,
       DrainStep, ReceiveStep DEF EngineStep
  <2>5. CASE DelayEnds
    BY <2>5, DelayEndsStep
  <2> QED
    BY <2>1, <2>2, <2>3, <2>4, <2>5 DEF Next
<1> QED
  BY <1>1, <1>2 DEF IInv

\* What the Manager, its engines and its sockets know of one another, whatever
\* the order of calls, callbacks, timers and events of the engines.
THEOREM ClientInvariant == Spec => []IInv
BY IInvInit, IInvStep, PTL DEF Spec

\* The Manager, its engine and its sockets always agree on whether there is a
\* connection, for any number of namespaces, engines, calls and attempts: a
\* Manager that is open (Manager.onopen to Manager.onclose) listens to its
\* engine, which is open, and a socket is connected only then or until the
\* `close' event has reached it.
THEOREM ClientAgrees == Spec => []ConnectionAgrees
<1>1. IInv => ConnectionAgrees
  <2> SUFFICES ASSUME IInv PROVE ConnectionAgrees
    OBVIOUS
  <2>1. TypeOK
    BY DEF IInv, Consistent, Listening, Counted, TypeOK
  <2>2. client.state = "open" =>
          engines[client.engine].state = "open" /\ Live(client.engine) \in client.subs
    BY DEF IInv, Consistent, Manager
  <2>3. client.connected # {} => client.state = "open" \/ client.resume.call = "onclose"
    BY DEF IInv, Consistent, Sockets
  <2> QED
    BY <2>1, <2>2, <2>3 DEF ConnectionAgrees
<1> QED
  BY <1>1, ClientInvariant, PTL

-----------------------------------------------------------------------------
(* How a connection is orphaned.                                           *)

\* An engine that somebody listens to is the Manager's, or is not alive.
LEMMA HeardIsOwn ==
  ASSUME IInv, NEW e \in Engine, engines[e].state \in Alive,
         \E s \in client.subs : s.engine = e
  PROVE  client.state \in {"opening", "open"} /\ e = client.engine
<1>1. PICK s \in client.subs : s.engine = e
  OBVIOUS
<1>2. e # 0 /\ s \in Subs
  BY Numbered DEF IInv, Consistent, ClientState
<1>3. s.sub \in {"open", "error", "timeout"} \/ s = Live(e)
  BY <1>1, <1>2 DEF Subs, Delay, Opening, Failing, Timeout, Live
<1>4. CASE s.sub \in {"open", "error", "timeout"}
  BY <1>1, <1>4 DEF IInv, Consistent, Manager
<1>5. CASE s = Live(e)
  BY <1>1, <1>5 DEF IInv, Consistent, Manager, Alive
<1> QED
  BY <1>3, <1>4, <1>5

\* Manager.close leaves its engine no longer alive, and the others as they are.
LEMMA CloseManagerStates ==
  ASSUME NEW c, NEW es \in [Engine -> EngineState], c.engine \in Engine,
         NEW waits \in BOOLEAN, CloseManager(c, es, waits)
  PROVE  /\ engines'[c.engine].state \notin Alive
         /\ \A x \in Engine : x # c.engine => engines'[x] = es[x]
<1> DEFINE e == c.engine
           old == es[e].state
           new == CASE old \notin Alive -> old
                    [] old \in Alive /\ ~waits -> "closed"
                    [] old = "open" /\ waits -> "closing"
                    [] old = "opening" /\ waits -> "stalled"
<1>1. engines' = [es EXCEPT ![e] = IF new = "closed" THEN Closed
                                   ELSE [@ EXCEPT !.state = new]]
  BY DEF CloseManager
<1>2. es[e] \in EngineState
  OBVIOUS
<1>3. new \notin Alive
  BY <1>2 DEF EngineState, Alive
<1> HIDE DEF new, old
<1>4. [es[e] EXCEPT !.state = new].state = new
  BY <1>2 DEF EngineState
<1>5. engines'[e].state \in {"closed", new}
  <2>1. CASE new = "closed"
    BY <1>1, <2>1 DEF Closed, NewEngine
  <2>2. CASE new # "closed"
    BY <1>1, <1>4, <2>2
  <2> QED
    BY <2>1, <2>2
<1> QED
  BY <1>1, <1>3, <1>5 DEF Alive

\* The listeners of engine e are all there after the step.
Kept(e) == \A s \in client.subs : s.engine = e => s \in client'.subs

\* A step that keeps them orphans nothing that was alive; nor does the step
\* that starts an engine.
LEMMA KeptNotOrphaned ==
  ASSUME NEW e, ~Orphan(e), Orphan(e)', Kept(e)
  PROVE  engines[e].state \notin Alive
BY DEF Kept, Orphan

LEMMA OpenedNotOrphaned ==
  ASSUME NEW c \in ClientState, NEW d \in Engine, NEW fn \in BOOLEAN, NEW e \in Engine,
         c.subs = client.subs, client' = OpenOn(c, d, fn),
         engines \in [Engine -> EngineState], engines' = [engines EXCEPT ![d] = NewEngine],
         ~Orphan(e), Orphan(e)'
  PROVE  FALSE
<1>1. client'.subs = client.subs \cup {Opening(d, fn), Failing(d, fn), Timeout(d)}
  BY OpenOnFacts
<1>2. e # d
  <2>1. Opening(d, fn) \in client'.subs /\ Opening(d, fn).engine = d
    BY <1>1 DEF Opening
  <2> QED
    BY <2>1 DEF Orphan
<1>3. engines'[e] = engines[e] /\ Kept(e)
  BY <1>1, <1>2 DEF Kept
<1> QED
  BY <1>3, KeptNotOrphaned DEF Orphan

\* A `close' event takes the listeners of another engine away only when it is
\* that of an engine which was closing.
LEMMA CloseEventOrphans ==
  ASSUME IInv, NEW d \in Engine, NEW e \in Engine,
         client' = CloseEvent(client, d), engines' = [engines EXCEPT ![d] = Closed],
         ~Orphan(e), Orphan(e)'
  PROVE  d # e /\ engines[d].state = "closing" /\ engines'[d].state = "closed"
<1>1. client \in ClientState /\ engines \in [Engine -> EngineState]
      /\ Manager(client, engines)
  BY DEF IInv, Consistent
<1>2. engines'[d].state = "closed" /\ \A x \in Engine : x # d => engines'[x] = engines[x]
  BY <1>1 DEF Closed, NewEngine
<1>3. e # d /\ engines[e].state \in Alive
  BY <1>2 DEF Orphan, Alive
<1>4. e = client.engine
  BY <1>3, HeardIsOwn DEF Orphan
<1>5. Live(d) \in client.subs
  <2> SUFFICES ASSUME Live(d) \notin client.subs PROVE FALSE
    OBVIOUS
  <2>1. client' = client
    BY DEF CloseEvent
  <2> QED
    BY <1>3, <2>1, KeptNotOrphaned DEF Kept
<1> QED
  BY <1>1, <1>2, <1>3, <1>4, <1>5 DEF Manager

\* An `error' event takes only those of its own engine.
LEMMA ErrorEventOrphans ==
  ASSUME IInv, NEW d \in Engine, NEW e \in Engine, NEW c \in ClientState,
         c.subs \in {client.subs, {x \in client.subs : x.sub # "open"}},
         c.subs = client.subs \/ Timeout(d) \in client.subs,
         client' = ErrorEvent(c, d), NEW s, s.state \notin Alive,
         engines' = [engines EXCEPT ![d] = s], ~Orphan(e), Orphan(e)'
  PROVE  FALSE
<1>1. client \in ClientState /\ engines \in [Engine -> EngineState]
      /\ Manager(client, engines)
  BY DEF IInv, Consistent
<1>2. engines'[d].state \notin Alive /\ \A x \in Engine : x # d => engines'[x] = engines[x]
  BY <1>1
<1>3. e # d /\ engines[e].state \in Alive
  BY <1>2 DEF Orphan
<1>4. e = client.engine
  BY <1>3, HeardIsOwn DEF Orphan
<1>5. \A fn \in BOOLEAN : Failing(d, fn) \notin client.subs
  BY <1>1, <1>3, <1>4 DEF Manager, Failing
<1>6. Timeout(d) \notin client.subs
  BY <1>1, <1>3, <1>4 DEF Manager, Timeout
<1>7. c.subs = client.subs /\ client' = c
  BY <1>5, <1>6 DEF ErrorEvent
<1> QED
  BY <1>3, <1>7, KeptNotOrphaned DEF Kept

LEMMA OrphanStep ==
  ASSUME IInv, [Next]_vars, NEW e \in Engine, ~Orphan(e), Orphan(e)'
  PROVE  \E d \in Engine \ {e} :
           engines[d].state = "closing" /\ engines'[d].state = "closed"
<1> DEFINE Claim == \E d \in Engine \ {e} :
                      engines[d].state = "closing" /\ engines'[d].state = "closed"
<1>1. /\ client \in ClientState /\ engines \in [Engine -> EngineState]
      /\ Listening(client) /\ Manager(client, engines)
      /\ names \in BOOLEAN /\ engines'[e].state \in Alive
  BY DEF IInv, Consistent, Counted, Orphan
\* Most steps keep the listeners, and the states of the engines.
<1>2. ASSUME Kept(e), engines'[e].state = engines[e].state PROVE FALSE
  BY <1>1, <1>2, KeptNotOrphaned
<1>3. CASE UNCHANGED vars
  BY <1>2, <1>3 DEF Kept, vars
<1>4. ASSUME NEW n \in Nsp, Connect(n) PROVE FALSE
  <2> DEFINE c == [client EXCEPT !.made = @ \cup {n},
                     !.listening = IF Listens(n) THEN @ ELSE Append(@, n)]
  <2>1. /\ c \in ClientState /\ c.subs = client.subs
        /\ c.state = client.state /\ c.engine = client.engine
    <3>1. Append(client.listening, n) \in Seq(Nsp) /\ client.listening \in Seq(Nsp)
      BY <1>1, AppendProperties DEF ClientState
    <3>2. client.made \cup {n} \in SUBSET Nsp
      BY <1>1 DEF ClientState
    <3> QED
      BY <1>1, <3>1, <3>2 DEF ClientState
  <2>2. \/ /\ c.state \in Alive /\ client' = c
           /\ engines' \in {engines, Write(engines, c, <<ConnectPacket(n)>>)}
        \/ /\ Free(c) # {} /\ client' = OpenOn(c, NewNumber(c), FALSE)
           /\ engines' = [engines EXCEPT ![NewNumber(c)] = NewEngine]
    BY <1>4 DEF Connect
  <2> HIDE DEF c
  <2>3. CASE /\ c.state \in Alive /\ client' = c
             /\ engines' \in {engines, Write(engines, c, <<ConnectPacket(n)>>)}
    <3> DEFINE ps == <<ConnectPacket(n)>>
    <3>1. ps \in Seq(Packet) /\ engines' \in {engines, Write(engines, c, ps)}
      BY <2>3, Packets
    <3>2. c.engine \in Engine
      BY <1>1, <2>1, <2>3 DEF Manager, Alive, ClientState
    <3> HIDE DEF ps
    <3>3. engines'[e].state = engines[e].state
      BY <1>1, <2>1, <3>1, <3>2, WriteFacts
    <3> QED
      BY <1>2, <2>1, <2>3, <3>3 DEF Kept
  <2>4. CASE /\ Free(c) # {} /\ client' = OpenOn(c, NewNumber(c), FALSE)
             /\ engines' = [engines EXCEPT ![NewNumber(c)] = NewEngine]
    <3> DEFINE d == NewNumber(c)
    <3>1. d \in Engine
      BY <2>4, NewNumberFree DEF Free
    <3> HIDE DEF d
    <3> QED
      BY <1>1, <2>1, <2>4, <3>1, OpenedNotOrphaned DEF d
  <2> QED
    BY <2>2, <2>3, <2>4
<1>5. ASSUME NEW n \in Nsp, Disconnect(n) PROVE FALSE
  <2>1. PICK i \in 1..Len(client.listening) :
          LET c == [client EXCEPT !.listening = RemoveAt(@, i), !.connected = @ \ {n}]
              es == IF n \in client.connected
                    THEN Write(engines, client, <<DisconnectPacket(n)>>) ELSE engines
          IN  IF c.listening # <<>> THEN client' = c /\ engines' = es
              ELSE \E waits \in BOOLEAN : CloseManager(c, es, waits)
    BY <1>5 DEF Disconnect
  <2> DEFINE c == [client EXCEPT !.listening = RemoveAt(@, i), !.connected = @ \ {n}]
             es == IF n \in client.connected
                   THEN Write(engines, client, <<DisconnectPacket(n)>>) ELSE engines
  <2>2. c.subs = client.subs /\ c.engine = client.engine
    BY <1>1 DEF ClientState
  <2>3. client.engine \in Engine
    <3>1. client.listening # <<>>
      BY <2>1, EmptySeq
    <3> QED
      BY <1>1, <3>1 DEF Manager, ClientState
  <2>4. es \in [Engine -> EngineState] /\ \A x \in Engine : es[x].state = engines[x].state
    <3>1. CASE n \in client.connected
      <4> DEFINE ps == <<DisconnectPacket(n)>>
      <4>1. ps \in Seq(Packet) /\ es = Write(engines, client, ps)
        BY <3>1, Packets
      <4> HIDE DEF ps, es
      <4> QED
        BY <1>1, <2>3, <4>1, WriteFacts
    <3>2. CASE n \notin client.connected
      BY <1>1, <3>2
    <3> QED
      BY <3>1, <3>2
  <2>5. \/ client' = c /\ engines' = es
        \/ \E waits \in BOOLEAN : CloseManager(c, es, waits)
    BY <2>1
  <2> HIDE DEF c, es
  <2>6. CASE client' = c /\ engines' = es
    BY <1>2, <2>2, <2>4, <2>6 DEF Kept
  <2>7. CASE \E waits \in BOOLEAN : CloseManager(c, es, waits)
    <3>1. /\ engines'[client.engine].state \notin Alive
          /\ \A x \in Engine : x # client.engine => engines'[x] = es[x]
      BY <2>2, <2>3, <2>4, <2>7, CloseManagerStates
    <3>2. e # client.engine /\ engines[e].state \in Alive
      BY <1>1, <2>4, <3>1
    <3> QED
      BY <3>2, HeardIsOwn DEF Orphan
  <2> QED
    BY <2>5, <2>6, <2>7
<1>6. ASSUME NEW n \in Nsp, Emit(n) PROVE FALSE
  <2>1. client'.subs = client.subs
    BY <1>1, <1>6 DEF Emit, ClientState
  <2>2. engines'[e].state = engines[e].state
    <3>1. CASE n \in client.connected
      <4> DEFINE ps == <<EventPacket(n, emitted + 1)>>
      <4>1. emitted + 1 \in 0..MaxEmits
        BY <1>6, ClientAssumption DEF Emit, IInv, Counted
      <4>2. ps \in Seq(Packet) /\ engines' = Write(engines, client, ps)
        BY <1>6, <3>1, <4>1, Packets DEF Emit
      <4>3. client.engine \in Engine
        BY <1>1, <3>1, ToSetEmpty DEF Manager, Listening, ClientState
      <4> HIDE DEF ps
      <4> QED
        BY <1>1, <4>2, <4>3, WriteFacts
    <3>2. CASE n \notin client.connected
      BY <1>6, <3>2 DEF Emit
    <3> QED
      BY <3>1, <3>2
  <2> QED
    BY <1>2, <2>1, <2>2 DEF Kept
<1>7. CASE OnCloseReturns
  <2> DEFINE done == [client EXCEPT !.resume = Nothing]
  <2>1. done \in ClientState /\ done.subs = client.subs
    BY <1>1, ResumesType DEF ClientState
  <2>2. engines' = engines /\ (client'.subs = client.subs \/ client' = Reconnect(done))
    BY <1>1, <1>7 DEF OnCloseReturns, ClientState
  <2> HIDE DEF done
  <2>3. client.subs \subseteq client'.subs
    BY <2>1, <2>2, ReconnectFacts
  <2> QED
    BY <1>2, <2>2, <2>3 DEF Kept
<1>8. CASE OnConnectReturns
  <2> DEFINE n == client.resume.nsp
             queue == client.buffer[n]
             ps == [i \in 1..Len(queue) |-> EventPacket(n, queue[i])]
  <2>1. client'.subs = client.subs
    BY <1>1, <1>8 DEF OnConnectReturns, ClientState
  <2>2. engines'[e].state = engines[e].state
    <3>1. engines' = Write(engines, client, ps) /\ client.engine \in Engine
      BY <1>1, <1>8 DEF OnConnectReturns, Manager, ClientState
    <3> HIDE DEF ps
    <3>2. \A x \in Engine : Write(engines, client, ps)[x].state = engines[x].state
      BY <1>1, <3>1 DEF Write, EngineState
    <3> QED
      BY <3>1, <3>2
  <2> QED
    BY <1>2, <2>1, <2>2 DEF Kept
<1>9. CASE AttemptReturns
  <2> DEFINE c == [client EXCEPT !.resume = Nothing]
  <2>1. c \in ClientState /\ c.subs = client.subs
    BY <1>1, ResumesType DEF ClientState
  <2>2. \/ client' = c /\ engines' = engines
        \/ /\ Free(c) # {} /\ client' = OpenOn(c, NewNumber(c), TRUE)
           /\ engines' = [engines EXCEPT ![NewNumber(c)] = NewEngine]
    BY <1>9 DEF AttemptReturns
  <2> HIDE DEF c
  <2>3. CASE client' = c /\ engines' = engines
    BY <1>2, <2>1, <2>3 DEF Kept
  <2>4. CASE /\ Free(c) # {} /\ client' = OpenOn(c, NewNumber(c), TRUE)
             /\ engines' = [engines EXCEPT ![NewNumber(c)] = NewEngine]
    <3> DEFINE d == NewNumber(c)
    <3>1. d \in Engine
      BY <2>4, NewNumberFree DEF Free
    <3> HIDE DEF d
    <3> QED
      BY <1>1, <2>1, <2>4, <3>1, OpenedNotOrphaned DEF d
  <2> QED
    BY <2>2, <2>3, <2>4
<1>10. CASE ConnectErrorReturns
  <2> DEFINE c == [client EXCEPT !.resume = Nothing]
             retry == [c EXCEPT !.reconnecting = FALSE]
  <2>1. /\ c \in ClientState /\ c.subs = client.subs
        /\ retry \in ClientState /\ retry.subs = client.subs
    BY <1>1, ResumesType DEF ClientState
  <2>2. engines' = engines
        /\ (client' = Reconnect(retry) \/ client' = MaybeReconnectOnOpen(c))
    BY <1>10 DEF ConnectErrorReturns
  <2> HIDE DEF c, retry
  <2>3. client' \in {c, Reconnect(c), Reconnect(retry)}
    BY <2>2 DEF MaybeReconnectOnOpen
  <2>4. client.subs \subseteq client'.subs
    BY <2>1, <2>3, ReconnectFacts
  <2> QED
    BY <1>2, <2>2, <2>4 DEF Kept
<1>11. ASSUME NEW d \in Engine, EngineOpens(d) PROVE FALSE
  <2> DEFINE heard == \E fn \in BOOLEAN : Opening(d, fn) \in client.subs
  <2>1. engines[d].state = "opening"
    BY <1>11 DEF EngineOpens
  <2>2. ASSUME NEW x \in Engine, x # d PROVE engines'[x].state = engines[x].state
    BY <1>1, <1>11, <2>2 DEF EngineOpens, Write
  <2>3. CASE heard
    <3>1. client.state = "opening" /\ d = client.engine
      BY <2>1, <2>3, EngineHeard
    <3> DEFINE own == Opening(d, TRUE) \in client.subs
    <3>2. own \in BOOLEAN
      OBVIOUS
    <3>6. client' = IF heard THEN OnOpen(client, own) ELSE client
      BY <1>11 DEF EngineOpens
    <3> HIDE DEF own
    <3>7. client' = OnOpen(client, own)
      BY <3>6, <2>3
    <3>3. client'.subs = {Live(d)}
      BY <1>1, <3>1, <3>2, <3>7, OnOpenFacts
    <3>4. e # d
      BY <3>3 DEF Orphan, Live
    <3>5. engines[e].state \in Alive
      BY <1>1, <2>2, <3>4
    <3> QED
      BY <3>1, <3>4, <3>5, HeardIsOwn DEF Orphan
  <2>4. CASE ~heard
    <3>1. client' = client
      BY <1>11, <2>4 DEF EngineOpens
    <3>2. CASE e = d
      <4>1. client.state \in {"opening", "open"} /\ d = client.engine
        BY <2>1, <3>2, HeardIsOwn DEF Orphan, Alive
      <4> QED
        BY <2>1, <2>4, <4>1, EngineHeard
    <3>3. CASE e # d
      BY <1>2, <2>2, <3>1, <3>3 DEF Kept
    <3> QED
      BY <3>2, <3>3
  <2> QED
    BY <2>3, <2>4
<1>12. ASSUME NEW d \in Engine, EngineFails(d) PROVE FALSE
  <2>1. engines' = [engines EXCEPT ![d] = Closed] /\ client' = ErrorEvent(client, d)
        /\ Closed.state \notin Alive
    BY <1>12 DEF EngineFails, Closed, NewEngine, Alive
  <2> QED
    BY <1>1, <2>1, ErrorEventOrphans
<1>13. ASSUME NEW d \in Engine, TimesOut(d) PROVE FALSE
  <2> DEFINE c == [client EXCEPT !.subs = {x \in @ : x.sub # "open"}]
             s == IF engines[d].out = <<>> THEN Closed
                  ELSE [engines[d] EXCEPT !.state = "stalled"]
  <2>1. c \in ClientState /\ c.subs = {x \in client.subs : x.sub # "open"}
    BY <1>1 DEF ClientState
  <2>2. s.state \notin Alive
    BY <1>1 DEF Closed, NewEngine, Alive, EngineState
  <2>3. engines' = [engines EXCEPT ![d] = s] /\ client' = ErrorEvent(c, d)
        /\ Timeout(d) \in client.subs
    BY <1>1, <1>13 DEF TimesOut
  <2> HIDE DEF c, s
  <2> QED
    BY <2>1, <2>2, <2>3, ErrorEventOrphans
<1>14. ASSUME NEW d \in Engine, EngineLost(d) PROVE Claim
  <2>1. engines' = [engines EXCEPT ![d] = Closed] /\ client' = CloseEvent(client, d)
    BY <1>14 DEF EngineLost
  <2> QED
    BY <2>1, CloseEventOrphans
<1>15. ASSUME NEW d \in Engine, Drain(d) PROVE Claim
  <2>1. CASE engines[d].state = "closing"
    <3>1. engines' = [engines EXCEPT ![d] = Closed] /\ client' = CloseEvent(client, d)
      BY <1>15, <2>1 DEF Drain
    <3> QED
      BY <3>1, CloseEventOrphans
  <2>2. CASE engines[d].state # "closing"
    <3> DEFINE s == Served(engines[d])
    <3>1. client' = client /\ engines' = [engines EXCEPT ![d] = s]
      BY <1>15, <2>2 DEF Drain
    <3>2. s.state = engines[d].state
      BY <1>1, ServedFacts DEF Stage
    <3> HIDE DEF s
    <3>3. engines'[e].state = engines[e].state
      BY <1>1, <3>1, <3>2
    <3> QED
      BY <1>2, <3>1, <3>3 DEF Kept
  <2> QED
    BY <2>1, <2>2
<1>16. ASSUME NEW d \in Engine, Receive(d) PROVE FALSE
  <2>1. client'.subs = client.subs
    BY <1>1, <1>16 DEF Receive, ClientState
  <2>2. engines'[e].state = engines[e].state
    BY <1>1, <1>16 DEF Receive, EngineState
  <2> QED
    BY <1>2, <2>1, <2>2 DEF Kept
<1>17. CASE DelayEnds
  <2>1. engines' = engines /\ client'.subs = client.subs \ {Delay}
    BY <1>1, <1>17 DEF DelayEnds, ClientState
  <2>2. Delay.engine # e
    BY Numbered DEF Delay
  <2> QED
    BY <1>2, <2>1, <2>2 DEF Kept
<1> QED
  BY <1>3, <1>4, <1>5, <1>6, <1>7, <1>8, <1>9, <1>10, <1>11, <1>12, <1>13,
     <1>14, <1>15, <1>16, <1>17
  DEF Next, ApplicationStep, CallbackReturns, EngineStep

\* A connection loses its last listener in one way only, whatever the order of
\* calls, callbacks, timers and losses: the `close' event of the engine before
\* it, which was still closing, reaches Manager.onclose, whose cleanup takes
\* the listeners of both.
THEOREM OrphanedOneWay == Spec => OrphanedByOldEngine
<1>1. IInv /\ [Next]_vars =>
        [\A e \in Engine : ~Orphan(e) /\ Orphan(e)' =>
           \E d \in Engine \ {e} : engines[d].state = "closing"
                                    /\ engines'[d].state = "closed"]_vars
  BY OrphanStep
<1> QED
  BY <1>1, ClientInvariant, PTL DEF Spec, OrphanedByOldEngine
-----------------------------------------------------------------------------
(* Events are sent in order.                                               *)

\* The packet p of a queue and an event of namespace n, numbered k, after it.
Before(p, n, k, late) ==
  p.type = "event" /\ p.nsp = n => p.n < k \/ (p.n > k /\ p.n \in late)

\* A queue of packets, when the buffers are b and m events have been emitted:
\* it is in order, its numbers are not new, and all that is buffered may follow.
Queue(q, b, late, m) ==
  /\ InOrder(q, late)
  /\ \A i \in 1..Len(q) : q[i].n <= m
  /\ \A n \in Nsp : \A i \in 1..Len(q), k \in 1..Len(b[n]) : Before(q[i], n, b[n][k], late)

\* The numbers in the buffers rise, and are not new.
Buffered(b, m) == \A n \in Nsp : Rising(b[n], m)

\* All that was sent on a connection, whether it has arrived or not.
Sent(s) == s.heard \o s.out

Eventless(ps) == \A i \in 1..Len(ps) : ps[i].type # "event" /\ ps[i].n = 0

LEMMA PacketNumbers ==
  ASSUME NEW q \in Seq(Packet)
  PROVE  Len(q) \in Nat /\ \A i \in 1..Len(q) : q[i] \in Packet /\ q[i].n \in Nat
<1>1. \A i \in 1..Len(q) : q[i] \in Packet
  BY ElementOfSeq
<1> QED
  BY <1>1, LenProperties, ClientAssumption DEF Packet

LEMMA BufferNumbers ==
  ASSUME NEW b \in Seq(1..MaxEmits)
  PROVE  Len(b) \in Nat /\ \A i \in 1..Len(b) : b[i] \in 1..MaxEmits /\ b[i] \in Nat
<1>1. \A i \in 1..Len(b) : b[i] \in 1..MaxEmits
  BY ElementOfSeq
<1> QED
  BY <1>1, LenProperties, ClientAssumption

LEMMA ConcatPackets ==
  ASSUME NEW q \in Seq(Packet), NEW ps \in Seq(Packet)
  PROVE  /\ q \o ps \in Seq(Packet) /\ Len(q \o ps) = Len(q) + Len(ps)
         /\ \A i \in 1..Len(q \o ps) :
              (q \o ps)[i] = IF i <= Len(q) THEN q[i] ELSE ps[i - Len(q)]
BY LenProperties, ConcatProperties

LEMMA InOrderIs ==
  ASSUME NEW q, NEW late
  PROVE  InOrder(q, late) <=>
           \A i, j \in 1..Len(q) :
             i < j /\ q[j].type = "event" => Before(q[i], q[j].nsp, q[j].n, late)
BY DEF InOrder, Before

LEMMA QueueEmpty ==
  ASSUME NEW b, NEW late, NEW m
  PROVE  Queue(<<>>, b, late, m)
<1>1. Len(<<>>) = 0 /\ 1..0 = {}
  OBVIOUS
<1> QED
  BY <1>1 DEF Queue, InOrder

\* A queue that leaves packets out of another.
LEMMA QueueWithin ==
  ASSUME NEW q, NEW b, NEW late, NEW m, Queue(q, b, late, m),
         NEW r, Within(r, q, Len(q))
  PROVE  Queue(r, b, late, m)
<1>1. PICK g \in [1..Len(r) -> 1..Len(q)] :
        /\ \A i \in 1..Len(r) : r[i] = q[g[i]]
        /\ \A i, j \in 1..Len(r) : i < j => g[i] < g[j]
  BY DEF Within
<1>2. InOrder(r, late)
  BY SMTT(30), <1>1 DEF Queue, InOrder
<1>3. \A i \in 1..Len(r) : r[i].n <= m
  BY <1>1 DEF Queue
<1>4. \A n \in Nsp : \A i \in 1..Len(r), k \in 1..Len(b[n]) : Before(r[i], n, b[n][k], late)
  BY <1>1 DEF Queue
<1> QED
  BY <1>2, <1>3, <1>4 DEF Queue

\* Packets that are no events go anywhere.
LEMMA QueueEventless ==
  ASSUME NEW q \in Seq(Packet), NEW b, NEW late, NEW m \in Nat, Queue(q, b, late, m),
         NEW ps \in Seq(Packet), Eventless(ps)
  PROVE  Queue(q \o ps, b, late, m)
<1> DEFINE r == q \o ps
<1>1. /\ Len(q) \in Nat /\ Len(ps) \in Nat /\ Len(r) = Len(q) + Len(ps)
      /\ \A i \in 1..Len(r) : r[i] = IF i <= Len(q) THEN q[i] ELSE ps[i - Len(q)]
  BY PacketNumbers, ConcatPackets
<1> HIDE DEF r
<1>2. \A i \in 1..Len(r) : \/ i \in 1..Len(q) /\ r[i] = q[i]
                           \/ i \notin 1..Len(q) /\ r[i].type # "event" /\ r[i].n = 0
  BY <1>1 DEF Eventless
<1>3. InOrder(r, late)
  BY <1>2 DEF Queue, InOrder
<1>4. \A i \in 1..Len(r) : r[i].n <= m
  BY <1>2 DEF Queue
<1>5. \A n \in Nsp : \A i \in 1..Len(r), k \in 1..Len(b[n]) : Before(r[i], n, b[n][k], late)
  BY <1>2 DEF Queue, Before
<1> QED
  BY <1>3, <1>4, <1>5 DEF Queue, r

\* More may overtake, and more have been emitted.
LEMMA QueueLater ==
  ASSUME NEW q \in Seq(Packet), NEW b, NEW late, NEW more, late \subseteq more, NEW m \in Nat,
         Queue(q, b, late, m)
  PROVE  Queue(q, b, more, m + 1)
<1>1. \A i \in 1..Len(q) : q[i].n \in Nat
  BY PacketNumbers
<1>2. InOrder(q, more)
  BY DEF Queue, InOrder
<1>3. \A i \in 1..Len(q) : q[i].n <= m + 1
  BY <1>1 DEF Queue
<1>4. \A n \in Nsp : \A i \in 1..Len(q), k \in 1..Len(b[n]) : Before(q[i], n, b[n][k], more)
  BY DEF Queue, Before
<1> QED
  BY <1>2, <1>3, <1>4 DEF Queue

\* An event that is sent at once.
LEMMA QueueEvent ==
  ASSUME NEW q \in Seq(Packet), NEW b \in [Nsp -> Seq(1..MaxEmits)], NEW late,
         NEW m \in Nat, m + 1 \in 1..MaxEmits, Queue(q, b, late, m), Buffered(b, m),
         NEW n \in Nsp, NEW more, late \subseteq more, b[n] # <<>> => m + 1 \in more
  PROVE  Queue(Append(q, EventPacket(n, m + 1)), b, more, m + 1)
<1> DEFINE p == EventPacket(n, m + 1)
           r == Append(q, p)
<1>1. p.type = "event" /\ p.nsp = n /\ p.n = m + 1 /\ p \in Packet
  BY Packets, ClientAssumption DEF EventPacket
<1> HIDE DEF p
<1>2. /\ Len(q) \in Nat /\ Len(r) = Len(q) + 1 /\ r[Len(q) + 1] = p
      /\ \A i \in 1..Len(q) : r[i] = q[i] /\ q[i].n \in Nat
  BY <1>1, PacketNumbers, AppendProperties
<1> HIDE DEF r
<1>3. Queue(q, b, more, m + 1) /\ \A i \in 1..Len(q) : q[i].n <= m
  BY QueueLater DEF Queue
<1>4. InOrder(r, more)
  <2> SUFFICES ASSUME NEW i \in 1..Len(r), NEW j \in 1..Len(r), i < j, r[j].type = "event"
               PROVE  Before(r[i], r[j].nsp, r[j].n, more)
    BY InOrderIs
  <2>1. i \in 1..Len(q)
    BY <1>2
  <2>2. CASE j \in 1..Len(q)
    BY <1>2, <1>3, <2>1, <2>2, InOrderIs DEF Queue
  <2>3. CASE j = Len(q) + 1
    BY SMTT(30), <1>1, <1>2, <1>3, <2>1, <2>3 DEF Before
  <2> QED
    BY <1>2, <2>2, <2>3
<1>5. \A i \in 1..Len(r) : r[i].n <= m + 1
  BY <1>1, <1>2, <1>3 DEF Queue
<1>6. ASSUME NEW x \in Nsp, NEW i \in 1..Len(r), NEW k \in 1..Len(b[x])
      PROVE  Before(r[i], x, b[x][k], more)
  <2>1. CASE i \in 1..Len(q)
    BY <1>2, <1>3, <2>1 DEF Queue
  <2>2. CASE i = Len(q) + 1
    <3>1. b[x] \in Seq(1..MaxEmits) /\ b[x][k] \in 1..MaxEmits /\ b[x][k] <= m
      BY ElementOfSeq DEF Buffered, Rising
    <3>2. x = n => m + 1 \in more
      BY EmptySeq
    <3> QED
      BY <1>1, <1>2, <2>2, <3>1, <3>2, ClientAssumption DEF Before
  <2> QED
    BY <1>2, <2>1, <2>2
<1> QED
  BY <1>4, <1>5, <1>6 DEF Queue, r, p

\* An event that is buffered.
LEMMA QueueBuffers ==
  ASSUME NEW q \in Seq(Packet), NEW b \in [Nsp -> Seq(1..MaxEmits)], NEW late,
         NEW m \in Nat, m + 1 \in 1..MaxEmits, Queue(q, b, late, m), Buffered(b, m),
         NEW n \in Nsp
  PROVE  LET a == [b EXCEPT ![n] = Append(b[n], m + 1)] IN
         Queue(q, a, late, m + 1) /\ Buffered(a, m + 1)
<1> DEFINE t == Append(b[n], m + 1)
           a == [b EXCEPT ![n] = t]
<1>1. b[n] \in Seq(1..MaxEmits) /\ Len(b[n]) \in Nat
  BY LenProperties
<1>2. /\ Len(t) = Len(b[n]) + 1 /\ t[Len(b[n]) + 1] = m + 1
      /\ \A k \in 1..Len(b[n]) : t[k] = b[n][k] /\ b[n][k] \in Nat
  BY <1>1, BufferNumbers, AppendProperties
<1> HIDE DEF t
<1>3. \A x \in Nsp : a[x] = IF x = n THEN t ELSE b[x]
  OBVIOUS
<1> HIDE DEF a
<1>4. Queue(q, b, late, m + 1) /\ \A i \in 1..Len(q) : q[i].n <= m /\ q[i].n \in Nat
  BY QueueLater, PacketNumbers DEF Queue
<1>5. ASSUME NEW x \in Nsp, NEW i \in 1..Len(q), NEW k \in 1..Len(a[x])
      PROVE  Before(q[i], x, a[x][k], late)
  <2>1. CASE x = n /\ k = Len(b[n]) + 1
    BY <1>2, <1>3, <1>4, <2>1 DEF Before
  <2>2. CASE ~(x = n /\ k = Len(b[n]) + 1)
    <3>1. k \in 1..Len(b[x]) /\ a[x][k] = b[x][k]
      BY <1>1, <1>2, <1>3, <2>2
    <3> QED
      BY <1>4, <3>1 DEF Queue
  <2> QED
    BY <2>1, <2>2
<1>6. Queue(q, a, late, m + 1)
  BY <1>4, <1>5 DEF Queue
<1>7. ASSUME NEW x \in Nsp PROVE Rising(a[x], m + 1)
  <2>1. CASE x = n
    <3>1. /\ \A i, j \in 1..Len(b[n]) : i < j => b[n][i] < b[n][j]
          /\ \A i \in 1..Len(b[n]) : b[n][i] <= m
      BY DEF Buffered, Rising
    <3>2. ASSUME NEW i \in 1..Len(t), NEW j \in 1..Len(t), i < j PROVE t[i] < t[j]
      <4>1. i \in 1..Len(b[n])
        BY <1>1, <1>2, <3>2
      <4>2. CASE j \in 1..Len(b[n])
        BY <1>2, <3>1, <3>2, <4>1, <4>2
      <4>3. CASE j = Len(b[n]) + 1
        BY <1>2, <3>1, <4>1, <4>3
      <4> QED
        BY <1>1, <1>2, <4>2, <4>3
    <3>3. \A i \in 1..Len(t) : t[i] <= m + 1
      BY SMTT(30), <1>1, <1>2, <3>1
    <3> QED
      BY <1>3, <2>1, <3>2, <3>3 DEF Rising
  <2>2. CASE x # n
    <3>1. Rising(b[x], m) /\ \A i \in 1..Len(b[x]) : b[x][i] \in Nat
      BY ElementOfSeq, ClientAssumption DEF Buffered
    <3> QED
      BY <1>3, <2>2, <3>1 DEF Rising
  <2> QED
    BY <2>1, <2>2
<1> QED
  BY <1>6, <1>7 DEF Buffered, a, t

\* The buffer of a namespace is sent.
LEMMA QueueFlush ==
  ASSUME NEW q \in Seq(Packet), NEW b \in [Nsp -> Seq(1..MaxEmits)], NEW late,
         NEW m \in Nat, Queue(q, b, late, m), Buffered(b, m), NEW n \in Nsp,
         NEW ps \in Seq(Packet), Len(ps) = Len(b[n]),
         \A i \in 1..Len(ps) : ps[i] = EventPacket(n, b[n][i])
  PROVE  LET a == [b EXCEPT ![n] = <<>>] IN
         Queue(q \o ps, a, late, m) /\ Buffered(a, m)
<1> DEFINE a == [b EXCEPT ![n] = <<>>]
           r == q \o ps
<1>1. /\ Len(q) \in Nat /\ Len(ps) \in Nat /\ Len(r) = Len(q) + Len(ps)
      /\ \A i \in 1..Len(r) : r[i] = IF i <= Len(q) THEN q[i] ELSE ps[i - Len(q)]
  BY PacketNumbers, ConcatPackets
<1>2. \A i \in 1..Len(ps) : /\ ps[i].type = "event" /\ ps[i].nsp = n /\ ps[i].n = b[n][i]
                            /\ b[n][i] <= m
  <2>1. \A i \in 1..Len(b[n]) : b[n][i] <= m
    BY DEF Buffered, Rising
  <2>2. \A k : /\ EventPacket(n, k).type = "event" /\ EventPacket(n, k).nsp = n
               /\ EventPacket(n, k).n = k
    BY DEF EventPacket
  <2> QED
    BY <2>1, <2>2
<1>3. \A x \in Nsp : a[x] = IF x = n THEN <<>> ELSE b[x]
  OBVIOUS
<1>4. Len(<<>>) = 0 /\ 1..0 = {}
  OBVIOUS
<1> HIDE DEF r, a
<1>5. \A i \in 1..Len(r) :
        \/ i \in 1..Len(q) /\ r[i] = q[i]
        \/ i - Len(q) \in 1..Len(ps) /\ i > Len(q) /\ r[i] = ps[i - Len(q)]
  BY <1>1
<1>6. InOrder(r, late)
  <2> SUFFICES ASSUME NEW i \in 1..Len(r), NEW j \in 1..Len(r), i < j, r[j].type = "event"
               PROVE  Before(r[i], r[j].nsp, r[j].n, late)
    BY InOrderIs
  <2>1. CASE j \in 1..Len(q)
    BY <1>1, <2>1, InOrderIs DEF Queue
  <2>2. CASE j \notin 1..Len(q)
    <3> DEFINE k == j - Len(q)
    <3>1. k \in 1..Len(b[n]) /\ r[j] = ps[k] /\ r[j].nsp = n /\ r[j].n = b[n][k]
      BY <1>2, <1>5, <2>2
    <3>2. CASE i \in 1..Len(q)
      BY SMTT(30), <1>5, <1>1, <3>1, <3>2 DEF Queue
    <3>3. CASE i \notin 1..Len(q)
      <4>1. /\ i - Len(q) \in 1..Len(b[n]) /\ i - Len(q) < k
            /\ r[i] = ps[i - Len(q)] /\ r[i].n = b[n][i - Len(q)]
        BY <1>1, <1>2, <1>5, <3>3
      <4>2. b[n][i - Len(q)] < b[n][k]
        BY <3>1, <4>1 DEF Buffered, Rising
      <4> QED
        BY <3>1, <4>1, <4>2 DEF Before
    <3> QED
      BY <3>2, <3>3
  <2> QED
    BY <2>1, <2>2
<1>7. \A i \in 1..Len(r) : r[i].n <= m
  BY <1>2, <1>5 DEF Queue
<1>8. ASSUME NEW x \in Nsp, NEW i \in 1..Len(r), NEW k \in 1..Len(a[x])
      PROVE  Before(r[i], x, a[x][k], late)
  <2>1. x # n /\ a[x] = b[x]
    BY <1>3, <1>4
  <2>2. CASE i \in 1..Len(q)
    BY <1>1, <2>1, <2>2 DEF Queue
  <2>3. CASE i \notin 1..Len(q)
    BY <1>2, <1>5, <2>1, <2>3 DEF Before
  <2> QED
    BY <2>2, <2>3
<1>9. Buffered(a, m)
  BY <1>3, <1>4 DEF Buffered, Rising
<1> QED
  BY <1>6, <1>7, <1>8, <1>9 DEF Queue, r, a

\* What is sent is in order with what is buffered, and a socket that is
\* connected has nothing buffered, but while its `connect' callback runs.
Queues == \A e \in Engine : Queue(Sent(engines[e]), client.buffer, eager, emitted)
Flushed ==
  \A n \in client.connected : client.buffer[n] # <<>> => client.resume = Connecting(n)

OrderInv == Queues /\ Buffered(client.buffer, emitted) /\ Flushed

\* What a step that sends no event does to an engine, and to the client.
Carries(s, t) ==
  \/ Sent(t) \in {<<>>, Sent(s)}
  \/ Within(Sent(t), Sent(s), Len(Sent(s)))
  \/ \E ps \in Seq(Packet) : Eventless(ps) /\ Sent(t) = Sent(s) \o ps

Calm(c, d) ==
  /\ d.buffer = c.buffer /\ d.connected \subseteq c.connected
  /\ d.resume = c.resume \/ c.resume.call # "onconnect"

LEMMA SentType ==
  ASSUME NEW s \in EngineState
  PROVE  Sent(s) \in Seq(Packet)
<1>1. s.heard \in Seq(Packet) /\ s.out \in Seq(Packet)
  BY DEF EngineState
<1> QED
  BY <1>1, ConcatPackets DEF Sent

LEMMA SentNothing == Sent(NewEngine) = <<>> /\ Sent(Closed) = <<>>
<1>1. <<>> \o <<>> = <<>>
  BY EmptySeq, ConcatProperties
<1> QED
  BY <1>1 DEF Sent, NewEngine, Closed

LEMMA SentWritten ==
  ASSUME NEW s \in EngineState, NEW ps \in Seq(Packet), NEW t,
         t.heard = s.heard, t.out = s.out \o ps
  PROVE  Sent(t) = Sent(s) \o ps
<1>1. s.heard \in Seq(Packet) /\ s.out \in Seq(Packet)
  BY DEF EngineState
<1> DEFINE h == s.heard
           q == s.out
<1>2. Sent(t) = h \o (q \o ps) /\ Sent(s) = h \o q
  BY DEF Sent
<1> HIDE DEF h, q
<1>3. \A a, b, c \in Seq(Packet) : a \o (b \o c) = (a \o b) \o c
  OBVIOUS
<1>4. h \in Seq(Packet) /\ q \in Seq(Packet)
  BY <1>1 DEF h, q
<1> QED
  BY <1>2, <1>3, <1>4

LEMMA CarriesQueue ==
  ASSUME NEW s \in EngineState, NEW t, Carries(s, t),
         NEW b, NEW late, NEW m \in Nat, Queue(Sent(s), b, late, m)
  PROVE  Queue(Sent(t), b, late, m)
BY SentType, QueueEmpty, QueueWithin, QueueEventless DEF Carries

LEMMA WriteCarries ==
  ASSUME NEW es \in [Engine -> EngineState], NEW c \in ClientState,
         c.engine \in Engine, NEW ps \in Seq(Packet), Eventless(ps)
  PROVE  \A e \in Engine : Carries(es[e], Write(es, c, ps)[e])
<1> SUFFICES ASSUME NEW e \in Engine PROVE Carries(es[e], Write(es, c, ps)[e])
  OBVIOUS
<1> DEFINE t == Write(es, c, ps)[e]
<1>1. t.heard = es[e].heard
  BY WriteFacts
<1>2. t.out = IF e = c.engine /\ es[e].state \in Alive THEN es[e].out \o ps ELSE es[e].out
  BY WriteFacts
<1>3. SUFFICES Carries(es[e], t)
  OBVIOUS
<1> HIDE DEF t
<1>4. CASE t.out = es[e].out
  BY <1>1, <1>4 DEF Carries, Sent
<1>5. CASE t.out = es[e].out \o ps
  BY <1>1, <1>5, SentWritten DEF Carries
<1> QED
  BY <1>2, <1>4, <1>5

LEMMA SingleEventless ==
  ASSUME NEW n \in Nsp, NEW ps, ps = <<ConnectPacket(n)>> \/ ps = <<DisconnectPacket(n)>>
  PROVE  ps \in Seq(Packet) /\ Eventless(ps)
<1>1. ConnectPacket(n) \in Packet /\ DisconnectPacket(n) \in Packet
  BY Packets
<1>2. PICK p \in {ConnectPacket(n), DisconnectPacket(n)} : ps = <<p>>
  OBVIOUS
<1>3. ps \in Seq(Packet) /\ Len(ps) = 1 /\ ps[1] = p
  BY <1>1, <1>2
<1> QED
  BY <1>3 DEF Eventless, ConnectPacket, DisconnectPacket

LEMMA CalmStep ==
  ASSUME IInv, OrderInv, eager' = eager, emitted' = emitted, Calm(client, client'),
         \A e \in Engine : Carries(engines[e], engines'[e])
  PROVE  OrderInv'
<1>1. engines \in [Engine -> EngineState] /\ emitted \in Nat
  BY ClientAssumption DEF IInv, Consistent, Counted
<1>2. Queues'
  <2> SUFFICES ASSUME NEW e \in Engine
               PROVE  Queue(Sent(engines'[e]), client.buffer, eager, emitted)
    BY DEF Queues, Calm
  <2>1. Queue(Sent(engines[e]), client.buffer, eager, emitted)
    BY DEF OrderInv, Queues
  <2> QED
    BY <1>1, <2>1, CarriesQueue
<1>3. Buffered(client.buffer, emitted)'
  BY DEF OrderInv, Buffered, Calm
<1>4. Flushed'
  <2> SUFFICES ASSUME NEW n \in client'.connected, client'.buffer[n] # <<>>
               PROVE  client'.resume = Connecting(n)
    BY DEF Flushed
  <2>1. client.resume = Connecting(n)
    BY DEF OrderInv, Flushed, Calm
  <2>2. client.resume.call = "onconnect"
    BY <2>1 DEF Connecting
  <2> QED
    BY <2>1, <2>2 DEF Calm
<1> QED
  BY <1>2, <1>3, <1>4 DEF OrderInv

LEMMA CloseEventCalm ==
  ASSUME NEW c \in ClientState, NEW e \in Engine
  PROVE  /\ CloseEvent(c, e).buffer = c.buffer
         /\ CloseEvent(c, e).connected \subseteq c.connected
         /\ c.listening = <<>> => CloseEvent(c, e).resume = c.resume
BY OnCloseFacts DEF CloseEvent

LEMMA ErrorEventCalm ==
  ASSUME NEW c \in ClientState, NEW e \in Engine
  PROVE  /\ ErrorEvent(c, e).buffer = c.buffer
         /\ ErrorEvent(c, e).connected = c.connected
<1> DEFINE fn == Failing(e, TRUE) \in c.subs
           d == Cleanup(c)
<1>1. ErrorEvent(c, e) \in {c, [d EXCEPT !.state = "closed", !.resume = Reporting(fn)]}
  BY DEF ErrorEvent
<1>2. d \in ClientState /\ d.buffer = c.buffer /\ d.connected = c.connected
  BY CleanupFacts
<1> HIDE DEF d, fn
<1> QED
  BY <1>1, <1>2 DEF ClientState

LEMMA CloseManagerCalm ==
  ASSUME NEW c \in ClientState, c.listening = <<>>, c.engine \in Engine,
         NEW es \in [Engine -> EngineState], NEW waits \in BOOLEAN, CloseManager(c, es, waits)
  PROVE  /\ client'.buffer = c.buffer /\ client'.connected \subseteq c.connected
         /\ client'.resume = c.resume
         /\ \A e \in Engine : Sent(engines'[e]) \in {<<>>, Sent(es[e])}
<1> DEFINE idle == IF c.state = "opening" THEN Cleanup(c) ELSE c
           closed == [idle EXCEPT !.skip = TRUE, !.reconnecting = FALSE,
                                  !.attempts = 0, !.state = "closed"]
           old == es[c.engine].state
           new == CASE old \notin Alive -> old
                    [] old \in Alive /\ ~waits -> "closed"
                    [] old = "open" /\ waits -> "closing"
                    [] old = "opening" /\ waits -> "stalled"
<1>1. /\ client' \in {closed, CloseEvent(closed, c.engine)}
      /\ engines' = [es EXCEPT ![c.engine] =
                       IF new = "closed" THEN Closed ELSE [@ EXCEPT !.state = new]]
  BY DEF CloseManager
<1>2. /\ idle \in ClientState /\ idle.listening = <<>> /\ idle.buffer = c.buffer
      /\ idle.connected = c.connected /\ idle.resume = c.resume
  BY CleanupFacts
<1> HIDE DEF idle, new
<1>3. /\ closed \in ClientState /\ closed.listening = <<>> /\ closed.buffer = c.buffer
      /\ closed.connected = c.connected /\ closed.resume = c.resume
  <2>1. 0 \in 0..Attempts
    BY ClientAssumption
  <2> QED
    BY <1>2, <2>1 DEF ClientState
<1> HIDE DEF closed
<1>4. ASSUME NEW e \in Engine PROVE Sent(engines'[e]) \in {<<>>, Sent(es[e])}
  <2>1. CASE e # c.engine
    BY <1>1, <2>1
  <2>2. CASE e = c.engine
    <3> DEFINE t == [es[e] EXCEPT !.state = new]
    <3>1. engines'[e] \in {Closed, t}
      BY <1>1, <2>2
    <3>2. t.heard = es[e].heard /\ t.out = es[e].out
      BY DEF EngineState
    <3> HIDE DEF t
    <3>3. Sent(t) = Sent(es[e])
      BY <3>2 DEF Sent
    <3> QED
      BY <3>1, <3>3, SentNothing
  <2> QED
    BY <2>1, <2>2
<1> QED
  BY <1>1, <1>3, <1>4, CloseEventCalm

LEMMA ConnectOrder ==
  ASSUME IInv, OrderInv, NEW n \in Nsp, Connect(n)
  PROVE  OrderInv'
<1> DEFINE q == IF Listens(n) THEN client.listening ELSE Append(client.listening, n)
           c == [client EXCEPT !.made = @ \cup {n}, !.listening = q]
           d == NewNumber(c)
           ps == <<ConnectPacket(n)>>
<1>1. client \in ClientState /\ engines \in [Engine -> EngineState]
  BY DEF IInv, Consistent
<1>2. \/ /\ c.state \in Alive /\ client' = c
         /\ engines' = IF c.state = "open" /\ n # Root THEN Write(engines, c, ps) ELSE engines
      \/ /\ Free(c) # {} /\ client' = OpenOn(c, d, FALSE)
         /\ engines' = [engines EXCEPT ![d] = NewEngine]
  BY DEF Connect
<1>3. q \in Seq(Nsp)
  <2>1. client.listening \in Seq(Nsp)
    BY <1>1 DEF ClientState
  <2> QED
    BY <2>1, AppendProperties
<1> HIDE DEF q
<1>4. /\ c \in ClientState /\ c.buffer = client.buffer /\ c.connected = client.connected
      /\ c.resume = client.resume /\ c.engine = client.engine /\ c.state = client.state
  BY <1>1, <1>3 DEF ClientState
<1>5. Free(c) # {} => d \in Engine
  BY NewNumberFree DEF Free
<1>6. ps \in Seq(Packet) /\ Eventless(ps)
  BY SingleEventless
<1> HIDE DEF c, d, ps
<1>7. Calm(client, client')
  <2>1. CASE client' = c
    BY <1>4, <2>1 DEF Calm
  <2>2. CASE Free(c) # {} /\ client' = OpenOn(c, d, FALSE)
    <3>1. /\ OpenOn(c, d, FALSE).buffer = c.buffer
          /\ OpenOn(c, d, FALSE).connected = c.connected
          /\ OpenOn(c, d, FALSE).resume = c.resume
      BY <1>4, <1>5, <2>2, OpenOnFacts
    <3> QED
      BY <1>4, <2>2, <3>1 DEF Calm
  <2> QED
    BY <1>2, <2>1, <2>2
<1>8. \A e \in Engine : Carries(engines[e], engines'[e])
  <2>1. CASE engines' = engines
    BY <2>1 DEF Carries
  <2>2. CASE engines' = Write(engines, c, ps) /\ c.state = "open"
    <3>1. c.engine \in Engine
      BY <1>4, <2>2, EngineNamed DEF IInv
    <3> QED
      BY <1>1, <1>4, <1>6, <2>2, <3>1, WriteCarries
  <2>3. CASE engines' = [engines EXCEPT ![d] = NewEngine]
    BY <1>1, <2>3, SentNothing DEF Carries
  <2> QED
    BY <1>2, <2>1, <2>2, <2>3
<1>9. eager' = eager /\ emitted' = emitted
  BY DEF Connect
<1> QED
  BY <1>7, <1>8, <1>9, CalmStep

LEMMA DisconnectOrder ==
  ASSUME IInv, OrderInv, NEW n \in Nsp, Disconnect(n)
  PROVE  OrderInv'
<1>1. client \in ClientState /\ engines \in [Engine -> EngineState]
      /\ Listening(client) /\ Manager(client, engines)
  BY DEF IInv, Consistent
<1>2. PICK i \in 1..Len(client.listening) :
        LET c == [client EXCEPT !.listening = RemoveAt(@, i), !.connected = @ \ {n}]
            es == IF n \in client.connected
                  THEN Write(engines, client, <<DisconnectPacket(n)>>) ELSE engines
        IN  /\ client.listening[i] = n
            /\ IF c.listening # <<>> THEN client' = c /\ engines' = es
               ELSE \E waits \in BOOLEAN : CloseManager(c, es, waits)
  BY DEF Disconnect
<1> DEFINE c == [client EXCEPT !.listening = RemoveAt(@, i), !.connected = @ \ {n}]
           ps == <<DisconnectPacket(n)>>
           es == IF n \in client.connected THEN Write(engines, client, ps) ELSE engines
<1>3. client.listening \in Seq(Nsp) /\ client.listening # <<>>
  <2>1. client.listening \in Seq(Nsp)
    BY <1>1 DEF ClientState
  <2> QED
    BY <1>2, <2>1, EmptySeq
<1>4. RemoveAt(client.listening, i) \in Seq(Nsp)
  BY <1>1, <1>2, <1>3, RemoveListening DEF Listening
<1>5. /\ c \in ClientState /\ c.connected \subseteq client.connected
      /\ c.buffer = client.buffer /\ c.engine = client.engine /\ c.resume = client.resume
  BY <1>1, <1>4 DEF ClientState
<1>6. client.engine \in Engine
  BY <1>1, <1>3 DEF Manager, ClientState
<1>7. ps \in Seq(Packet) /\ Eventless(ps)
  BY SingleEventless
<1>8. \/ client' = c /\ engines' = es
      \/ c.listening = <<>> /\ \E waits \in BOOLEAN : CloseManager(c, es, waits)
  BY <1>2
<1> HIDE DEF ps
<1>9. es \in [Engine -> EngineState] /\ \A e \in Engine : Carries(engines[e], es[e])
  <2>1. CASE n \in client.connected
    BY <1>1, <1>6, <1>7, <2>1, WriteFacts, WriteCarries
  <2>2. CASE n \notin client.connected
    BY <1>1, <2>2 DEF Carries
  <2> QED
    BY <2>1, <2>2
<1> HIDE DEF c, es
<1>10. eager' = eager /\ emitted' = emitted
  BY DEF Disconnect
<1>11. CASE client' = c /\ engines' = es
  BY <1>5, <1>9, <1>10, <1>11, CalmStep DEF Calm
<1>12. CASE c.listening = <<>> /\ \E waits \in BOOLEAN : CloseManager(c, es, waits)
  <2>1. /\ client'.buffer = c.buffer /\ client'.connected \subseteq c.connected
        /\ client'.resume = c.resume
        /\ \A e \in Engine : Sent(engines'[e]) \in {<<>>, Sent(es[e])}
    BY <1>5, <1>6, <1>9, <1>12, CloseManagerCalm
  <2>2. Calm(client, client')
    BY <1>5, <2>1 DEF Calm
  <2>3. \A e \in Engine : Carries(engines[e], engines'[e])
    BY <1>9, <2>1 DEF Carries
  <2> QED
    BY <1>10, <2>2, <2>3, CalmStep
<1> QED
  BY <1>8, <1>11, <1>12

LEMMA EmitOrder ==
  ASSUME IInv, OrderInv, NEW n \in Nsp, Emit(n)
  PROVE  OrderInv'
<1> DEFINE m == emitted + 1
           b == client.buffer
<1>1. client \in ClientState /\ engines \in [Engine -> EngineState]
      /\ Listening(client) /\ Manager(client, engines)
      /\ b \in [Nsp -> Seq(1..MaxEmits)]
  BY DEF IInv, Consistent, ClientState
<1>2. m \in 1..MaxEmits /\ emitted \in Nat /\ emitted' = m
  BY ClientAssumption DEF Emit, IInv, Counted
<1>3. Buffered(b, emitted) /\ Flushed
      /\ \A e \in Engine : /\ Sent(engines[e]) \in Seq(Packet)
                           /\ Queue(Sent(engines[e]), b, eager, emitted)
  BY <1>1, SentType DEF OrderInv, Queues
<1>4. CASE n \in client.connected
  <2> DEFINE p == EventPacket(n, m)
             ps == <<p>>
  <2>1. p \in Packet /\ ps \in Seq(Packet)
    BY <1>2, Packets
  <2>2. /\ client' = client /\ engines' = Write(engines, client, ps)
        /\ eager' = IF client.resume = Connecting(n) /\ b[n] # <<>>
                    THEN eager \cup {m} ELSE eager
    BY <1>4 DEF Emit
  <2>3. client.engine \in Engine
    BY <1>1, <1>4, ToSetEmpty DEF Manager, Listening, ClientState
  <2>4. eager \subseteq eager' /\ (b[n] # <<>> => m \in eager')
    BY <1>3, <1>4, <2>2 DEF Flushed
  <2>5. ASSUME NEW e \in Engine PROVE Queue(Sent(engines'[e]), b, eager', m)
    <3> HIDE DEF ps
    <3>1. /\ engines'[e].heard = engines[e].heard
          /\ \/ engines'[e].out = engines[e].out
             \/ engines'[e].out = engines[e].out \o ps
      <4>1. Write(engines, client, ps)[e].heard = engines[e].heard
        BY SMTT(30), <1>1, <2>1, <2>3, WriteFacts
      <4>2. Write(engines, client, ps)[e].out =
              IF e = client.engine /\ engines[e].state \in Alive
              THEN engines[e].out \o ps ELSE engines[e].out
        BY <1>1, <2>1, <2>3, WriteFacts
      <4> QED
        BY <2>2, <4>1, <4>2
    <3>2. CASE engines'[e].out = engines[e].out
      <4>1. Sent(engines'[e]) = Sent(engines[e])
        BY <3>1, <3>2 DEF Sent
      <4> QED
        BY <1>2, <1>3, <2>4, <4>1, QueueLater
    <3>3. CASE engines'[e].out = engines[e].out \o ps
      <4>1. Sent(engines'[e]) = Sent(engines[e]) \o ps
        BY <1>1, <2>1, <3>1, <3>3, SentWritten
      <4>2. Sent(engines'[e]) = Append(Sent(engines[e]), p)
        BY <1>3, <2>1, <4>1, AppendIsConcat DEF ps
      <4> QED
        BY <1>1, <1>2, <1>3, <2>4, <4>2, QueueEvent
    <3> QED
      BY <3>1, <3>2, <3>3
  <2>6. Buffered(b, m)
    <3>1. \A x \in Nsp : \A i \in 1..Len(b[x]) : b[x][i] \in Nat
      BY <1>1, BufferNumbers
    <3> QED
      BY <1>2, <1>3, <3>1 DEF Buffered, Rising
  <2> QED
    BY <1>2, <1>3, <2>2, <2>5, <2>6 DEF OrderInv, Queues, Flushed
<1>5. CASE n \notin client.connected
  <2> DEFINE a == [b EXCEPT ![n] = Append(b[n], m)]
  <2>1. client' = [client EXCEPT !.buffer = a] /\ engines' = engines /\ eager' = eager
    BY <1>1, <1>5 DEF Emit, ClientState
  <2>2. \A x \in Nsp : x # n => a[x] = b[x]
    BY <1>1
  <2>3. \A e \in Engine : Queue(Sent(engines[e]), a, eager, m) /\ Buffered(a, m)
    BY <1>1, <1>2, <1>3, QueueBuffers
  <2>4. Buffered(a, m)
    BY <2>3, ClientAssumption DEF Engine
  <2> HIDE DEF a
  <2>5. client'.buffer = a /\ client'.connected = client.connected
        /\ client'.resume = client.resume /\ client.connected \subseteq Nsp
    BY <1>1, <2>1 DEF ClientState
  <2>6. Flushed'
    BY <1>3, <1>5, <2>2, <2>5 DEF Flushed
  <2> QED
    BY <1>2, <2>1, <2>3, <2>4, <2>5, <2>6 DEF OrderInv, Queues
<1> QED
  BY <1>4, <1>5

\* The handlers that go on when the application's callback returns.
LEMMA OnConnectReturnsOrder ==
  ASSUME IInv, OrderInv, OnConnectReturns
  PROVE  OrderInv'
<1> DEFINE n == client.resume.nsp
           b == client.buffer
           queue == b[n]
           ps == [i \in 1..Len(queue) |-> EventPacket(n, queue[i])]
           a == [b EXCEPT ![n] = <<>>]
<1>1. client \in ClientState /\ engines \in [Engine -> EngineState]
      /\ Manager(client, engines) /\ client.connected \subseteq Nsp
      /\ b \in [Nsp -> Seq(1..MaxEmits)] /\ client.resume.call = "onconnect"
  BY DEF IInv, Consistent, ClientState, OnConnectReturns
<1>2. /\ client' = [client EXCEPT !.buffer = a, !.resume = Nothing]
      /\ engines' = Write(engines, client, ps)
      /\ eager' = eager /\ emitted' = emitted
  BY <1>1 DEF OnConnectReturns, ClientState
<1>3. n \in Nsp
  BY <1>1 DEF ClientState, Resumes
<1>4. emitted \in Nat
  BY ClientAssumption DEF IInv, Counted
<1> HIDE DEF n
<1>5. ps \in Seq(Packet) /\ Len(ps) = Len(queue)
      /\ \A i \in 1..Len(ps) : ps[i] = EventPacket(n, queue[i])
  <2>1. Len(queue) \in Nat /\ \A i \in 1..Len(queue) : queue[i] \in 0..MaxEmits
    BY <1>1, <1>3, BufferNumbers
  <2> HIDE DEF queue
  <2>2. \A i \in 1..Len(queue) : EventPacket(n, queue[i]) \in Packet
    BY <1>3, <2>1, Packets
  <2>3. ps \in [1..Len(queue) -> Packet]
    BY <2>2
  <2> QED
    BY <2>1, <2>3
<1> HIDE DEF ps
<1>6. client.engine \in Engine
  BY <1>1 DEF Manager, ClientState
<1>7. \A x \in Nsp : a[x] = IF x = n THEN <<>> ELSE b[x]
  BY <1>1
<1>8. Buffered(b, emitted) /\ Flushed
      /\ \A e \in Engine : /\ Sent(engines[e]) \in Seq(Packet)
                           /\ Queue(Sent(engines[e]), b, eager, emitted)
  BY <1>1, SentType DEF OrderInv, Queues
<1>9. ASSUME NEW e \in Engine
      PROVE  Queue(Sent(engines'[e]), a, eager, emitted) /\ Buffered(a, emitted)
  <2>1. Queue(Sent(engines[e]) \o ps, a, eager, emitted) /\ Buffered(a, emitted)
    BY <1>1, <1>3, <1>4, <1>5, <1>8, QueueFlush
  <2>2. engines'[e].heard = engines[e].heard
    BY <1>1, <1>2, <1>5, <1>6, WriteFacts
  <2>3. engines'[e].out =
          IF e = client.engine /\ engines[e].state \in Alive
          THEN engines[e].out \o ps ELSE engines[e].out
    BY <1>1, <1>2, <1>5, <1>6, WriteFacts
  <2> HIDE DEF a
  <2>4. CASE engines'[e].out = engines[e].out
    <3>1. Sent(engines'[e]) = Sent(engines[e])
      BY <2>2, <2>4 DEF Sent
    <3>2. \A x \in Nsp : \A k \in 1..Len(a[x]) : k \in 1..Len(b[x]) /\ a[x][k] = b[x][k]
      <4>1. Len(<<>>) = 0 /\ 1..0 = {}
        OBVIOUS
      <4> QED
        BY <1>7, <4>1
    <3>3. Queue(Sent(engines[e]), a, eager, emitted)
      BY <1>8, <3>2 DEF Queue
    <3> QED
      BY <2>1, <3>1, <3>3
  <2>5. CASE engines'[e].out = engines[e].out \o ps
    <3>1. Sent(engines'[e]) = Sent(engines[e]) \o ps
      BY <1>1, <1>5, <2>2, <2>5, SentWritten
    <3> QED
      BY <2>1, <3>1
  <2> QED
    BY <2>3, <2>4, <2>5
<1> HIDE DEF a, queue
<1>10. Buffered(a, emitted)
  BY <1>9, ClientAssumption DEF Engine
<1>11. client'.buffer = a /\ client'.connected = client.connected
  BY <1>1, <1>2 DEF ClientState
<1>12. Flushed'
  <2>1. ASSUME NEW x \in client.connected, a[x] # <<>> PROVE FALSE
    <3>1. x # n /\ b[x] # <<>>
      BY <1>1, <1>7, <2>1
    <3>2. client.resume = Connecting(x)
      BY <1>8, <3>1 DEF Flushed
    <3> QED
      BY <3>1, <3>2 DEF Connecting, n
  <2> QED
    BY <1>11, <2>1 DEF Flushed
<1> QED
  BY <1>2, <1>9, <1>10, <1>11, <1>12 DEF OrderInv, Queues

LEMMA OtherReturnsOrder ==
  ASSUME IInv, OrderInv, OnCloseReturns \/ AttemptReturns \/ ConnectErrorReturns
  PROVE  OrderInv'
<1>1. client \in ClientState /\ engines \in [Engine -> EngineState]
      /\ client.resume.call # "onconnect"
  <2>1. client \in ClientState /\ engines \in [Engine -> EngineState]
    BY DEF IInv, Consistent
  <2>2. OnCloseReturns => client.resume.call = "onclose"
    BY DEF OnCloseReturns
  <2>3. AttemptReturns => client.resume.call = "attempt"
    BY DEF AttemptReturns, Attempting
  <2>4. ConnectErrorReturns => client.resume.call = "connect_error"
    BY DEF ConnectErrorReturns
  <2> QED
    BY <2>1, <2>2, <2>3, <2>4
<1>2. eager' = eager /\ emitted' = emitted
  BY DEF OnCloseReturns, AttemptReturns, ConnectErrorReturns
<1> DEFINE c == [client EXCEPT !.resume = Nothing]
           retry == [c EXCEPT !.reconnecting = FALSE]
           d == NewNumber(c)
<1>3. \A x \in {c, retry} :
        x \in ClientState /\ x.buffer = client.buffer /\ x.connected = client.connected
  <2>1. Nothing \in Resumes
    BY ResumesType
  <2>2. c \in ClientState /\ c.buffer = client.buffer /\ c.connected = client.connected
    BY <1>1, <2>1 DEF ClientState
  <2>3. /\ retry \in ClientState
        /\ retry.buffer = client.buffer /\ retry.connected = client.connected
    BY <2>2 DEF ClientState
  <2> QED
    BY <2>2, <2>3
<1>4. CASE OnCloseReturns
  <2> DEFINE left == client.resume.left
             gone == client.connected \ {Head(left)}
             rest == Closing(Tail(left))
  <2>1. \/ client' = [client EXCEPT !.connected = gone, !.resume = rest]
        \/ client' = Reconnect(c)
    BY <1>1, <1>4 DEF OnCloseReturns, ClientState
  <2>2. gone \subseteq client.connected /\ engines' = engines
    BY <1>4 DEF OnCloseReturns
  <2> HIDE DEF gone, rest, left, c
  <2>3. client'.buffer = client.buffer /\ client'.connected \subseteq client.connected
    <3>1. CASE client' = [client EXCEPT !.connected = gone, !.resume = rest]
      BY <1>1, <2>2, <3>1 DEF ClientState
    <3>2. CASE client' = Reconnect(c)
      BY <1>3, <3>2, ReconnectFacts
    <3> QED
      BY <2>1, <3>1, <3>2
  <2> QED
    BY <1>1, <1>2, <2>2, <2>3, CalmStep DEF Calm, Carries
<1>5. CASE AttemptReturns
  <2>1. \/ client' = c /\ engines' = engines
        \/ /\ Free(c) # {} /\ client' = OpenOn(c, d, TRUE)
           /\ engines' = [engines EXCEPT ![d] = NewEngine]
    BY <1>5 DEF AttemptReturns
  <2>2. Free(c) # {} => d \in Engine
    BY NewNumberFree DEF Free
  <2> HIDE DEF c, d
  <2>3. Calm(client, client')
    <3>1. CASE client' = c
      BY <1>1, <1>3, <3>1 DEF Calm
    <3>2. CASE Free(c) # {} /\ client' = OpenOn(c, d, TRUE)
      <4>1. OpenOn(c, d, TRUE).buffer = c.buffer /\ OpenOn(c, d, TRUE).connected = c.connected
        BY <1>3, <2>2, <3>2, OpenOnFacts
      <4> QED
        BY <1>1, <1>3, <3>2, <4>1 DEF Calm
    <3> QED
      BY <2>1, <3>1, <3>2
  <2>4. \A e \in Engine : Carries(engines[e], engines'[e])
    BY <1>1, <2>1, SentNothing DEF Carries
  <2> QED
    BY <1>2, <2>3, <2>4, CalmStep
<1>6. CASE ConnectErrorReturns
  <2>1. engines' = engines /\ (client' = Reconnect(retry) \/ client' = MaybeReconnectOnOpen(c))
    BY <1>6 DEF ConnectErrorReturns
  <2> HIDE DEF c, retry
  <2>2. client' \in {c, Reconnect(c), Reconnect(retry)}
    BY <2>1 DEF MaybeReconnectOnOpen
  <2>3. client'.buffer = client.buffer /\ client'.connected = client.connected
    BY <1>3, <2>2, ReconnectFacts
  <2> QED
    BY <1>1, <1>2, <2>1, <2>3, CalmStep DEF Calm, Carries
<1> QED
  BY <1>4, <1>5, <1>6

\* The events.
LEMMA QuietCalm ==
  ASSUME Quiet, NEW d, d.buffer = client.buffer, d.connected \subseteq client.connected
  PROVE  Calm(client, d)
BY DEF Quiet, Nothing, Calm

LEMMA EngineOpensOrder ==
  ASSUME IInv, OrderInv, NEW e \in Engine, EngineOpens(e)
  PROVE  OrderInv'
<1> DEFINE heard == \E fn \in BOOLEAN : Opening(e, fn) \in client.subs
           own == Opening(e, TRUE) \in client.subs
           early == engines[e].out # <<>>
           s == [engines[e] EXCEPT !.state = "open", !.joined = {Root},
                                   !.replies = <<Root>>, !.early = early]
           es == [engines EXCEPT ![e] = s]
           ps == Requests(client)
<1>1. client \in ClientState /\ engines \in [Engine -> EngineState]
      /\ engines[e].state = "opening" /\ Quiet /\ eager' = eager /\ emitted' = emitted
  BY DEF IInv, Consistent, EngineOpens
<1>2. /\ client' = IF heard THEN OnOpen(client, own) ELSE client
      /\ engines' = IF heard THEN Write(es, client, ps) ELSE es
  BY <1>1 DEF EngineOpens
<1>3. heard => client.engine = e
  BY <1>1, EngineHeard
<1>4. own \in BOOLEAN /\ early \in BOOLEAN
  OBVIOUS
<1> HIDE DEF own, early, heard
<1>5. s \in EngineState /\ s.heard = engines[e].heard /\ s.out = engines[e].out
  <2>1. <<Root>> \in Seq(Nsp) /\ {Root} \in SUBSET Nsp
    BY ClientAssumption
  <2>2. engines[e] \in EngineState
    BY <1>1
  <2> QED
    BY <1>4, <2>1, <2>2 DEF EngineState
<1> HIDE DEF s
<1>6. es \in [Engine -> EngineState] /\ \A x \in Engine : Sent(es[x]) = Sent(engines[x])
  BY <1>1, <1>5 DEF Sent
<1>7. ps \in Seq(Packet) /\ Eventless(ps)
  <2>1. ps \in Seq(Packet) /\ \A j \in 1..Len(ps) : ps[j].type = "connect" /\ ps[j].n = 0
    BY <1>1, RequestsFacts
  <2> QED
    BY <2>1 DEF Eventless
<1> HIDE DEF ps, es
<1>8. \A x \in Engine : Carries(engines[x], engines'[x])
  <2>1. CASE heard
    <3>1. \A x \in Engine : Carries(es[x], engines'[x])
      BY <1>1, <1>2, <1>3, <1>6, <1>7, <2>1, WriteCarries
    <3> QED
      BY <1>6, <3>1 DEF Carries
  <2>2. CASE ~heard
    BY <1>2, <1>6, <2>2 DEF Carries
  <2> QED
    BY <2>1, <2>2
<1>9. client'.buffer = client.buffer /\ client'.connected = client.connected
  BY <1>1, <1>2, <1>3, <1>4, OnOpenFacts
<1> QED
  BY <1>1, <1>8, <1>9, QuietCalm, CalmStep

LEMMA EngineEndsOrder ==
  ASSUME IInv, OrderInv, NEW e \in Engine, EngineFails(e) \/ TimesOut(e) \/ EngineLost(e)
  PROVE  OrderInv'
<1> DEFINE c == [client EXCEPT !.subs = {s \in @ : s.sub # "open"}]
           late == [engines[e] EXCEPT !.state = "stalled"]
<1>1. client \in ClientState /\ engines \in [Engine -> EngineState] /\ Quiet
      /\ eager' = eager /\ emitted' = emitted
  BY DEF IInv, Consistent, EngineFails, TimesOut, EngineLost
<1>2. /\ client' \in {ErrorEvent(client, e), ErrorEvent(c, e), CloseEvent(client, e)}
      /\ \E s \in {Closed, late} : engines' = [engines EXCEPT ![e] = s]
  BY <1>1 DEF EngineFails, TimesOut, EngineLost
<1>3. c \in ClientState /\ c.buffer = client.buffer /\ c.connected = client.connected
  BY <1>1 DEF ClientState
<1>4. late.heard = engines[e].heard /\ late.out = engines[e].out
  BY <1>1 DEF EngineState
<1> HIDE DEF c, late
<1>5. client'.buffer = client.buffer /\ client'.connected \subseteq client.connected
  BY <1>1, <1>2, <1>3, ErrorEventCalm, CloseEventCalm
<1>6. Sent(late) = Sent(engines[e])
  BY <1>4 DEF Sent
<1>7. \A x \in Engine : Carries(engines[x], engines'[x])
  BY <1>1, <1>2, <1>6, SentNothing DEF Carries
<1> QED
  BY <1>1, <1>5, <1>7, QuietCalm, CalmStep

LEMMA DrainOrder ==
  ASSUME IInv, OrderInv, NEW e \in Engine, Drain(e)
  PROVE  OrderInv'
<1> DEFINE s == Served(engines[e])
<1>1. client \in ClientState /\ engines \in [Engine -> EngineState] /\ Quiet
      /\ eager' = eager /\ emitted' = emitted /\ names \in BOOLEAN
  BY DEF IInv, Consistent, Counted, Drain
<1>2. /\ client' \in {client, CloseEvent(client, e)}
      /\ \/ engines' = [engines EXCEPT ![e] = Closed]
         \/ engines' = [engines EXCEPT ![e] = s]
  BY DEF Drain
<1>3. Within(Sent(s), Sent(engines[e]), Len(Sent(engines[e])))
  <2> DEFINE h == engines[e].heard
             q == engines[e].out
  <2>1. h \in Seq(Packet) /\ q \in Seq(Packet)
    BY <1>1 DEF EngineState
  <2>2. s \in EngineState /\ s.out = <<>> /\ Within(s.heard, h \o q, Len(h) + Len(q))
    BY <1>1, ServedFacts DEF Stage
  <2>3. Sent(s) = s.heard /\ Sent(engines[e]) = h \o q
    <3>1. s.heard \in Seq(Packet)
      BY <2>2 DEF EngineState
    <3> QED
      BY <2>2, <3>1, ConcatEmptySeq DEF Sent
  <2>4. Len(h \o q) = Len(h) + Len(q)
    BY <2>1, ConcatPackets
  <2> QED
    BY <2>2, <2>3, <2>4
<1> HIDE DEF s
<1>4. \A x \in Engine : Carries(engines[x], engines'[x])
  BY <1>1, <1>2, <1>3, SentNothing DEF Carries
<1>5. client'.buffer = client.buffer /\ client'.connected \subseteq client.connected
  BY <1>1, <1>2, CloseEventCalm
<1> QED
  BY <1>1, <1>4, <1>5, QuietCalm, CalmStep

LEMMA ReceiveOrder ==
  ASSUME IInv, OrderInv, NEW e \in Engine, Receive(e)
  PROVE  OrderInv'
<1> DEFINE n == Head(engines[e].replies)
           s == [engines[e] EXCEPT !.replies = Tail(@)]
           c == [client EXCEPT !.connected = @ \cup {n}, !.resume = Connecting(n)]
<1>1. client \in ClientState /\ engines \in [Engine -> EngineState] /\ Quiet
      /\ eager' = eager /\ emitted' = emitted
  BY DEF IInv, Consistent, Receive
<1>2. engines' = [engines EXCEPT ![e] = s] /\ client' \in {client, c}
  BY <1>1 DEF Receive
<1>3. s.heard = engines[e].heard /\ s.out = engines[e].out
  BY <1>1 DEF EngineState
<1> HIDE DEF s
<1>4. \A x \in Engine : Carries(engines[x], engines'[x])
  BY <1>1, <1>2, <1>3 DEF Carries, Sent
<1>5. /\ client'.buffer = client.buffer
      /\ client' = client \/ ( /\ client'.connected = client.connected \cup {n}
                              /\ client'.resume = Connecting(n))
  BY <1>1, <1>2 DEF ClientState
<1> HIDE DEF c, n
<1>6. CASE client' = client
  BY <1>1, <1>4, <1>6, QuietCalm, CalmStep
<1>7. CASE client' # client
  <2>1. \A x \in client.connected : client.buffer[x] = <<>>
      <3>1. client.resume.call = "none"
      BY <1>1 DEF Quiet, Nothing
    <3>2. \A x : Connecting(x).call = "onconnect"
      BY DEF Connecting
    <3> QED
      BY <3>1, <3>2 DEF OrderInv, Flushed
  <2>2. Flushed'
    BY <1>5, <1>7, <2>1 DEF Flushed
  <2>3. \A x \in Engine : Queue(Sent(engines'[x]), client.buffer, eager, emitted)
    <3>1. emitted \in Nat
      BY ClientAssumption DEF IInv, Counted
    <3> QED
      BY <1>1, <1>4, <3>1, CarriesQueue DEF OrderInv, Queues
  <2> QED
    BY <1>1, <1>5, <2>2, <2>3 DEF OrderInv, Queues
<1> QED
  BY <1>6, <1>7

LEMMA OrderStep == IInv /\ OrderInv /\ [Next]_vars => OrderInv'
<1> SUFFICES ASSUME IInv, OrderInv, [Next]_vars PROVE OrderInv'
  OBVIOUS
<1>1. CASE UNCHANGED vars
  BY <1>1 DEF vars, OrderInv, Queues, Flushed
<1>2. CASE ApplicationStep
  BY <1>2, ConnectOrder, DisconnectOrder, EmitOrder DEF ApplicationStep
<1>3. CASE CallbackReturns
  BY <1>3, OnConnectReturnsOrder, OtherReturnsOrder DEF CallbackReturns
<1>4. CASE EngineStep
  BY <1>4, EngineOpensOrder, EngineEndsOrder, DrainOrder, ReceiveOrder DEF EngineStep
<1>5. CASE DelayEnds
  <2> DEFINE r == IF client.skip THEN Nothing ELSE Attempting
  <2>1. client \in ClientState /\ Quiet /\ eager' = eager /\ emitted' = emitted
        /\ engines' = engines /\ client' = [client EXCEPT !.subs = @ \ {Delay}, !.resume = r]
    BY <1>5 DEF IInv, Consistent, DelayEnds
  <2> HIDE DEF r
  <2>2. client'.buffer = client.buffer /\ client'.connected = client.connected
    BY <2>1 DEF ClientState
  <2> QED
    BY <2>1, <2>2, QuietCalm, CalmStep DEF Carries
<1> QED
  BY <1>1, <1>2, <1>3, <1>4, <1>5 DEF Next

\* On every connection the events of a namespace are sent once and in the
\* order of their emits (Socket.emit, Socket.emitBuffered), whatever waits in
\* a buffer and however callbacks and lost connections fall between them; an
\* event overtakes others only if a callback emitted it while they waited.
THEOREM ClientKeepsOrder == Spec => []SentInOrder
<1>1. Init => OrderInv
  <2> SUFFICES ASSUME Init PROVE OrderInv
    OBVIOUS
  <2>1. /\ client.buffer = [n \in Nsp |-> <<>>] /\ client.connected = {}
        /\ engines = [e \in Engine |-> Closed]
    BY DEF Init
  <2>2. Queues
    BY <2>1, SentNothing, QueueEmpty DEF Queues
  <2>3. Len(<<>>) = 0 /\ 1..0 = {}
    OBVIOUS
  <2>4. Buffered(client.buffer, emitted)
    BY <2>1, <2>3 DEF Buffered, Rising
  <2> QED
    BY <2>1, <2>2, <2>4 DEF OrderInv, Flushed
<1>2. OrderInv => SentInOrder
  BY DEF OrderInv, Queues, Queue, Sent, SentInOrder
<1> QED
  BY <1>1, <1>2, OrderStep, ClientInvariant, PTL DEF Spec
-----------------------------------------------------------------------------
(* What a socket believes to be connected is connected at the server.      *)

RootReply(s) == \E i \in 1..Len(s.replies) : s.replies[i] = Root

\* Nobody asks for "/", and only the first reply, of the handshake, names it.
Plain(s) ==
  /\ Rootless(s.out)
  /\ names => \A i \in 1..Len(s.replies) : i # 1 => s.replies[i] # Root

\* Every socket that listens has the last word on its namespace: it is joined,
\* or will be when everything has arrived; that of "/" when it is told so, once.
Joined(c, s) ==
  /\ \A n \in ToSet(c.listening) \ {Root} : Joins(s, n)
  /\ Root \in c.connected \/ RootReply(s) => Joins(s, Root)
  /\ ~(Root \in c.connected /\ RootReply(s))

Linked(c, es) ==
  names /\ c.state = "open" /\ ~es[c.engine].early => Joined(c, es[c.engine])

JoinInv == (\A e \in Engine : Plain(engines[e])) /\ Linked(client, engines)

LEMMA RootlessConcat ==
  ASSUME NEW q \in Seq(Packet), NEW ps \in Seq(Packet), Rootless(q), Rootless(ps)
  PROVE  Rootless(q \o ps)
<1> DEFINE r == q \o ps
<1>1. /\ Len(q) \in Nat /\ Len(ps) \in Nat /\ Len(r) = Len(q) + Len(ps)
      /\ \A i \in 1..Len(r) : r[i] = IF i <= Len(q) THEN q[i] ELSE ps[i - Len(q)]
  BY PacketNumbers, ConcatPackets
<1> HIDE DEF r
<1>2. ASSUME NEW i \in 1..Len(r) PROVE ~(r[i].type = "connect" /\ r[i].nsp = Root)
  <2>1. \/ i \in 1..Len(q) /\ r[i] = q[i]
        \/ i - Len(q) \in 1..Len(ps) /\ r[i] = ps[i - Len(q)]
    BY <1>1
  <2> QED
    BY <2>1 DEF Rootless
<1> QED
  BY <1>2 DEF Rootless, r

LEMMA PlainNew == Plain(NewEngine) /\ Plain(Closed)
<1>1. Len(<<>>) = 0 /\ 1..0 = {}
  OBVIOUS
<1> QED
  BY <1>1 DEF Plain, Rootless, NewEngine, Closed

LEMMA PlainWritten ==
  ASSUME NEW es \in [Engine -> EngineState], NEW c \in ClientState,
         c.engine \in Engine, NEW ps \in Seq(Packet), Rootless(ps),
         \A e \in Engine : Plain(es[e])
  PROVE  \A e \in Engine : Plain(Write(es, c, ps)[e])
<1> SUFFICES ASSUME NEW e \in Engine PROVE Plain(Write(es, c, ps)[e])
  OBVIOUS
<1> DEFINE t == Write(es, c, ps)[e]
<1>1. t.replies = es[e].replies
  BY WriteFacts
<1>2. t.out = IF e = c.engine /\ es[e].state \in Alive THEN es[e].out \o ps ELSE es[e].out
  BY WriteFacts
<1>3. es[e].out \in Seq(Packet)
  BY DEF EngineState
<1>4. SUFFICES Plain(t)
  OBVIOUS
<1> HIDE DEF t
<1>5. Plain(es[e])
  OBVIOUS
<1>6. Rootless(t.out)
  BY <1>2, <1>3, <1>5, RootlessConcat DEF Plain
<1> QED
  BY <1>1, <1>5, <1>6 DEF Plain

\* What is written later leaves a namespace joined, unless it leaves it.
LEMMA JoinsWritten ==
  ASSUME NEW s \in EngineState, NEW ps \in Seq(Packet), NEW t, NEW n \in Nsp,
         t.out = s.out \o ps, t.joined = s.joined,
         \A i \in 1..Len(ps) : ~(ps[i].type = "disconnect" /\ ps[i].nsp = n),
         \/ Joins(s, n)
         \/ \E i \in 1..Len(ps) : ps[i].type = "connect" /\ ps[i].nsp = n
  PROVE  Joins(t, n)
<1> DEFINE q == s.out
           r == t.out
           m == Len(q)
           k == Len(ps)
<1>1. q \in Seq(Packet)
  BY DEF EngineState
<1>2. /\ m \in Nat /\ k \in Nat /\ Len(r) = m + k
      /\ \A i \in 1..m + k : r[i] = IF i <= m THEN q[i] ELSE ps[i - m]
  BY <1>1, PacketNumbers, ConcatPackets
<1> HIDE DEF q, r, m, k
<1>3. \A i \in 1..m : r[i] = q[i]
  BY <1>2
<1>4. \A i \in m + 1..m + k : i - m \in 1..k /\ r[i] = ps[i - m]
  BY <1>2
<1>5. \A i \in m + 1..m + k : ~(r[i].type = "disconnect" /\ r[i].nsp = n)
  BY <1>4 DEF k
<1>6. CASE Joins(s, n)
  <2>1. CASE \E i \in 1..m :
               /\ q[i].type = "connect" /\ q[i].nsp = n
               /\ \A j \in i + 1..m : ~(q[j].type = "disconnect" /\ q[j].nsp = n)
    <3>1. PICK i \in 1..m :
               /\ q[i].type = "connect" /\ q[i].nsp = n
               /\ \A j \in i + 1..m : ~(q[j].type = "disconnect" /\ q[j].nsp = n)
      BY <2>1
    <3>2. \A j \in i + 1..m + k : j \in i + 1..m \/ j \in m + 1..m + k
      BY <1>2
    <3>3. \A j \in i + 1..m : j \in 1..m
      BY <1>2
    <3>4. \A j \in i + 1..m + k : ~(r[j].type = "disconnect" /\ r[j].nsp = n)
      BY <1>3, <1>5, <3>1, <3>2, <3>3
    <3>5. i \in 1..m + k /\ r[i].type = "connect" /\ r[i].nsp = n
      BY <1>2, <1>3, <3>1
    <3> QED
      BY <1>2, <3>4, <3>5 DEF Joins, JoinsTo, r
  <2>2. CASE n \in s.joined /\ \A j \in 1..m : ~(q[j].type = "disconnect" /\ q[j].nsp = n)
    <3>1. \A j \in 1..m + k : j \in 1..m \/ j \in m + 1..m + k
      BY <1>2
    <3>2. \A j \in 1..m + k : ~(r[j].type = "disconnect" /\ r[j].nsp = n)
      BY <1>3, <1>5, <2>2, <3>1
    <3> QED
      BY <1>2, <2>2, <3>2 DEF Joins, JoinsTo, r
  <2> QED
    BY <1>6, <2>1, <2>2 DEF Joins, JoinsTo, q, m
<1>7. CASE \E i \in 1..k : ps[i].type = "connect" /\ ps[i].nsp = n
  <2>1. PICK i \in 1..k : ps[i].type = "connect" /\ ps[i].nsp = n
    BY <1>7
  <2>2. m + i \in m + 1..m + k /\ (m + i) - m = i /\ m + i \in 1..m + k
    BY <1>2
  <2>3. r[m + i].type = "connect" /\ r[m + i].nsp = n
    BY <1>4, <2>1, <2>2
  <2>4. \A j \in m + i + 1..m + k : j \in m + 1..m + k
    BY <1>2
  <2>5. \A j \in m + i + 1..m + k : ~(r[j].type = "disconnect" /\ r[j].nsp = n)
    BY <1>5, <2>4
  <2> QED
    BY <1>2, <2>2, <2>3, <2>5 DEF Joins, JoinsTo, r
<1> QED
  BY <1>6, <1>7 DEF k

\* Packets by which no socket leaves.
Staying(ps) == \A i \in 1..Len(ps) : ps[i].type # "disconnect"

LEMMA JoinedWritten ==
  ASSUME NEW c \in ClientState, NEW s \in EngineState, Joined(c, s),
         NEW ps \in Seq(Packet), Staying(ps),
         NEW t, t.out = s.out \o ps, t.joined = s.joined, t.replies = s.replies
  PROVE  Joined(c, t)
<1>1. \A n \in Nsp : Joins(s, n) => Joins(t, n)
  BY JoinsWritten DEF Staying
<1>2. ToSet(c.listening) \subseteq Nsp /\ Root \in Nsp
  <2>1. c.listening \in Seq(Nsp)
    BY DEF ClientState
  <2>2. \A i \in 1..Len(c.listening) : c.listening[i] \in Nsp
    BY <2>1, ElementOfSeq
  <2> QED
    BY <2>1, <2>2, ToSetIs, ClientAssumption
<1>3. RootReply(t) <=> RootReply(s)
  BY DEF RootReply
<1> QED
  BY <1>1, <1>2, <1>3 DEF Joined

\* Nothing is linked while the Manager is not open; and nothing changes where
\* neither it nor its engine does.
LEMMA NotLinked ==
  ASSUME NEW c, NEW es, c.state # "open"
  PROVE  Linked(c, es)
BY DEF Linked

LEMMA SameLink ==
  ASSUME NEW c, NEW es, NEW d, NEW fs, Linked(c, es),
         d.state = c.state, d.engine = c.engine, d.listening = c.listening,
         d.connected = c.connected, fs[c.engine] = es[c.engine]
  PROVE  Linked(d, fs)
BY DEF Linked, Joined

\* Writing on the Manager's engine.
LEMMA WriteLinked ==
  ASSUME NEW es \in [Engine -> EngineState], NEW c \in ClientState,
         c.engine \in Engine, NEW ps \in Seq(Packet), Staying(ps), Linked(c, es)
  PROVE  Linked(c, Write(es, c, ps))
<1> DEFINE e == c.engine
           s == es[e]
           t == Write(es, c, ps)[e]
<1>1. t.replies = s.replies /\ t.joined = s.joined /\ t.early = s.early
  BY WriteFacts
<1>2. t.out = IF s.state \in Alive THEN s.out \o ps ELSE s.out
  BY WriteFacts
<1>3. s \in EngineState
  OBVIOUS
<1> HIDE DEF t
<1>4. CASE t.out = s.out
  <2>1. Joined(c, s) => Joined(c, t)
    <3>1. /\ \A n, k : JoinsTo(s, n, k) <=> JoinsTo(t, n, k)
          /\ RootReply(s) <=> RootReply(t)
      BY <1>1, <1>4 DEF JoinsTo, RootReply
    <3>2. \A n : Joins(s, n) => Joins(t, n)
      BY <1>1, <1>4, <3>1 DEF Joins
    <3> QED
      BY <1>1, <1>4, <3>1, <3>2 DEF Joined
  <2> QED
    BY <1>1, <2>1 DEF Linked, t
<1>5. CASE t.out = s.out \o ps
  <2>1. Joined(c, s) => Joined(c, t)
    BY <1>1, <1>3, <1>5, JoinedWritten
  <2> QED
    BY <1>1, <2>1 DEF Linked, t
<1> QED
  BY <1>2, <1>4, <1>5

LEMMA CloseManagerClosed ==
  ASSUME NEW c \in ClientState, NEW es, NEW waits \in BOOLEAN, CloseManager(c, es, waits)
  PROVE  client'.state = "closed"
<1> DEFINE idle == IF c.state = "opening" THEN Cleanup(c) ELSE c
           closed == [idle EXCEPT !.skip = TRUE, !.reconnecting = FALSE,
                                  !.attempts = 0, !.state = "closed"]
<1>1. client' \in {closed, CloseEvent(closed, c.engine)}
  BY DEF CloseManager
<1>2. idle \in ClientState
  BY CleanupFacts
<1> HIDE DEF idle
<1>3. closed \in ClientState /\ closed.state = "closed"
  <2>1. 0 \in 0..Attempts
    BY ClientAssumption
  <2> QED
    BY <1>2, <2>1 DEF ClientState
<1> HIDE DEF closed
<1> QED
  BY <1>1, <1>3, OnCloseFacts DEF CloseEvent

LEMMA CloseManagerPlain ==
  ASSUME NEW c, NEW es \in [Engine -> EngineState], c.engine \in Engine,
         NEW waits \in BOOLEAN, CloseManager(c, es, waits),
         \A e \in Engine : Plain(es[e])
  PROVE  \A e \in Engine : Plain(engines'[e])
<1> DEFINE old == es[c.engine].state
           new == CASE old \notin Alive -> old
                    [] old \in Alive /\ ~waits -> "closed"
                    [] old = "open" /\ waits -> "closing"
                    [] old = "opening" /\ waits -> "stalled"
           t == [es[c.engine] EXCEPT !.state = new]
<1>1. engines' = [es EXCEPT ![c.engine] =
                    IF new = "closed" THEN Closed ELSE [@ EXCEPT !.state = new]]
  BY DEF CloseManager
<1> HIDE DEF new
<1>2. t.out = es[c.engine].out /\ t.replies = es[c.engine].replies
  BY DEF EngineState
<1>3. engines'[c.engine] \in {Closed, t} /\ \A e \in Engine \ {c.engine} : engines'[e] = es[e]
  BY <1>1
<1> HIDE DEF t
<1>4. Plain(t)
  BY <1>2 DEF Plain, Rootless
<1> QED
  BY <1>3, <1>4, PlainNew

LEMMA JoinPrimed ==
  ASSUME names' = names, \A e \in Engine : Plain(engines'[e]), Linked(client', engines')
  PROVE  JoinInv'
<1>1. (\A e \in Engine : Plain(engines[e]))'
  BY DEF Plain, Rootless
<1>2. Linked(client, engines)'
  BY DEF Linked, Joined, Joins, JoinsTo, RootReply
<1> QED
  BY <1>1, <1>2 DEF JoinInv

LEMMA SinglePacket ==
  ASSUME NEW p \in Packet
  PROVE  /\ <<p>> \in Seq(Packet)
         /\ p.type # "disconnect" => Staying(<<p>>)
         /\ ~(p.type = "connect" /\ p.nsp = Root) => Rootless(<<p>>)
<1>1. <<p>> \in Seq(Packet) /\ Len(<<p>>) = 1 /\ <<p>>[1] = p
  OBVIOUS
<1> DEFINE ps == <<p>>
<1> HIDE DEF ps
<1>2. Len(ps) = 1 /\ ps[1] = p
  BY <1>1 DEF ps
<1>3. p.type # "disconnect" => Staying(ps)
  BY <1>2 DEF Staying
<1>4. ~(p.type = "connect" /\ p.nsp = Root) => Rootless(ps)
  BY <1>2 DEF Rootless
<1> QED
  BY <1>1, <1>3, <1>4 DEF ps

LEMMA NamesType ==
  ASSUME NEW c \in ClientState
  PROVE  ToSet(c.listening) \subseteq Nsp
<1>1. c.listening \in Seq(Nsp)
  BY DEF ClientState
<1>2. \A i \in 1..Len(c.listening) : c.listening[i] \in Nsp
  BY <1>1, ElementOfSeq
<1> QED
  BY <1>1, <1>2, ToSetIs

LEMMA ConnectJoins ==
  ASSUME IInv, JoinInv, NEW n \in Nsp, Connect(n)
  PROVE  JoinInv'
<1> DEFINE q == IF Listens(n) THEN client.listening ELSE Append(client.listening, n)
           c == [client EXCEPT !.made = @ \cup {n}, !.listening = q]
           d == NewNumber(c)
           p == ConnectPacket(n)
           ps == <<p>>
           es == Write(engines, c, ps)
<1>1. client \in ClientState /\ engines \in [Engine -> EngineState]
      /\ Listening(client) /\ Manager(client, engines)
      /\ Linked(client, engines) /\ \A e \in Engine : Plain(engines[e])
  BY DEF IInv, Consistent, JoinInv
<1>2. \/ /\ c.state \in Alive /\ client' = c
         /\ engines' = IF c.state = "open" /\ n # Root THEN es ELSE engines
      \/ /\ Free(c) # {} /\ client' = OpenOn(c, d, FALSE)
         /\ engines' = [engines EXCEPT ![d] = NewEngine]
  BY DEF Connect
<1>3. q \in Seq(Nsp) /\ ToSet(q) = ToSet(client.listening) \cup {n}
  <2>1. client.listening \in Seq(Nsp)
    BY <1>1 DEF ClientState
  <2>2. CASE Listens(n)
    BY <1>1, <2>1, <2>2, ListensIs
  <2>3. CASE ~Listens(n)
    BY <1>1, <2>1, <2>3, ListensIs, AppendListening DEF Listening
  <2> QED
    BY <2>2, <2>3
<1> HIDE DEF q
<1>4. /\ c \in ClientState /\ c.connected = client.connected /\ c.listening = q
      /\ c.engine = client.engine /\ c.state = client.state
  BY <1>1, <1>3 DEF ClientState
<1>5. Free(c) # {} => d \in Engine
  BY NewNumberFree DEF Free
<1>6. p \in Packet /\ p.type = "connect" /\ p.nsp = n
  BY Packets DEF ConnectPacket
<1>7. ps \in Seq(Packet) /\ Staying(ps) /\ (n # Root => Rootless(ps))
      /\ Len(ps) = 1 /\ ps[1] = p
  BY <1>6, SinglePacket
<1> HIDE DEF c, d, p, ps
<1>8. names' = names
  BY DEF Connect
<1>9. CASE client' = c /\ engines' = engines /\ (c.state # "open" \/ n = Root)
  <2>1. Linked(c, engines)
    BY <1>1, <1>3, <1>4, <1>9 DEF Linked, Joined
  <2> QED
    BY <1>1, <1>8, <1>9, <2>1, JoinPrimed
<1>10. CASE client' = c /\ engines' = es /\ c.state = "open" /\ n # Root
  <2>1. c.engine \in Engine /\ engines[c.engine].state \in Alive
    BY <1>1, <1>4, <1>10, EngineNamed DEF IInv, Manager, Alive
  <2>2. \A e \in Engine : Plain(es[e])
    BY <1>1, <1>4, <1>7, <1>10, <2>1, PlainWritten
  <2>3. Linked(client, es)
    <3>1. es = Write(engines, client, ps)
      BY <1>4 DEF Write
    <3> QED
      BY <1>1, <1>4, <1>7, <2>1, <3>1, WriteLinked
  <2> DEFINE s == engines[c.engine]
             t == es[c.engine]
  <2>4. s \in EngineState /\ t.joined = s.joined /\ t.out = s.out \o ps
    <3>1. es = Write(engines, client, ps) /\ c.engine = client.engine
      BY <1>4, <1>7 DEF Write
    <3>2. /\ engines \in [Engine -> EngineState] /\ client \in ClientState
          /\ client.engine \in Engine /\ ps \in Seq(Packet)
      BY <1>1, <1>4, <1>7, <2>1, <3>1
    <3>3. t.joined = s.joined
      BY <3>1, <3>2, WriteFacts
    <3>4. t.out = s.out \o ps
      <4>1. Write(engines, client, ps)[client.engine].out =
              IF engines[client.engine].state \in Alive
              THEN engines[client.engine].out \o ps ELSE engines[client.engine].out
        BY <3>2, WriteFacts
      <4> QED
        BY <2>1, <3>1, <4>1
    <3> QED
      BY <2>1, <3>2, <3>3, <3>4
  <2> HIDE DEF s, t
  <2>5. Joins(t, n)
    <3>1. \A i \in 1..Len(ps) : ~(ps[i].type = "disconnect" /\ ps[i].nsp = n)
      BY <1>7 DEF Staying
    <3>2. \E i \in 1..Len(ps) : ps[i].type = "connect" /\ ps[i].nsp = n
      BY <1>6, <1>7
    <3> QED
      BY <1>7, <2>4, <3>1, <3>2, JoinsWritten
  <2>6. Linked(c, es)
    BY <1>3, <1>4, <1>10, <2>3, <2>5 DEF Linked, Joined, t
  <2> QED
    BY <1>8, <1>10, <2>2, <2>6, JoinPrimed
<1>11. CASE /\ Free(c) # {} /\ client' = OpenOn(c, d, FALSE)
            /\ engines' = [engines EXCEPT ![d] = NewEngine]
  <2>1. OpenOn(c, d, FALSE).state = "opening"
    BY <1>4, <1>5, <1>11, OpenOnFacts
  <2>2. Linked(client', engines')
    BY <1>11, <2>1, NotLinked
  <2>3. \A e \in Engine : Plain(engines'[e])
    BY <1>1, <1>11, PlainNew
  <2> QED
    BY <1>8, <2>2, <2>3, JoinPrimed
<1> QED
  BY <1>2, <1>9, <1>10, <1>11

LEMMA DisconnectJoins ==
  ASSUME IInv, JoinInv, NEW n \in Nsp, Disconnect(n)
  PROVE  JoinInv'
<1>1. client \in ClientState /\ engines \in [Engine -> EngineState]
      /\ Listening(client) /\ Manager(client, engines)
      /\ Linked(client, engines) /\ \A e \in Engine : Plain(engines[e])
  BY DEF IInv, Consistent, JoinInv
<1>2. PICK i \in 1..Len(client.listening) :
        LET c == [client EXCEPT !.listening = RemoveAt(@, i), !.connected = @ \ {n}]
            es == IF n \in client.connected
                  THEN Write(engines, client, <<DisconnectPacket(n)>>) ELSE engines
        IN  /\ client.listening[i] = n
            /\ IF c.listening # <<>> THEN client' = c /\ engines' = es
               ELSE \E waits \in BOOLEAN : CloseManager(c, es, waits)
  BY DEF Disconnect
<1> DEFINE c == [client EXCEPT !.listening = RemoveAt(@, i), !.connected = @ \ {n}]
           p == DisconnectPacket(n)
           ps == <<p>>
           es == IF n \in client.connected THEN Write(engines, client, ps) ELSE engines
<1>3. client.listening \in Seq(Nsp) /\ client.listening # <<>>
  <2>1. client.listening \in Seq(Nsp)
    BY <1>1 DEF ClientState
  <2> QED
    BY <1>2, <2>1, EmptySeq
<1>4. /\ RemoveAt(client.listening, i) \in Seq(Nsp)
      /\ ToSet(RemoveAt(client.listening, i)) = ToSet(client.listening) \ {n}
  BY <1>1, <1>2, <1>3, RemoveListening DEF Listening
<1>5. /\ c \in ClientState /\ c.connected = client.connected \ {n}
      /\ ToSet(c.listening) = ToSet(client.listening) \ {n}
      /\ c.engine = client.engine /\ c.state = client.state
  BY <1>1, <1>4 DEF ClientState
<1>6. client.engine \in Engine
  BY <1>1, <1>3 DEF Manager, ClientState
<1>7. ps \in Seq(Packet) /\ Rootless(ps) /\ Len(ps) = 1 /\ ps[1] = p
      /\ p.type = "disconnect" /\ p.nsp = n
  <2>1. p \in Packet /\ p.type = "disconnect" /\ p.nsp = n
    BY Packets DEF DisconnectPacket
  <2> QED
    BY <2>1, SinglePacket
<1>8. \/ client' = c /\ engines' = es
      \/ c.listening = <<>> /\ \E waits \in BOOLEAN : CloseManager(c, es, waits)
  BY <1>2
<1> HIDE DEF p, ps
<1>9. es \in [Engine -> EngineState] /\ \A e \in Engine : Plain(es[e])
  <2>1. CASE n \in client.connected
    BY <1>1, <1>6, <1>7, <2>1, WriteFacts, PlainWritten
  <2>2. CASE n \notin client.connected
    BY <1>1, <2>2
  <2> QED
    BY <2>1, <2>2
<1> HIDE DEF c
<1>10. Linked(c, es)
  <2>1. CASE n \notin client.connected
    BY <1>1, <1>5, <2>1 DEF Linked, Joined
  <2>2. CASE n \in client.connected
    <3> SUFFICES ASSUME names, c.state = "open", ~es[c.engine].early
                 PROVE  Joined(c, es[c.engine])
      BY DEF Linked
    <3> DEFINE s == engines[client.engine]
               t == Write(engines, client, ps)[client.engine]
    <3>1. es[c.engine] = t
      BY <1>5, <2>2
    <3>2. t.joined = s.joined /\ t.replies = s.replies /\ t.early = s.early
      BY <1>1, <1>6, <1>7, WriteFacts
    <3>3. t.out = IF s.state \in Alive THEN s.out \o ps ELSE s.out
      BY <1>1, <1>6, <1>7, WriteFacts
    <3>4. s.state \in Alive /\ s \in EngineState
      BY <1>1, <1>5, <1>6 DEF Manager, Alive
    <3>5. Joined(client, s)
      BY <1>1, <1>5, <3>1, <3>2 DEF Linked
    <3> HIDE DEF es, s, t
    <3>6. ASSUME NEW x \in Nsp, x # n, Joins(s, x) PROVE Joins(t, x)
      <4>1. \A j \in 1..Len(ps) : ~(ps[j].type = "disconnect" /\ ps[j].nsp = x)
        BY <1>7, <3>6
      <4> QED
        BY <1>7, <3>2, <3>3, <3>4, <3>6, <4>1, JoinsWritten
    <3>7. RootReply(t) <=> RootReply(s)
      BY <3>2 DEF RootReply
    <3>8. Root \in Nsp /\ ToSet(client.listening) \subseteq Nsp
      BY <1>1, NamesType, ClientAssumption
    <3>9. Joined(c, t)
      BY <1>5, <2>2, <3>5, <3>6, <3>7, <3>8 DEF Joined
    <3> QED
      BY <3>1, <3>9
  <2> QED
    BY <2>1, <2>2
<1> HIDE DEF es
<1>11. names' = names
  BY DEF Disconnect
<1>12. CASE client' = c /\ engines' = es
  BY <1>9, <1>10, <1>11, <1>12, JoinPrimed
<1>13. CASE c.listening = <<>> /\ \E waits \in BOOLEAN : CloseManager(c, es, waits)
  <2>1. PICK waits \in BOOLEAN : CloseManager(c, es, waits)
    BY <1>13
  <2>2. client'.state = "closed"
    BY <1>5, <2>1, CloseManagerClosed
  <2>3. \A e \in Engine : Plain(engines'[e])
    BY <1>5, <1>6, <1>9, <2>1, CloseManagerPlain
  <2> QED
    BY <1>11, <2>2, <2>3, NotLinked, JoinPrimed
<1> QED
  BY <1>8, <1>12, <1>13

\* Events on a connection say nothing about namespaces.
LEMMA EventsWritten ==
  ASSUME JoinInv, client \in ClientState, engines \in [Engine -> EngineState],
         client.engine \in Engine, names' = names,
         NEW ps \in Seq(Packet), \A i \in 1..Len(ps) : ps[i].type = "event",
         engines' = Write(engines, client, ps),
         client'.state = client.state, client'.engine = client.engine,
         client'.listening = client.listening, client'.connected = client.connected
  PROVE  JoinInv'
<1>1. Rootless(ps) /\ Staying(ps)
  BY DEF Rootless, Staying
<1>2. \A e \in Engine : Plain(engines'[e])
  BY <1>1, PlainWritten DEF JoinInv
<1>3. Linked(client, engines')
  BY <1>1, WriteLinked DEF JoinInv
<1>4. Linked(client', engines')
  BY <1>3, SameLink
<1> QED
  BY <1>2, <1>4, JoinPrimed

LEMMA EmitJoins ==
  ASSUME IInv, JoinInv, NEW n \in Nsp, Emit(n)
  PROVE  JoinInv'
<1> DEFINE p == EventPacket(n, emitted + 1)
           ps == <<p>>
           b == Append(client.buffer[n], emitted + 1)
<1>1. client \in ClientState /\ engines \in [Engine -> EngineState]
      /\ Listening(client) /\ Manager(client, engines) /\ names' = names
      /\ emitted + 1 \in 1..MaxEmits
  BY ClientAssumption DEF IInv, Consistent, Counted, Emit
<1>2. CASE n \in client.connected
  <2>1. client' = client /\ engines' = Write(engines, client, ps)
    BY <1>2 DEF Emit
  <2>2. client.engine \in Engine
    BY <1>1, <1>2, ToSetEmpty DEF Manager, Listening, ClientState
  <2>3. p \in Packet /\ p.type = "event"
    BY <1>1, Packets DEF EventPacket
  <2>4. ps \in Seq(Packet) /\ Len(ps) = 1 /\ ps[1] = p
    BY <2>3
  <2> HIDE DEF p, ps
  <2>5. \A i \in 1..Len(ps) : ps[i].type = "event"
    BY <2>3, <2>4
  <2> QED
    BY <1>1, <2>1, <2>2, <2>4, <2>5, EventsWritten
<1>3. CASE n \notin client.connected
  <2>1. client' = [client EXCEPT !.buffer = [@ EXCEPT ![n] = b]] /\ engines' = engines
    BY <1>3 DEF Emit
  <2> HIDE DEF b
  <2>2. /\ client'.state = client.state /\ client'.engine = client.engine
        /\ client'.listening = client.listening /\ client'.connected = client.connected
    BY <1>1, <2>1 DEF ClientState
  <2> QED
    BY <1>1, <2>1, <2>2, SameLink, JoinPrimed DEF JoinInv
<1> QED
  BY <1>2, <1>3

LEMMA OnConnectReturnsJoins ==
  ASSUME IInv, JoinInv, OnConnectReturns
  PROVE  JoinInv'
<1> DEFINE n == client.resume.nsp
           b == client.buffer
           queue == b[n]
           ps == [i \in 1..Len(queue) |-> EventPacket(n, queue[i])]
           a == [b EXCEPT ![n] = <<>>]
<1>1. client \in ClientState /\ engines \in [Engine -> EngineState]
      /\ Manager(client, engines) /\ b \in [Nsp -> Seq(1..MaxEmits)]
      /\ client.resume.call = "onconnect" /\ names' = names
  BY DEF IInv, Consistent, ClientState, OnConnectReturns
<1>2. /\ client' = [client EXCEPT !.buffer = a, !.resume = Nothing]
      /\ engines' = Write(engines, client, ps)
  BY <1>1 DEF OnConnectReturns, ClientState
<1>3. n \in Nsp
  BY <1>1 DEF ClientState, Resumes
<1> HIDE DEF n, a
<1>4. ps \in Seq(Packet) /\ Len(ps) = Len(queue)
      /\ \A i \in 1..Len(ps) : ps[i] = EventPacket(n, queue[i])
  <2>1. Len(queue) \in Nat /\ \A i \in 1..Len(queue) : queue[i] \in 0..MaxEmits
    BY <1>1, <1>3, BufferNumbers
  <2> HIDE DEF queue
  <2>2. \A i \in 1..Len(queue) : EventPacket(n, queue[i]) \in Packet
    BY <1>3, <2>1, Packets
  <2>3. ps \in [1..Len(queue) -> Packet]
    BY <2>2
  <2> QED
    BY <2>1, <2>3
<1> HIDE DEF ps, queue
<1>5. \A i \in 1..Len(ps) : ps[i].type = "event"
  <2>1. \A k : EventPacket(n, k).type = "event"
    BY DEF EventPacket
  <2> QED
    BY <1>4, <2>1
<1>6. client.engine \in Engine
  BY <1>1 DEF Manager, ClientState
<1>7. /\ client'.state = client.state /\ client'.engine = client.engine
      /\ client'.listening = client.listening /\ client'.connected = client.connected
  BY <1>1, <1>2 DEF ClientState
<1> QED
  BY <1>1, <1>2, <1>4, <1>5, <1>6, <1>7, EventsWritten

LEMMA OtherReturnsJoins ==
  ASSUME IInv, JoinInv, OnCloseReturns \/ AttemptReturns \/ ConnectErrorReturns
  PROVE  JoinInv'
<1> DEFINE c == [client EXCEPT !.resume = Nothing]
           retry == [c EXCEPT !.reconnecting = FALSE]
           d == NewNumber(c)
<1>1. client \in ClientState /\ engines \in [Engine -> EngineState]
      /\ Manager(client, engines) /\ \A e \in Engine : Plain(engines[e])
  BY DEF IInv, Consistent, JoinInv
<1>2. client.resume.call \in {"onclose", "attempt", "connect_error"}
  <2>1. OnCloseReturns => client.resume.call = "onclose"
    BY DEF OnCloseReturns
  <2>2. AttemptReturns => client.resume.call = "attempt"
    BY DEF AttemptReturns, Attempting
  <2>3. ConnectErrorReturns => client.resume.call = "connect_error"
    BY DEF ConnectErrorReturns
  <2> QED
    BY <2>1, <2>2, <2>3
<1>3. client.state # "open"
  BY <1>1, <1>2 DEF Manager
<1>4. names' = names
  BY DEF OnCloseReturns, AttemptReturns, ConnectErrorReturns
<1>5. \A x \in {c, retry} : x \in ClientState /\ x.state # "open"
  BY <1>1, <1>3, ResumesType DEF ClientState
<1>6. CASE OnCloseReturns
  <2> DEFINE left == client.resume.left
             gone == client.connected \ {Head(left)}
             rest == Closing(Tail(left))
  <2>1. \/ client' = [client EXCEPT !.connected = gone, !.resume = rest]
        \/ client' = Reconnect(c)
    BY <1>1, <1>6 DEF OnCloseReturns, ClientState
  <2>2. engines' = engines
    BY <1>6 DEF OnCloseReturns
  <2> HIDE DEF gone, rest, left, c
  <2>3. client'.state # "open"
    BY <1>1, <1>3, <1>5, <2>1, ReconnectFacts DEF ClientState
  <2> QED
    BY <1>1, <1>4, <2>2, <2>3, NotLinked, JoinPrimed
<1>7. CASE AttemptReturns
  <2>1. \/ client' = c /\ engines' = engines
        \/ /\ Free(c) # {} /\ client' = OpenOn(c, d, TRUE)
           /\ engines' = [engines EXCEPT ![d] = NewEngine]
    BY <1>7 DEF AttemptReturns
  <2>2. Free(c) # {} => d \in Engine
    BY NewNumberFree DEF Free
  <2> HIDE DEF c, d
  <2>3. CASE client' = c /\ engines' = engines
    BY <1>1, <1>4, <1>5, <2>3, NotLinked, JoinPrimed
  <2>4. CASE /\ Free(c) # {} /\ client' = OpenOn(c, d, TRUE)
             /\ engines' = [engines EXCEPT ![d] = NewEngine]
    <3>1. OpenOn(c, d, TRUE).state = "opening"
      BY <1>5, <2>2, <2>4, OpenOnFacts
    <3>2. \A e \in Engine : Plain(engines'[e])
      BY <1>1, <2>4, PlainNew
    <3>3. Linked(client', engines')
      BY <2>4, <3>1, NotLinked
    <3> QED
      BY <1>4, <3>2, <3>3, JoinPrimed
  <2> QED
    BY <2>1, <2>3, <2>4
<1>8. CASE ConnectErrorReturns
  <2>1. engines' = engines /\ (client' = Reconnect(retry) \/ client' = MaybeReconnectOnOpen(c))
    BY <1>8 DEF ConnectErrorReturns
  <2> HIDE DEF c, retry
  <2>2. client' \in {c, Reconnect(c), Reconnect(retry)}
    BY <2>1 DEF MaybeReconnectOnOpen
  <2>3. client'.state # "open"
    BY <1>5, <2>2, ReconnectFacts
  <2> QED
    BY <1>1, <1>4, <2>1, <2>3, NotLinked, JoinPrimed
<1> QED
  BY <1>6, <1>7, <1>8

\* The handshake: the server joins "/", and what was not written before is
\* asked for now.
LEMMA EngineOpensJoins ==
  ASSUME IInv, JoinInv, NEW e \in Engine, EngineOpens(e)
  PROVE  JoinInv'
<1> DEFINE heard == \E fn \in BOOLEAN : Opening(e, fn) \in client.subs
           own == Opening(e, TRUE) \in client.subs
           q == engines[e].out
           early == q # <<>>
           s == [engines[e] EXCEPT !.state = "open", !.joined = {Root},
                                   !.replies = <<Root>>, !.early = early]
           es == [engines EXCEPT ![e] = s]
           ps == Requests(client)
<1>1. client \in ClientState /\ engines \in [Engine -> EngineState]
      /\ Sockets(client) /\ Manager(client, engines) /\ Linked(client, engines)
      /\ client.resume.call = "none" /\ names' = names
      /\ engines[e].state = "opening" /\ \A x \in Engine : Plain(engines[x])
  BY DEF IInv, Consistent, EngineOpens, JoinInv, Quiet, Nothing
<1>2. /\ client' = IF heard THEN OnOpen(client, own) ELSE client
      /\ engines' = IF heard THEN Write(es, client, ps) ELSE es
  BY <1>1 DEF EngineOpens
<1>3. heard => client.state = "opening" /\ client.engine = e
  BY <1>1, EngineHeard
<1>4. own \in BOOLEAN /\ early \in BOOLEAN
  OBVIOUS
<1> HIDE DEF own, heard, early
<1>5. /\ s \in EngineState /\ s.out = q /\ s.joined = {Root} /\ s.replies = <<Root>>
      /\ s.early = early /\ s.state = "open"
  <2>1. <<Root>> \in Seq(Nsp) /\ {Root} \in SUBSET Nsp
    BY ClientAssumption
  <2>2. engines[e] \in EngineState
    BY <1>1
  <2> QED
    BY <1>4, <2>1, <2>2 DEF EngineState
<1> HIDE DEF s
<1>6. Plain(s)
  <2>1. Rootless(s.out)
    BY <1>1, <1>5 DEF Plain
  <2>2. Len(s.replies) = 1
    BY <1>5
  <2> QED
    BY <2>1, <2>2 DEF Plain
<1>7. /\ es \in [Engine -> EngineState] /\ es[e] = s /\ \A x \in Engine : Plain(es[x])
      /\ \A x \in Engine : x # e => es[x] = engines[x]
  BY <1>1, <1>5, <1>6
<1>8. /\ ps \in Seq(Packet) /\ Rootless(ps) /\ Staying(ps)
      /\ \A n \in ToSet(client.listening) \ {Root} :
           \E j \in 1..Len(ps) : ps[j].type = "connect" /\ ps[j].nsp = n
  <2>1. ps \in Seq(Packet) /\ \A j \in 1..Len(ps) : ps[j].type = "connect" /\ ps[j].nsp # Root
    BY <1>1, RequestsFacts
  <2>2. \A n \in ToSet(client.listening) \ {Root} :
          \E j \in 1..Len(ps) : ps[j] = ConnectPacket(n)
    BY <1>1, RequestsFacts
  <2>3. \A n : ConnectPacket(n).type = "connect" /\ ConnectPacket(n).nsp = n
    BY DEF ConnectPacket
  <2> QED
    BY <2>1, <2>2, <2>3 DEF Rootless, Staying
<1> HIDE DEF es, ps
<1>9. CASE heard
  <2> DEFINE t == Write(es, client, ps)[e]
  <2>1. engines' = Write(es, client, ps) /\ \A x \in Engine : Plain(engines'[x])
    BY <1>1, <1>2, <1>3, <1>7, <1>8, <1>9, PlainWritten
  <2>2. t.joined = {Root} /\ t.replies = <<Root>> /\ t.early = early
    <3>1. t.joined = es[e].joined /\ t.replies = es[e].replies /\ t.early = es[e].early
      BY <1>1, <1>3, <1>7, <1>8, <1>9, WriteFacts
    <3> QED
      BY <1>5, <1>7, <3>1
  <2>3. t.out = s.out \o ps
    <3>1. t.out = IF e = client.engine /\ es[e].state \in Alive
                  THEN es[e].out \o ps ELSE es[e].out
      BY <1>1, <1>3, <1>7, <1>8, <1>9, WriteFacts
    <3> QED
      BY <1>3, <1>5, <1>7, <1>9, <3>1 DEF Alive
  <2>4. /\ client'.engine = e /\ client'.listening = client.listening
        /\ client'.connected = client.connected
    BY <1>1, <1>2, <1>3, <1>4, <1>9, OnOpenFacts
  <2>5. client.connected = {}
    BY <1>1, <1>3, <1>9 DEF Sockets
  <2> HIDE DEF t
  <2>6. ASSUME ~early PROVE Joined(client', t)
    <3>1. s.out = <<>> /\ Len(s.out) = 0
      BY <1>5, <2>6 DEF early
    <3>2. Joins(s, Root)
      BY <1>5, <3>1 DEF Joins, JoinsTo
    <3>3. /\ s \in EngineState /\ ps \in Seq(Packet)
          /\ t.out = s.out \o ps /\ t.joined = s.joined
      BY <1>5, <1>8, <2>2, <2>3
    <3>4. \A n \in Nsp : \A i \in 1..Len(ps) : ~(ps[i].type = "disconnect" /\ ps[i].nsp = n)
      BY <1>8 DEF Staying
    <3>5. Joins(t, Root)
      <4>1. Root \in Nsp
        BY ClientAssumption
      <4>2. \A i \in 1..Len(ps) : ~(ps[i].type = "disconnect" /\ ps[i].nsp = Root)
        BY <3>4, <4>1
      <4> QED
        BY <3>2, <3>3, <4>1, <4>2, JoinsWritten
    <3>6. ASSUME NEW n \in ToSet(client.listening) \ {Root} PROVE Joins(t, n)
      <4>1. n \in Nsp
        BY <1>1, NamesType
      <4>2. \E i \in 1..Len(ps) : ps[i].type = "connect" /\ ps[i].nsp = n
        BY <1>8
      <4>3. \A i \in 1..Len(ps) : ~(ps[i].type = "disconnect" /\ ps[i].nsp = n)
        BY <3>4, <4>1
      <4>4. Joins(s, n) \/ \E i \in 1..Len(ps) : ps[i].type = "connect" /\ ps[i].nsp = n
        BY <4>2
      <4> QED
        BY <3>3, <4>1, <4>3, <4>4, JoinsWritten
    <3> QED
      BY <2>4, <2>5, <3>5, <3>6 DEF Joined
  <2>7. Linked(client', engines')
    BY <2>1, <2>2, <2>4, <2>6 DEF Linked, t
  <2> QED
    BY <1>1, <2>1, <2>7, JoinPrimed
<1>10. CASE ~heard
  <2>1. client' = client /\ engines' = es
    BY <1>2, <1>10
  <2>2. client.state = "open" => client.engine \in Engine /\ client.engine # e
    BY <1>1 DEF Manager, ClientState
  <2>3. Linked(client, es)
    BY <1>1, <1>7, <2>2, SameLink, NotLinked
  <2> QED
    BY <1>1, <1>7, <2>1, <2>3, JoinPrimed
<1> QED
  BY <1>9, <1>10

\* An engine that ends closes its Manager, if it is open, or is not its own.
LEMMA EndJoins ==
  ASSUME IInv, JoinInv, names' = names, NEW e \in Engine, NEW s, Plain(s),
         engines' = [engines EXCEPT ![e] = s],
         client'.state # "open" \/ ( /\ client'.state = client.state
                                    /\ client'.engine = client.engine /\ client.engine # e
                                    /\ client'.listening = client.listening
                                    /\ client'.connected = client.connected)
  PROVE  JoinInv'
<1>1. engines \in [Engine -> EngineState] /\ Linked(client, engines)
      /\ client \in ClientState /\ Manager(client, engines)
      /\ \A x \in Engine : Plain(engines[x])
  BY DEF IInv, Consistent, JoinInv
<1>2. \A x \in Engine : Plain(engines'[x])
  BY <1>1
<1>3. Linked(client', engines')
  <2>1. CASE client'.state # "open"
    BY <2>1, NotLinked
  <2>2. CASE client'.state = "open"
    <3>1. client.engine \in Engine
      BY <1>1, <2>2 DEF Manager, ClientState
    <3>2. engines'[client.engine] = engines[client.engine]
      BY <1>1, <2>2, <3>1
    <3> QED
      BY <1>1, <2>2, <3>2, SameLink
  <2> QED
    BY <2>1, <2>2
<1> QED
  BY <1>2, <1>3, JoinPrimed

LEMMA EngineEndsJoins ==
  ASSUME IInv, JoinInv, NEW e \in Engine, EngineFails(e) \/ TimesOut(e)
  PROVE  JoinInv'
<1> DEFINE c == [client EXCEPT !.subs = {s \in @ : s.sub # "open"}]
           late == [engines[e] EXCEPT !.state = "stalled"]
<1>1. client \in ClientState /\ engines \in [Engine -> EngineState]
      /\ Manager(client, engines) /\ \A x \in Engine : Plain(engines[x])
  BY DEF IInv, Consistent, JoinInv
<1>2. names' = names
  BY DEF EngineFails, TimesOut
<1>3. \E x \in {client, c} : client' = ErrorEvent(x, e)
  BY <1>1 DEF EngineFails, TimesOut
<1>4. \E s \in {Closed, late} : engines' = [engines EXCEPT ![e] = s]
  BY <1>1 DEF EngineFails, TimesOut
<1>5. client.state = "open" => client.engine # e
  <2>1. CASE EngineFails(e)
    BY <1>1, <2>1 DEF EngineFails, Manager
  <2>2. CASE TimesOut(e)
    <3>1. Timeout(e) \in client.subs /\ Timeout(e).sub = "timeout"
      BY <2>2 DEF TimesOut, Timeout
    <3> QED
      BY <1>1, <3>1 DEF Manager
  <2> QED
    BY <2>1, <2>2
<1>6. Plain(late)
  <2>1. late.out = engines[e].out /\ late.replies = engines[e].replies
    BY <1>1 DEF EngineState
  <2> HIDE DEF late
  <2> QED
    BY <1>1, <2>1 DEF Plain, Rootless
<1>7. c \in ClientState /\ c.state = client.state /\ c.engine = client.engine
      /\ c.listening = client.listening /\ c.connected = client.connected
  BY <1>1 DEF ClientState
<1> HIDE DEF c, late
<1>8. PICK x \in {client, c} : client' = ErrorEvent(x, e)
  BY <1>3
<1>9. client' = x \/ client'.state = "closed"
  <2> DEFINE fn == Failing(e, TRUE) \in x.subs
             d == Cleanup(x)
  <2>1. ErrorEvent(x, e) \in {x, [d EXCEPT !.state = "closed", !.resume = Reporting(fn)]}
    BY DEF ErrorEvent
  <2>2. d \in ClientState
    BY <1>1, <1>7, CleanupFacts
  <2> HIDE DEF d, fn
  <2> QED
    BY <1>8, <2>1, <2>2 DEF ClientState
<1>10. PICK s \in {Closed, late} : engines' = [engines EXCEPT ![e] = s]
  BY <1>4
<1>11. Plain(s)
  BY <1>6, <1>10, PlainNew
<1>12. client'.state # "open" \/ ( /\ client'.state = client.state
                                   /\ client'.engine = client.engine /\ client.engine # e
                                   /\ client'.listening = client.listening
                                   /\ client'.connected = client.connected)
  BY <1>5, <1>7, <1>8, <1>9
<1> QED
  BY <1>2, <1>10, <1>11, <1>12, EndJoins

LEMMA CloseEventJoins ==
  ASSUME IInv, JoinInv, names' = names, NEW e \in Engine,
         client' = CloseEvent(client, e), engines' = [engines EXCEPT ![e] = Closed]
  PROVE  JoinInv'
<1>1. client \in ClientState /\ Manager(client, engines)
  BY DEF IInv, Consistent
<1>2. CASE Live(e) \in client.subs
  <2>1. client'.state = "closed"
    BY <1>1, <1>2, OnCloseFacts DEF CloseEvent
  <2> QED
    BY <2>1, PlainNew, EndJoins
<1>3. CASE Live(e) \notin client.subs
  <2>1. client' = client /\ (client.state = "open" => client.engine # e)
    BY <1>1, <1>3 DEF CloseEvent, Manager
  <2> QED
    BY <2>1, PlainNew, EndJoins
<1> QED
  BY <1>2, <1>3

LEMMA DrainJoins ==
  ASSUME IInv, JoinInv, NEW e \in Engine, Drain(e)
  PROVE  JoinInv'
<1>1. client \in ClientState /\ engines \in [Engine -> EngineState]
      /\ Linked(client, engines) /\ names \in BOOLEAN /\ names' = names
      /\ \A x \in Engine : Plain(engines[x])
  BY DEF IInv, Consistent, Counted, Drain, JoinInv
<1>2. CASE engines[e].state = "closing"
  <2>1. client' = CloseEvent(client, e) /\ engines' = [engines EXCEPT ![e] = Closed]
    BY <1>2 DEF Drain
  <2> QED
    BY <1>1, <2>1, CloseEventJoins
<1>3. CASE engines[e].state # "closing"
  <2> DEFINE s == engines[e]
             t == Served(s)
  <2>1. client' = client /\ engines' = [engines EXCEPT ![e] = t]
    BY <1>3 DEF Drain
  <2>2. s \in EngineState /\ Plain(s)
    BY <1>1
  <2>3. Stage(t, s, Len(s.out))
    BY <1>1, <2>2, ServedFacts
  <2> HIDE DEF s, t
  <2>4. t.early = s.early /\ t.out = <<>> /\ Len(t.out) = 0
    BY <2>3 DEF Stage
  <2>5. ASSUME NEW n \in Nsp PROVE Joins(t, n) <=> Joins(s, n)
    <3>1. n \in t.joined <=> JoinsTo(s, n, Len(s.out))
      BY <2>3 DEF Stage
    <3>2. Joins(t, n) <=> n \in t.joined
      BY <2>4 DEF Joins, JoinsTo
    <3> QED
      BY <3>1, <3>2 DEF Joins
  <2>6. names => \A i \in 1..Len(t.replies) : t.replies[i] = Root =>
                   i \in 1..Len(s.replies) /\ s.replies[i] = Root
    BY <2>2, <2>3 DEF Stage, Plain
  <2>7. Plain(t)
    <3>1. Rootless(t.out)
      BY <2>4 DEF Rootless
    <3>2. names => \A i \in 1..Len(t.replies) : i # 1 => t.replies[i] # Root
      BY <2>2, <2>6 DEF Plain
    <3> QED
      BY <3>1, <3>2 DEF Plain
  <2>8. names /\ Joined(client, s) => Joined(client, t)
    <3>1. ToSet(client.listening) \subseteq Nsp /\ Root \in Nsp
      BY <1>1, NamesType, ClientAssumption
    <3>2. names => (RootReply(t) => RootReply(s))
      BY <2>6 DEF RootReply
    <3> QED
      BY <2>5, <3>1, <3>2 DEF Joined
  <2>9. Linked(client, engines')
    <3>1. CASE client.engine = e
      BY <1>1, <2>1, <2>4, <2>8, <3>1 DEF Linked, s
    <3>2. CASE client.engine # e
      BY <1>1, <2>1, <3>2 DEF Linked
    <3> QED
      BY <3>1, <3>2
  <2>10. \A x \in Engine : Plain(engines'[x])
    BY <1>1, <2>1, <2>7
  <2> QED
    BY <1>1, <2>1, <2>9, <2>10, JoinPrimed
<1> QED
  BY <1>2, <1>3

LEMMA ReceiveJoins ==
  ASSUME IInv, JoinInv, NEW e \in Engine, Receive(e)
  PROVE  JoinInv'
<1> DEFINE s == engines[e]
           q == s.replies
           n == Head(q)
           t == [s EXCEPT !.replies = Tail(q)]
           c == [client EXCEPT !.connected = @ \cup {n}, !.resume = Connecting(n)]
<1>1. client \in ClientState /\ engines \in [Engine -> EngineState]
      /\ Manager(client, engines) /\ Linked(client, engines) /\ names' = names
      /\ Live(e) \in client.subs /\ q # <<>> /\ s.state = "open"
      /\ \A x \in Engine : Plain(engines[x])
  BY DEF IInv, Consistent, Receive, JoinInv
<1>2. client.state = "open" /\ client.engine = e
  BY <1>1 DEF Manager
<1>3. engines' = [engines EXCEPT ![e] = t] /\ client' \in {client, c}
  BY <1>1 DEF Receive
<1>4. s \in EngineState /\ Plain(s) /\ q \in Seq(Nsp)
  BY <1>1 DEF EngineState
<1>5. /\ n = q[1] /\ Tail(q) \in Seq(Nsp) /\ Len(q) \in Nat \ {0}
      /\ Len(Tail(q)) = Len(q) - 1 /\ \A i \in 1..Len(q) - 1 : Tail(q)[i] = q[i + 1]
  BY <1>1, <1>4, HeadTailProperties, EmptySeq, LenProperties
<1>6. t.out = s.out /\ t.joined = s.joined /\ t.early = s.early /\ t.replies = Tail(q)
  BY <1>4 DEF EngineState
<1> HIDE DEF t
<1>7. names => ~RootReply(t)
  <2>1. ASSUME names, NEW i \in 1..Len(q) - 1 PROVE Tail(q)[i] # Root
    <3>1. i + 1 \in 1..Len(q) /\ i + 1 # 1
      BY <1>5
    <3> QED
      BY <1>4, <1>5, <2>1, <3>1 DEF Plain
  <2> QED
    BY <1>5, <1>6, <2>1 DEF RootReply
<1>8. Plain(t)
  <2>1. Rootless(t.out)
    BY <1>4, <1>6 DEF Plain
  <2> QED
    BY <1>7, <2>1 DEF Plain, RootReply
<1>9. \A x : Joins(t, x) <=> Joins(s, x)
  BY <1>6 DEF Joins, JoinsTo
<1>10. n = Root => RootReply(s)
  <2>1. 1 \in 1..Len(q)
    BY <1>5
  <2> QED
    BY <1>5, <2>1 DEF RootReply
<1>11. /\ client'.connected \subseteq client.connected \cup {n}
       /\ client'.listening = client.listening /\ client'.engine = e
  <2> HIDE DEF n
  <2> QED
    BY <1>1, <1>2, <1>3 DEF ClientState
<1> HIDE DEF s, q, n, c
<1>12. names /\ Joined(client, s) => Joined(client', t)
  <2> SUFFICES ASSUME names, Joined(client, s) PROVE Joined(client', t)
    OBVIOUS
  <2>1. \A x \in ToSet(client.listening) \ {Root} : Joins(t, x)
    BY <1>9 DEF Joined
  <2>2. Root \in client'.connected \/ RootReply(t) => Joins(t, Root)
    BY <1>7, <1>9, <1>10, <1>11 DEF Joined
  <2> QED
    BY <1>7, <1>11, <2>1, <2>2 DEF Joined
<1>13. Linked(client', engines')
  BY <1>1, <1>2, <1>3, <1>6, <1>11, <1>12 DEF Linked, s
<1>14. \A x \in Engine : Plain(engines'[x])
  BY <1>1, <1>3, <1>8
<1> QED
  BY <1>1, <1>13, <1>14, JoinPrimed

LEMMA JoinStep == IInv /\ JoinInv /\ [Next]_vars => JoinInv'
<1> SUFFICES ASSUME IInv, JoinInv, [Next]_vars PROVE JoinInv'
  OBVIOUS
<1>1. CASE UNCHANGED vars
  BY <1>1, JoinPrimed DEF vars, JoinInv
<1>2. CASE ApplicationStep
  BY <1>2, ConnectJoins, DisconnectJoins, EmitJoins DEF ApplicationStep
<1>3. CASE CallbackReturns
  BY <1>3, OnConnectReturnsJoins, OtherReturnsJoins DEF CallbackReturns
<1>4. CASE EngineStep
  <2>1. ASSUME NEW e \in Engine, EngineLost(e) PROVE JoinInv'
    BY <2>1, CloseEventJoins DEF EngineLost
  <2> QED
    BY <1>4, <2>1, EngineOpensJoins, EngineEndsJoins, DrainJoins, ReceiveJoins DEF EngineStep
<1>5. CASE DelayEnds
  <2> DEFINE r == IF client.skip THEN Nothing ELSE Attempting
  <2>1. client \in ClientState /\ Manager(client, engines) /\ Delay \in client.subs
        /\ names' = names /\ engines' = engines
        /\ client' = [client EXCEPT !.subs = @ \ {Delay}, !.resume = r]
    BY <1>5 DEF IInv, Consistent, DelayEnds
  <2> HIDE DEF r
  <2>2. client'.state = client.state
    BY <2>1 DEF ClientState
  <2>3. client.state # "open"
    BY <2>1 DEF Manager, Delay, Live
  <2> QED
    BY <2>1, <2>2, <2>3, NotLinked, JoinPrimed DEF JoinInv
<1> QED
  BY <1>1, <1>2, <1>3, <1>4, <1>5 DEF Next

\* Whatever a socket that is connected emits is heard: its namespace is
\* connected at the server once everything written has arrived, in whatever
\* order sockets were connected, disconnected and connected again, with a
\* server that names the namespace it replies for (Socket.connect,
\* Socket.onpacket, Client::OnData).
THEOREM ClientsAreHeard == Spec => []ConnectedIsJoined
<1>1. Init => JoinInv
  <2> SUFFICES ASSUME Init PROVE JoinInv
    OBVIOUS
  <2>1. engines = [e \in Engine |-> Closed] /\ client.state = "closed"
    BY DEF Init
  <2> QED
    BY <2>1, PlainNew, NotLinked DEF JoinInv
<1>2. IInv /\ JoinInv => ConnectedIsJoined
  <2> SUFFICES ASSUME IInv, JoinInv, names, client.state = "open",
                      ~engines[client.engine].early, NEW n \in client.connected
               PROVE  n \in Served(engines[client.engine]).joined
    BY DEF ConnectedIsJoined
  <2> DEFINE s == engines[client.engine]
  <2>1. client.engine \in Engine
    BY EngineNamed DEF IInv
  <2>2. s \in EngineState /\ names \in BOOLEAN /\ Joined(client, s)
    BY <2>1 DEF IInv, Consistent, Counted, JoinInv, Linked
  <2>3. n \in ToSet(client.listening) /\ n \in Nsp
    BY DEF IInv, Consistent, Listening, ClientState
  <2>4. Joins(s, n)
    BY <2>2, <2>3 DEF Joined
  <2>5. Stage(Served(s), s, Len(s.out))
    BY <2>2, ServedFacts
  <2> HIDE DEF s
  <2>6. n \in Served(s).joined
    BY <2>3, <2>4, <2>5 DEF Stage, Joins
  <2> QED
    BY <2>6 DEF s
<1> QED
  BY <1>1, <1>2, JoinStep, ClientInvariant, PTL DEF Spec
=============================================================================
