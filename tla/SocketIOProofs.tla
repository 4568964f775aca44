--------------------------- MODULE SocketIOProofs ---------------------------
(***************************************************************************)
(* For any number of sessions, namespaces, rooms and sockets: the tables   *)
(* of the two sides agree, walks are not disturbed, and broadcasts stay    *)
(* among the sockets that joined.  And the two maps of every adapter       *)
(* mirror each other, keep no empty row, and the adapters implement the    *)
(* relation of RoomMembership.                                             *)
(***************************************************************************)
EXTENDS SocketIO, DataLemmas, FiniteSetTheorems, SequenceTheorems,
        WellFoundedInduction

-----------------------------------------------------------------------------
(* Maps, stacks, and the order of the namespaces.                          *)

LEMMA PartialMember ==
  ASSUME NEW K, NEW V, NEW D \in SUBSET K, NEW m \in [D -> V]
  PROVE  m \in PartialMaps(K, V)
BY DEF PartialMaps

LEMMA PartialFunction ==
  ASSUME NEW K, NEW V, NEW m \in PartialMaps(K, V)
  PROVE  DOMAIN m \subseteq K /\ m \in [DOMAIN m -> V]
BY DEF PartialMaps

LEMMA StoreMap ==
  ASSUME NEW K, NEW V, NEW m \in PartialMaps(K, V), NEW k \in K, NEW v \in V
  PROVE  /\ Store(m, k, v) \in PartialMaps(K, V)
         /\ DOMAIN Store(m, k, v) = DOMAIN m \cup {k}
         /\ Store(m, k, v)[k] = v
         /\ \A x \in DOMAIN m \ {k} : Store(m, k, v)[x] = m[x]
<1> DEFINE D == DOMAIN m \cup {k}
<1>1. DOMAIN m \subseteq K /\ m \in [DOMAIN m -> V]
  BY PartialFunction
<1>2. D \in SUBSET K /\ Store(m, k, v) \in [D -> V]
  BY <1>1 DEF Store
<1>3. Store(m, k, v) \in PartialMaps(K, V)
  BY <1>2, PartialMember
<1> QED
  BY <1>3 DEF Store

LEMMA EraseMap ==
  ASSUME NEW K, NEW V, NEW m \in PartialMaps(K, V), NEW k
  PROVE  /\ Erase(m, k) \in PartialMaps(K, V)
         /\ DOMAIN Erase(m, k) = DOMAIN m \ {k}
         /\ \A x \in DOMAIN m \ {k} : Erase(m, k)[x] = m[x]
         /\ k \notin DOMAIN m => Erase(m, k) = m
<1> DEFINE D == DOMAIN m \ {k}
<1>1. DOMAIN m \subseteq K /\ m \in [DOMAIN m -> V]
  BY PartialFunction
<1>2. D \in SUBSET K /\ Erase(m, k) \in [D -> V]
  BY <1>1 DEF Erase
<1>3. Erase(m, k) \in PartialMaps(K, V)
  BY <1>2, PartialMember
<1>4. ASSUME k \notin DOMAIN m PROVE Erase(m, k) = m
  BY <1>1, <1>4 DEF Erase
<1> QED
  BY <1>3, <1>4 DEF Erase

\* The first of a set of namespaces, where std::map's iterator is.
LEMMA LeastMember ==
  ASSUME NEW S \in SUBSET Nat, S # {}
  PROVE  Least(S) \in S
<1> DEFINE T == {1..x : x \in S}
           R == StrictSubsetOrdering(Nat)
<1>1. T \subseteq FiniteSubsetsOf(Nat) /\ T # {}
  <2>1. ASSUME NEW x \in S PROVE 1..x \in SUBSET Nat /\ IsFiniteSet(1..x)
    <3>1. x \in Int /\ 1 \in Int /\ 1..x \in SUBSET Nat
      OBVIOUS
    <3> QED
      BY <3>1, FS_Interval
  <2> QED
    BY <2>1 DEF FiniteSubsetsOf
<1>2. \E t \in T : \A u \in T : <<u, t>> \notin R
  <2> HIDE DEF T
  <2> QED
    BY <1>1, FS_StrictSubsetOrderingWellFounded, WFMin
<1>3. PICK x \in S : \A y \in S : <<1..y, 1..x>> \notin R
  BY <1>2
<1>4. ASSUME NEW y \in S, y < x PROVE FALSE
  <2>1. 1..y \subseteq 1..x /\ x \in 1..x /\ x \notin 1..y /\ 1..x \subseteq Nat
    BY <1>4
  <2> QED
    BY <2>1, <1>3 DEF StrictSubsetOrdering
<1>5. \A y \in S : x <= y
  BY <1>4
<1> QED
  BY <1>5 DEF Least

LEMMA Pushed ==
  ASSUME NEW S, NEW s \in Seq(S), NEW x \in S
  PROVE  /\ <<x>> \o s \in Seq(S)
         /\ Len(<<x>> \o s) = Len(s) + 1
         /\ (<<x>> \o s)[1] = x
         /\ \A i \in 1..Len(s) : (<<x>> \o s)[i + 1] = s[i]
OBVIOUS

LEMMA TailOfOne ==
  ASSUME NEW S, NEW s \in Seq(S), Len(s) = 1
  PROVE  Tail(s) = <<>>
<1>1. Tail(s) \in Seq(S) /\ Len(Tail(s)) = 0
  OBVIOUS
<1> QED
  BY <1>1, EmptySeq

LEMMA Popped ==
  ASSUME NEW S, NEW s \in Seq(S), s # <<>>
  PROVE  /\ Tail(s) \in Seq(S)
         /\ Len(s) \in Nat /\ Len(s) >= 1
         /\ Len(Tail(s)) = Len(s) - 1
         /\ Head(s) = s[1]
         /\ \A i \in 1..Len(s) - 1 : Tail(s)[i] = s[i + 1]
OBVIOUS

-----------------------------------------------------------------------------
(* The inductive invariant.                                                *)

Typed ==
  /\ clients \subseteq Sid /\ gone \subseteq Sid
  /\ made \subseteq Socket /\ IsFiniteSet(made)
  /\ joined \subseteq made \X Room
  /\ sockets \in [Sid -> PartialMaps(Nsp, Socket)]
  /\ registry \in [Nsp -> PartialMaps(Sid, Socket)]
  /\ adapters \in [Nsp -> Adapters(Sid, Room)]
  /\ stack \in Seq(Calls)
  /\ closes \in 0..MaxCloses
  /\ sent \subseteq Packet

\* A socket is kept under its own namespace by its own client, and what a
\* namespace has registered is the client's.
Owned ==
  \A c \in Sid : \A n \in DOMAIN sockets[c] :
    /\ sockets[c][n] \in made
    /\ sockets[c][n].sid = c /\ sockets[c][n].nsp = n

Registered ==
  \A n \in Nsp : \A c \in DOMAIN registry[n] :
    /\ c \in clients
    /\ n \in DOMAIN sockets[c]
    /\ registry[n][c] = sockets[c][n]

\* Client::OnClose is the outermost call.  A socket of its client that is
\* registered is ahead of the iterator, or being closed.
Ahead(calls, c, n, left) ==
  \/ n \in left
  \/ \E j \in 1..Len(calls) :
       /\ calls[j].call = "Close"
       /\ calls[j].socket.sid = c /\ calls[j].socket.nsp = n

Walks ==
  \A i \in 1..Len(stack) : stack[i].call = "OnClose" =>
    /\ i = Len(stack)
    /\ stack[i].left \subseteq DOMAIN sockets[stack[i].client]
    /\ \A n \in Nsp : stack[i].client \in DOMAIN registry[n] =>
                        Ahead(stack, stack[i].client, n, stack[i].left)

\* A room has ids of sockets that were made; and the socket registered for one
\* has joined, unless the client has opened another in its place.
Rooms ==
  \A n \in Nsp : \A r \in Room : \A i \in Row(adapters[n].rooms, r) :
    /\ \E s \in made : s.sid = i /\ s.nsp = n
    /\ i \in DOMAIN registry[n] =>
         <<registry[n][i], r>> \in joined \/ Generation(i, n) > 1

\* The sockets of a client in a namespace are numbered as they are made.
Numbered == \A s \in made : s.gen <= Generation(s.sid, s.nsp)

IInv == Typed /\ Owned /\ Registered /\ Walks /\ Rooms /\ Numbered

-----------------------------------------------------------------------------
LEMMA CallShape ==
  ASSUME NEW x \in Calls
  PROVE  /\ x.call = "OnClose" => /\ x = OnCloseCall(x.client, x.left)
                                  /\ x.client \in Sid /\ x.left \in SUBSET Nsp
         /\ x.call = "Close" => x = CloseCall(x.socket) /\ x.socket \in Socket
         /\ x.call \in {"Close", "OnClose"}
<1>1. CASE x \in {CloseCall(s) : s \in Socket}
  BY <1>1 DEF CloseCall
<1>2. CASE x \in {OnCloseCall(c, ns) : c \in Sid, ns \in SUBSET Nsp}
  BY <1>2 DEF OnCloseCall
<1> QED
  BY <1>1, <1>2 DEF Calls

LEMMA GenerationIsNat ==
  ASSUME Typed, NEW c, NEW n
  PROVE  /\ IsFiniteSet({s \in made : s.sid = c /\ s.nsp = n})
         /\ Generation(c, n) \in Nat
<1> DEFINE G == {s \in made : s.sid = c /\ s.nsp = n}
<1>1. IsFiniteSet(G)
  BY FS_Subset DEF Typed
<1>2. Cardinality(G) \in Nat
  BY <1>1, FS_CardinalityType
<1> QED
  BY <1>1, <1>2 DEF Generation

\* A new socket counts for its own client and namespace, and for no other.
LEMMA GenerationGrows ==
  ASSUME Typed, NEW s, s \notin made, made' = made \cup {s}, NEW c, NEW n
  PROVE  Generation(c, n)' = IF s.sid = c /\ s.nsp = n THEN Generation(c, n) + 1
                                                       ELSE Generation(c, n)
<1> DEFINE G == {x \in made : x.sid = c /\ x.nsp = n}
           H == {x \in made' : x.sid = c /\ x.nsp = n}
<1>1. IsFiniteSet(G)
  <2>1. G \subseteq made /\ IsFiniteSet(made)
    BY DEF Typed
  <2> QED
    BY <2>1, FS_Subset
<1>2. CASE s.sid = c /\ s.nsp = n
  <2>1. H = G \cup {s} /\ s \notin G
    BY <1>2
  <2>2. Cardinality(H) = Cardinality(G) + 1
    <3> HIDE DEF G, H
    <3> QED
      BY <2>1, <1>1, FS_AddElement
  <2> QED
    BY <1>2, <2>2 DEF Generation
<1>3. CASE ~(s.sid = c /\ s.nsp = n)
  <2>1. H = G
    BY <1>3
  <2> QED
    BY <1>3, <2>1 DEF Generation
<1> QED
  BY <1>2, <1>3

LEMMA InitIInv == Init => IInv
<1> SUFFICES ASSUME Init PROVE IInv
  OBVIOUS
<1>1. NoKeys \in PartialMaps(Nsp, Socket) /\ NoKeys \in PartialMaps(Sid, Socket)
      /\ DOMAIN NoKeys = {}
  <2>1. NoKeys \in [{} -> Socket] /\ DOMAIN NoKeys = {}
    BY DEF NoKeys
  <2> QED
    BY <2>1, PartialMember
<1>2. NewAdapter \in Adapters(Sid, Room) /\ \A x : Row(NewAdapter.rooms, x) = {}
  BY NewAdapterTyped
<1>3. Typed
  BY <1>1, <1>2, FS_EmptySet, BoundsAssumption DEF Init, Typed
<1>4. Owned /\ Registered /\ Walks /\ Numbered
  BY <1>1 DEF Init, Owned, Registered, Walks, Numbered
<1>5. Rooms
  BY <1>2 DEF Init, Rooms
<1> QED
  BY <1>3, <1>4, <1>5 DEF IInv

\* Client::Connect with Namespace::AddSocket.
LEMMA ConnectIInv ==
  ASSUME IInv, Idle, NEW c \in Sid, NEW n \in Nsp, Connect(c, n),
         clients' = clients \cup {c},
         UNCHANGED <<gone, adapters, joined, stack, closes>>
  PROVE  IInv'
<1> DEFINE s == [sid |-> c, nsp |-> n, gen |-> Generation(c, n) + 1]
<1>0. Generation(c, n) \in Nat
  BY GenerationIsNat DEF IInv
<1>1. s \in Socket /\ s \notin made
  <2>1. s.gen \in 1..MaxGen
    BY <1>0, BoundsAssumption DEF Connect
  <2>2. s \in Socket
    BY <2>1 DEF Socket
  <2>3. ASSUME s \in made PROVE FALSE
    <3>1. s.gen <= Generation(s.sid, s.nsp)
      BY <2>3 DEF IInv, Numbered
    <3>2. s.sid = c /\ s.nsp = n /\ s.gen = Generation(c, n) + 1
      OBVIOUS
    <3>3. Generation(c, n) + 1 <= Generation(c, n)
      BY <3>1, <3>2
    <3> QED
      BY <3>3, <1>0
  <2> QED
    BY <2>2, <2>3
<1>2. /\ made' = made \cup {s} /\ IsFiniteSet(made')
      /\ sockets' = [sockets EXCEPT ![c] = Store(@, n, s)]
      /\ registry' = [registry EXCEPT ![n] = Store(@, c, s)]
      /\ sent' = {PacketOf(s, "connect")}
  BY FS_AddElement DEF Connect, IInv, Typed
<1> HIDE DEF s
<1>3. s.sid = c /\ s.nsp = n
  BY DEF s
<1>4. /\ sockets[c] \in PartialMaps(Nsp, Socket)
      /\ registry[n] \in PartialMaps(Sid, Socket)
  BY DEF IInv, Typed
<1>5. /\ Store(sockets[c], n, s) \in PartialMaps(Nsp, Socket)
      /\ DOMAIN Store(sockets[c], n, s) = DOMAIN sockets[c] \cup {n}
      /\ Store(sockets[c], n, s)[n] = s
      /\ \A x \in DOMAIN sockets[c] \ {n} : Store(sockets[c], n, s)[x] = sockets[c][x]
  <2> DEFINE m == sockets[c]
  <2>1. m \in PartialMaps(Nsp, Socket)
    BY <1>4
  <2> HIDE DEF m
  <2>2. /\ Store(m, n, s) \in PartialMaps(Nsp, Socket)
        /\ DOMAIN Store(m, n, s) = DOMAIN m \cup {n}
        /\ Store(m, n, s)[n] = s
        /\ \A x \in DOMAIN m \ {n} : Store(m, n, s)[x] = m[x]
    BY <1>1, <2>1, StoreMap
  <2> QED
    BY <2>2 DEF m
<1>6. /\ Store(registry[n], c, s) \in PartialMaps(Sid, Socket)
      /\ DOMAIN Store(registry[n], c, s) = DOMAIN registry[n] \cup {c}
      /\ Store(registry[n], c, s)[c] = s
      /\ \A x \in DOMAIN registry[n] \ {c} : Store(registry[n], c, s)[x] = registry[n][x]
  <2> DEFINE m == registry[n]
  <2>1. m \in PartialMaps(Sid, Socket)
    BY <1>4
  <2> HIDE DEF m
  <2>2. /\ Store(m, c, s) \in PartialMaps(Sid, Socket)
        /\ DOMAIN Store(m, c, s) = DOMAIN m \cup {c}
        /\ Store(m, c, s)[c] = s
        /\ \A x \in DOMAIN m \ {c} : Store(m, c, s)[x] = m[x]
    BY <1>1, <2>1, StoreMap
  <2> QED
    BY <2>2 DEF m
<1>7. /\ sockets'[c] = Store(sockets[c], n, s)
      /\ \A d \in Sid \ {c} : sockets'[d] = sockets[d]
      /\ sockets' \in [Sid -> PartialMaps(Nsp, Socket)]
  BY <1>2, <1>5 DEF IInv, Typed
<1>8. /\ registry'[n] = Store(registry[n], c, s)
      /\ \A m \in Nsp \ {n} : registry'[m] = registry[m]
      /\ registry' \in [Nsp -> PartialMaps(Sid, Socket)]
  BY <1>2, <1>6 DEF IInv, Typed
<1>9. Typed'
  <2>1. sent' \subseteq Packet
    BY <1>2, <1>3, NamesAssumption DEF PacketOf, Packet
  <2> QED
    BY <1>1, <1>2, <1>7, <1>8, <2>1 DEF IInv, Typed
<1>10. Owned'
  BY <1>2, <1>3, <1>5, <1>7 DEF IInv, Owned
<1>11. Registered'
  BY <1>2, <1>5, <1>6, <1>7, <1>8 DEF IInv, Typed, Registered
<1>12. Walks'
  BY DEF Idle, Walks
<1>13. \A d, m : Generation(d, m)' = IF c = d /\ n = m THEN Generation(d, m) + 1
                                                      ELSE Generation(d, m)
  BY <1>1, <1>2, <1>3, GenerationGrows DEF IInv
<1>14. Numbered'
  <2>1. \A d, m : Generation(d, m) \in Nat
    BY GenerationIsNat DEF IInv
  <2>2. s.gen <= Generation(c, n)'
    BY <1>13, <2>1 DEF s
  <2>3. ASSUME NEW x \in made PROVE x.gen <= Generation(x.sid, x.nsp)'
    <3>1. x.gen <= Generation(x.sid, x.nsp) /\ x.gen \in Int
      BY BoundsAssumption DEF IInv, Numbered, Typed, Socket
    <3> QED
      BY <3>1, <2>1, <1>13
  <2> QED
    BY <1>2, <1>3, <2>2, <2>3 DEF Numbered
<1>15. Rooms'
  <2> SUFFICES ASSUME NEW m \in Nsp, NEW r \in Room, NEW i \in Row(adapters[m].rooms, r)
               PROVE  /\ \E x \in made' : x.sid = i /\ x.nsp = m
                      /\ i \in DOMAIN registry'[m] =>
                           <<registry'[m][i], r>> \in joined \/ Generation(i, m)' > 1
    BY DEF Rooms
  <2>1. PICK x \in made : x.sid = i /\ x.nsp = m
    BY DEF IInv, Rooms
  <2>2. /\ Generation(i, m) \in Nat /\ Generation(i, m)' \in Nat
        /\ Generation(i, m)' >= Generation(i, m)
    <3>1. Generation(i, m) \in Nat
      BY GenerationIsNat DEF IInv
    <3>2. Generation(i, m)' = IF c = i /\ n = m THEN Generation(i, m) + 1
                                                ELSE Generation(i, m)
      BY <1>13
    <3> QED
      BY <3>1, <3>2
  <2>3. CASE m = n /\ i = c
    <3>1. x.gen >= 1 /\ x.gen <= Generation(i, m) /\ x.gen \in Int
      BY <2>1, BoundsAssumption DEF IInv, Numbered, Typed, Socket
    <3>2. Generation(i, m)' > 1
      BY <3>1, <2>2, <2>3, <1>13
    <3> QED
      BY <3>2, <2>1, <1>2
  <2>4. CASE ~(m = n /\ i = c)
    <3>1. i \in DOMAIN registry'[m] => /\ i \in DOMAIN registry[m]
                                       /\ registry'[m][i] = registry[m][i]
      BY <2>4, <1>6, <1>8
    <3>2. i \in DOMAIN registry[m] =>
            <<registry[m][i], r>> \in joined \/ Generation(i, m) > 1
      BY DEF IInv, Rooms
    <3>3. i \in DOMAIN registry'[m] =>
            <<registry'[m][i], r>> \in joined \/ Generation(i, m)' > 1
      BY <3>1, <3>2, <2>2
    <3> QED
      BY <3>3, <2>1, <1>2
  <2> QED
    BY <2>3, <2>4
<1> QED
  BY <1>9, <1>10, <1>11, <1>12, <1>14, <1>15 DEF IInv

\* A step that changes neither the tables nor the stack.
LEMMA QuietIInv ==
  ASSUME IInv, sent' \subseteq Packet,
         UNCHANGED <<clients, gone, sockets, registry, adapters, made, joined,
                     stack, closes>>
  PROVE  IInv'
<1>1. Typed' /\ Owned' /\ Registered'
  BY DEF IInv, Typed, Owned, Registered
<1>2. Walks' /\ Rooms' /\ Numbered'
  <2>1. \A c, n : Generation(c, n)' = Generation(c, n)
    BY DEF Generation
  <2>2. Rooms'
    BY <2>1 DEF IInv, Rooms
  <2>3. Numbered'
    BY <2>1 DEF IInv, Numbered
  <2>4. Walks'
    BY DEF IInv, Walks, Ahead
  <2> QED
    BY <2>2, <2>3, <2>4
<1> QED
  BY <1>1, <1>2 DEF IInv

\* Of the tables and sockets nothing changes, only the stack.
LEMMA StackIInv ==
  ASSUME IInv, stack' \in Seq(Calls), Walks', closes' \in 0..MaxCloses,
         gone' \subseteq Sid, sent' = {},
         UNCHANGED <<clients, sockets, registry, adapters, made, joined>>
  PROVE  IInv'
<1>1. Typed' /\ Owned' /\ Registered'
  BY DEF IInv, Typed, Owned, Registered
<1>2. Rooms' /\ Numbered'
  <2>1. \A c, n : Generation(c, n)' = Generation(c, n)
    BY DEF Generation
  <2>2. Rooms'
    BY <2>1 DEF IInv, Rooms
  <2>3. Numbered'
    BY <2>1 DEF IInv, Numbered
  <2> QED
    BY <2>2, <2>3
<1> QED
  BY <1>1, <1>2 DEF IInv

\* Socket::OnPacket with a disconnect packet, and Socket::Close of the
\* application: a Close comes on top of the stack.
LEMMA CloseCallIInv ==
  ASSUME IInv, NEW s \in Socket, stack' = <<CloseCall(s)>> \o stack,
         closes' \in 0..MaxCloses, sent' = {},
         UNCHANGED <<clients, gone, sockets, registry, adapters, made, joined>>
  PROVE  IInv'
<1>1. CloseCall(s) \in Calls /\ CloseCall(s).call = "Close"
  BY DEF Calls, CloseCall
<1>2. stack \in Seq(Calls)
  BY DEF IInv, Typed
<1>3. /\ stack' \in Seq(Calls) /\ Len(stack) \in Nat
      /\ Len(stack') = Len(stack) + 1
      /\ stack'[1] = CloseCall(s)
      /\ \A i \in 1..Len(stack) : stack'[i + 1] = stack[i]
  BY <1>1, <1>2, Pushed
<1>4. Walks'
  <2> SUFFICES ASSUME NEW i \in 1..Len(stack'), stack'[i].call = "OnClose"
               PROVE  /\ i = Len(stack')
                      /\ stack'[i].left \subseteq DOMAIN sockets'[stack'[i].client]
                      /\ \A n \in Nsp : stack'[i].client \in DOMAIN registry'[n] =>
                                  Ahead(stack', stack'[i].client, n, stack'[i].left)
    BY DEF Walks
  <2>1. i # 1 /\ i - 1 \in 1..Len(stack) /\ stack'[i] = stack[i - 1]
    BY <1>1, <1>3
  <2>2. /\ i - 1 = Len(stack)
        /\ stack[i - 1].left \subseteq DOMAIN sockets[stack[i - 1].client]
        /\ \A n \in Nsp : stack[i - 1].client \in DOMAIN registry[n] =>
                             Ahead(stack, stack[i - 1].client, n, stack[i - 1].left)
    BY <2>1 DEF IInv, Walks
  <2>3. \A c, n, left : Ahead(stack, c, n, left) => Ahead(stack', c, n, left)
    <3> SUFFICES ASSUME NEW c, NEW n, NEW left, Ahead(stack, c, n, left)
                 PROVE  Ahead(stack', c, n, left)
      OBVIOUS
    <3>1. CASE n \in left
      BY <3>1 DEF Ahead
    <3>2. ASSUME NEW j \in 1..Len(stack), stack[j].call = "Close",
                 stack[j].socket.sid = c, stack[j].socket.nsp = n
          PROVE  Ahead(stack', c, n, left)
      <4>1. j + 1 \in 1..Len(stack') /\ stack'[j + 1] = stack[j]
        BY <1>3
      <4> QED
        BY <3>2, <4>1 DEF Ahead
    <3> QED
      BY <3>1, <3>2 DEF Ahead
  <2> QED
    BY <2>1, <2>2, <2>3, <1>3
<1> QED
  BY <1>3, <1>4, StackIInv DEF IInv, Typed

\* Client::OnClose begins: what is registered is in the client's map.
LEMMA OnCloseIInv ==
  ASSUME IInv, NEW c \in Sid, OnClose(c)
  PROVE  IInv'
<1> DEFINE x == OnCloseCall(c, DOMAIN sockets[c])
<1>1. DOMAIN sockets[c] \subseteq Nsp
  BY PartialFunction DEF IInv, Typed
<1>2. /\ x \in Calls /\ x.call = "OnClose" /\ x.client = c
      /\ x.left = DOMAIN sockets[c]
  BY <1>1 DEF Calls, OnCloseCall
<1>3. stack' = <<x>>
  BY DEF OnClose
<1> HIDE DEF x
<1>4. Len(stack') = 1 /\ stack'[1] = x /\ stack' \in Seq(Calls)
  BY <1>2, <1>3
<1>5. UNCHANGED <<clients, sockets, registry, adapters, made, joined, closes>>
      /\ sent' = {} /\ gone' = gone \cup {c}
  BY DEF OnClose
<1>6. Walks'
  <2>1. \A n \in Nsp : c \in DOMAIN registry[n] => n \in DOMAIN sockets[c]
    BY DEF IInv, Registered
  <2> QED
    BY <2>1, <1>2, <1>4, <1>5 DEF Walks, Ahead
<1> QED
  BY <1>4, <1>5, <1>6, StackIInv DEF IInv, Typed

\* While Client::OnClose is the innermost call it is the only one.
LEMMA WalkAlone ==
  ASSUME IInv, ~Idle, Head(stack).call = "OnClose"
  PROVE  /\ Len(stack) = 1 /\ Head(stack) = stack[1] /\ Tail(stack) = <<>>
         /\ stack[1] = OnCloseCall(stack[1].client, stack[1].left)
         /\ stack[1].client \in Sid /\ stack[1].left \in SUBSET Nsp
         /\ stack[1].left \subseteq DOMAIN sockets[stack[1].client]
         /\ \A n \in Nsp : stack[1].client \in DOMAIN registry[n] => n \in stack[1].left
<1>1. stack \in Seq(Calls) /\ stack # <<>>
  BY DEF IInv, Typed, Idle
<1>2. /\ Len(stack) \in Nat /\ Len(stack) >= 1 /\ Head(stack) = stack[1]
      /\ Tail(stack) \in Seq(Calls) /\ Len(Tail(stack)) = Len(stack) - 1
      /\ 1 \in 1..Len(stack) /\ stack[1].call = "OnClose"
  BY <1>1, Popped
<1>3. /\ 1 = Len(stack) /\ stack[1].left \subseteq DOMAIN sockets[stack[1].client]
      /\ \A n \in Nsp : stack[1].client \in DOMAIN registry[n] =>
                           Ahead(stack, stack[1].client, n, stack[1].left)
  BY <1>2 DEF IInv, Walks
<1>4. Tail(stack) = <<>>
  BY <1>1, <1>3, TailOfOne
<1>5. stack[1] \in Calls
  BY <1>1, <1>2
<1>6. \A n, left : Ahead(stack, stack[1].client, n, left) => n \in left
  <2>1. ASSUME NEW j \in 1..Len(stack) PROVE stack[j].call = "OnClose"
    <3>0. Len(stack) = 1
      BY <1>3
    <3>1. j = 1
      BY <3>0
    <3> QED
      BY <3>1, <1>2
  <2> QED
    BY <2>1 DEF Ahead
<1> QED
  BY <1>2, <1>3, <1>4, <1>5, <1>6, CallShape

\* Client::OnClose goes on: the socket it closes leaves what is ahead.
LEMMA CloseNextIInv ==
  ASSUME IInv, CloseNext
  PROVE  IInv'
<1> DEFINE c == stack[1].client
           left == stack[1].left
           n == Least(left)
           s == sockets[c][n]
<1>1. ~Idle /\ Head(stack).call = "OnClose" /\ Head(stack).left # {}
  BY DEF CloseNext
<1>2. /\ Len(stack) = 1 /\ Head(stack) = stack[1] /\ Tail(stack) = <<>>
      /\ c \in Sid /\ left \in SUBSET Nsp /\ left \subseteq DOMAIN sockets[c]
      /\ \A m \in Nsp : c \in DOMAIN registry[m] => m \in left
  BY <1>1, WalkAlone
<1>3. n \in left
  BY <1>1, <1>2, LeastMember, NamesAssumption
<1>4. s \in Socket /\ s.sid = c /\ s.nsp = n
  BY <1>2, <1>3 DEF IInv, Typed, Owned
<1>5. /\ stack' = <<CloseCall(s), OnCloseCall(c, left \ {n})>> \o <<>>
      /\ sent' = {}
      /\ UNCHANGED <<clients, gone, sockets, registry, adapters, made, joined, closes>>
  BY <1>2 DEF CloseNext
<1>6. CloseCall(s) \in Calls /\ OnCloseCall(c, left \ {n}) \in Calls
  BY <1>2, <1>4 DEF Calls
<1>7. /\ CloseCall(s).call = "Close" /\ CloseCall(s).socket = s
      /\ OnCloseCall(c, left \ {n}).call = "OnClose"
      /\ OnCloseCall(c, left \ {n}).client = c
      /\ OnCloseCall(c, left \ {n}).left = left \ {n}
  BY DEF CloseCall, OnCloseCall
<1> HIDE DEF c, left, n, s
<1>8. /\ stack' \in Seq(Calls) /\ Len(stack') = 2
      /\ stack'[1] = CloseCall(s) /\ stack'[2] = OnCloseCall(c, left \ {n})
  BY <1>5, <1>6
<1>9. Walks'
  <2> SUFFICES ASSUME NEW i \in 1..Len(stack'), stack'[i].call = "OnClose"
               PROVE  /\ i = Len(stack')
                      /\ stack'[i].left \subseteq DOMAIN sockets'[stack'[i].client]
                      /\ \A m \in Nsp : stack'[i].client \in DOMAIN registry'[m] =>
                                  Ahead(stack', stack'[i].client, m, stack'[i].left)
    BY DEF Walks
  <2>1. i = 2
    BY <1>7, <1>8
  <2>2. \A m : m \in left => Ahead(stack', c, m, left \ {n})
    BY <1>4, <1>7, <1>8 DEF Ahead
  <2> QED
    BY <2>1, <2>2, <1>2, <1>5, <1>7, <1>8
<1> QED
  BY <1>5, <1>8, <1>9, StackIInv DEF IInv, Typed

\* Client::OnClose is done, Server::OnClientClose: nothing of the client is
\* registered any more.
LEMMA CloseDoneIInv ==
  ASSUME IInv, CloseDone
  PROVE  IInv'
<1> DEFINE c == stack[1].client
<1>1. ~Idle /\ Head(stack).call = "OnClose" /\ Head(stack).left = {}
  BY DEF CloseDone
<1>2. /\ Head(stack) = stack[1] /\ Tail(stack) = <<>>
      /\ \A m \in Nsp : c \notin DOMAIN registry[m]
  BY <1>1, WalkAlone
<1>3. /\ stack' = <<>> /\ clients' = clients \ {c} /\ sent' = {}
      /\ UNCHANGED <<gone, sockets, registry, adapters, made, joined, closes>>
  BY <1>2 DEF CloseDone
<1>4. Registered'
  BY <1>2, <1>3 DEF IInv, Registered
<1>5. Typed' /\ Owned' /\ Rooms' /\ Numbered'
  BY <1>3 DEF IInv, Typed, Owned, Rooms, Generation, Numbered
<1>6. Walks'
  BY <1>3 DEF Walks
<1> QED
  BY <1>4, <1>5, <1>6 DEF IInv

\* Client::Remove looks for the sid among namespaces and erases nothing.
LEMMA NothingRemoved ==
  ASSUME IInv, ~Idle, CloseReturns
  PROVE  sockets' = sockets
<1> DEFINE c == Head(stack).socket.sid
<1>1. CASE c \in clients
  <2>1. sockets' = [sockets EXCEPT ![c] = Erase(@, c)]
    BY <1>1 DEF CloseReturns, Remove
  <2>2. c \in Sid /\ c \notin Nsp
    BY <1>1, NamesAssumption DEF IInv, Typed
  <2>3. sockets[c] \in PartialMaps(Nsp, Socket) /\ sockets \in [Sid -> PartialMaps(Nsp, Socket)]
    BY <2>2 DEF IInv, Typed
  <2>4. Erase(sockets[c], c) = sockets[c]
    <3> DEFINE m == sockets[c]
    <3>1. m \in PartialMaps(Nsp, Socket)
      BY <2>3
    <3> HIDE DEF m
    <3>2. c \notin DOMAIN m
      BY <3>1, <2>2, PartialFunction
    <3>3. Erase(m, c) = m
      BY <3>1, <3>2, EraseMap
    <3> QED
      BY <3>3 DEF m
  <2> QED
    BY <2>1, <2>2, <2>3, <2>4
<1>2. CASE c \notin clients
  BY <1>2 DEF CloseReturns
<1> QED
  BY <1>1, <1>2

\* The callbacks of Socket::Close have returned: the socket's entry goes, and
\* whatever else was ahead of an iterator still is.
LEMMA CloseReturnsIInv ==
  ASSUME IInv, CloseReturns
  PROVE  IInv'
<1> DEFINE s == stack[1].socket
<1>1. ~Idle /\ Head(stack).call = "Close"
  BY DEF CloseReturns
<1>2. /\ stack \in Seq(Calls) /\ stack' = Tail(stack) /\ stack # <<>>
      /\ sent' = {} /\ sockets' = sockets
      /\ UNCHANGED <<clients, gone, adapters, made, joined, closes>>
  BY <1>1, NothingRemoved DEF CloseReturns, IInv, Typed, Idle
<1>3. /\ Len(stack) \in Nat /\ Len(stack) >= 1 /\ stack' \in Seq(Calls)
      /\ Len(stack') = Len(stack) - 1 /\ Head(stack) = stack[1]
      /\ \A i \in 1..Len(stack) - 1 : stack'[i] = stack[i + 1]
  BY <1>2, Popped
<1>4. stack[1].call = "Close" /\ stack[1] \in Calls
  BY <1>1, <1>2, <1>3
<1>5. s \in Socket /\ s.sid \in Sid /\ s.nsp \in Nsp
  BY <1>4, CallShape DEF Socket
<1>6. registry' = [registry EXCEPT ![s.nsp] = Erase(@, s.sid)]
  BY <1>3 DEF CloseReturns
<1>7. registry[s.nsp] \in PartialMaps(Sid, Socket)
      /\ registry \in [Nsp -> PartialMaps(Sid, Socket)]
  BY <1>5 DEF IInv, Typed
<1> HIDE DEF s
<1>8. /\ Erase(registry[s.nsp], s.sid) \in PartialMaps(Sid, Socket)
      /\ DOMAIN Erase(registry[s.nsp], s.sid) = DOMAIN registry[s.nsp] \ {s.sid}
      /\ \A x \in DOMAIN registry[s.nsp] \ {s.sid} :
           Erase(registry[s.nsp], s.sid)[x] = registry[s.nsp][x]
  <2> DEFINE m == registry[s.nsp]
             k == s.sid
  <2>1. m \in PartialMaps(Sid, Socket)
    BY <1>7
  <2> HIDE DEF m, k
  <2>2. /\ Erase(m, k) \in PartialMaps(Sid, Socket)
        /\ DOMAIN Erase(m, k) = DOMAIN m \ {k}
        /\ \A x \in DOMAIN m \ {k} : Erase(m, k)[x] = m[x]
    BY <2>1, EraseMap
  <2> QED
    BY <2>2 DEF m, k
<1>9. /\ registry' \in [Nsp -> PartialMaps(Sid, Socket)]
      /\ \A n \in Nsp : /\ DOMAIN registry'[n] \subseteq DOMAIN registry[n]
                         /\ \A c \in DOMAIN registry'[n] : registry'[n][c] = registry[n][c]
      /\ s.sid \notin DOMAIN registry'[s.nsp]
  BY <1>5, <1>6, <1>7, <1>8
<1>10. Typed' /\ Owned' /\ Numbered'
  BY <1>2, <1>3, <1>9 DEF IInv, Typed, Owned, Numbered, Generation
<1>11. Registered'
  BY <1>2, <1>9 DEF IInv, Registered
<1>12. Walks'
  <2> SUFFICES ASSUME NEW i \in 1..Len(stack'), stack'[i].call = "OnClose"
               PROVE  /\ i = Len(stack')
                      /\ stack'[i].left \subseteq DOMAIN sockets'[stack'[i].client]
                      /\ \A n \in Nsp : stack'[i].client \in DOMAIN registry'[n] =>
                                  Ahead(stack', stack'[i].client, n, stack'[i].left)
    BY DEF Walks
  <2>1. i + 1 \in 1..Len(stack) /\ stack'[i] = stack[i + 1]
    BY <1>3
  <2> DEFINE c == stack'[i].client
             left == stack'[i].left
  <2>2. /\ i + 1 = Len(stack) /\ left \subseteq DOMAIN sockets[c]
        /\ \A n \in Nsp : c \in DOMAIN registry[n] => Ahead(stack, c, n, left)
    BY <2>1 DEF IInv, Walks
  <2> HIDE DEF c, left
  <2>3. ASSUME NEW n \in Nsp, c \in DOMAIN registry'[n]
        PROVE  Ahead(stack', c, n, left)
    <3>1. Ahead(stack, c, n, left) /\ ~(c = s.sid /\ n = s.nsp)
      BY <2>2, <2>3, <1>9
    <3>2. CASE n \in left
      BY <3>2 DEF Ahead
    <3>3. ASSUME NEW j \in 1..Len(stack), stack[j].call = "Close",
                 stack[j].socket.sid = c, stack[j].socket.nsp = n
          PROVE  Ahead(stack', c, n, left)
      <4>1. j # 1
        BY <3>1, <3>3 DEF s
      <4>2. j - 1 \in 1..Len(stack') /\ stack'[j - 1] = stack[j]
        BY <4>1, <1>3
      <4> QED
        BY <3>3, <4>2 DEF Ahead
    <3> QED
      BY <3>1, <3>2, <3>3 DEF Ahead
  <2> QED
    BY <2>1, <2>2, <2>3, <1>2, <1>3 DEF c, left
<1>13. Rooms'
  <2>1. \A c, n : Generation(c, n)' = Generation(c, n)
    BY <1>2 DEF Generation
  <2>2. SUFFICES ASSUME NEW n \in Nsp, NEW r \in Room,
                        NEW i \in Row(adapters'[n].rooms, r)
                 PROVE  /\ \E x \in made' : x.sid = i /\ x.nsp = n
                        /\ i \in DOMAIN registry'[n] =>
                             \/ <<registry'[n][i], r>> \in joined'
                             \/ Generation(i, n)' > 1
    BY DEF Rooms
  <2>3. /\ \E x \in made : x.sid = i /\ x.nsp = n
        /\ i \in DOMAIN registry[n] =>
             <<registry[n][i], r>> \in joined \/ Generation(i, n) > 1
    BY <2>2, <1>2 DEF IInv, Rooms
  <2> QED
    BY <2>1, <2>3, <1>2, <1>9
<1> QED
  BY <1>10, <1>11, <1>12, <1>13 DEF IInv

\* The application joins the socket that is registered (Adapter::Add).
LEMMA JoinIInv ==
  ASSUME IInv, NEW s \in made, NEW r \in Room, Join(s, r)
  PROVE  IInv'
<1>1. s \in Socket /\ s.sid \in Sid /\ s.nsp \in Nsp
  BY DEF IInv, Typed, Socket
<1>2. /\ adapters' = [adapters EXCEPT ![s.nsp] = Added(@, s.sid, r)]
      /\ joined' = joined \cup {<<s, r>>} /\ sent' = {}
      /\ s.sid \in DOMAIN registry[s.nsp] /\ registry[s.nsp][s.sid] = s
      /\ UNCHANGED <<clients, gone, sockets, registry, made, stack, closes>>
  BY DEF Join
<1>3. /\ Added(adapters[s.nsp], s.sid, r) \in Adapters(Sid, Room)
      /\ \A x : Row(Added(adapters[s.nsp], s.sid, r).rooms, x) =
               IF x = r THEN Row(adapters[s.nsp].rooms, r) \cup {s.sid}
                        ELSE Row(adapters[s.nsp].rooms, x)
  <2> DEFINE a == adapters[s.nsp]
             i == s.sid
  <2>1. a \in Adapters(Sid, Room) /\ i \in Sid
    BY <1>1 DEF IInv, Typed
  <2> HIDE DEF a, i
  <2>2. /\ Added(a, i, r) \in Adapters(Sid, Room)
        /\ \A x : Row(Added(a, i, r).rooms, x) =
                 IF x = r THEN Row(a.rooms, r) \cup {i} ELSE Row(a.rooms, x)
    BY <2>1, AddedRooms
  <2> QED
    BY <2>2 DEF a, i
<1>4. Typed' /\ Owned' /\ Registered' /\ Walks' /\ Numbered'
  <2>1. adapters' \in [Nsp -> Adapters(Sid, Room)]
    BY <1>1, <1>2, <1>3 DEF IInv, Typed
  <2>2. joined' \subseteq made \X Room
    BY <1>2 DEF IInv, Typed
  <2>3. Typed'
    BY <1>2, <2>1, <2>2 DEF IInv, Typed
  <2> QED
    BY <1>2, <2>3 DEF IInv, Owned, Registered, Walks, Numbered, Generation
<1>5. \A n \in Nsp : \A x : Row(adapters'[n].rooms, x) =
        IF n = s.nsp /\ x = r THEN Row(adapters[n].rooms, x) \cup {s.sid}
                              ELSE Row(adapters[n].rooms, x)
  BY <1>1, <1>2, <1>3 DEF IInv, Typed
<1>6. Rooms'
  <2>0. \A c, n : Generation(c, n)' = Generation(c, n)
    BY <1>2 DEF Generation
  <2> SUFFICES ASSUME NEW n \in Nsp, NEW x \in Room, NEW i \in Row(adapters'[n].rooms, x)
               PROVE  /\ \E y \in made : y.sid = i /\ y.nsp = n
                      /\ i \in DOMAIN registry[n] =>
                           <<registry[n][i], x>> \in joined' \/ Generation(i, n) > 1
    BY <1>2, <2>0 DEF Rooms
  <2>1. CASE i \in Row(adapters[n].rooms, x)
    BY <2>1, <1>2 DEF IInv, Rooms
  <2>2. CASE i = s.sid /\ n = s.nsp /\ x = r
    BY <2>2, <1>2
  <2> QED
    BY <2>1, <2>2, <1>5
<1> QED
  BY <1>4, <1>6 DEF IInv

\* The application leaves a room (Adapter::Del).
LEMMA LeaveIInv ==
  ASSUME IInv, NEW s \in made, NEW r \in Room, Leave(s, r)
  PROVE  IInv'
<1>1. s \in Socket /\ s.sid \in Sid /\ s.nsp \in Nsp
  BY DEF IInv, Typed, Socket
<1>2. /\ adapters' = [adapters EXCEPT ![s.nsp] = Deleted(@, s.sid, r)]
      /\ joined' = {j \in joined : j[1].sid # s.sid \/ j[1].nsp # s.nsp \/ j[2] # r}
      /\ sent' = {}
      /\ UNCHANGED <<clients, gone, sockets, registry, made, stack, closes>>
  BY DEF Leave
<1>3. /\ Deleted(adapters[s.nsp], s.sid, r) \in Adapters(Sid, Room)
      /\ \A x, y : y \in Row(Deleted(adapters[s.nsp], s.sid, r).rooms, x) <=>
                     y \in Row(adapters[s.nsp].rooms, x) /\ ~(x = r /\ y = s.sid)
  <2> DEFINE a == adapters[s.nsp]
             i == s.sid
  <2>1. a \in Adapters(Sid, Room) /\ i \in Sid
    BY <1>1 DEF IInv, Typed
  <2> HIDE DEF a, i
  <2>2. Deleted(a, i, r) \in Adapters(Sid, Room)
    BY <2>1, DeletedAdapter
  <2>3. \A x, y : y \in Row(Deleted(a, i, r).rooms, x) <=>
                  y \in Row(a.rooms, x) /\ ~(x = r /\ y = i)
    BY DeletedRooms
  <2> QED
    BY <2>2, <2>3 DEF a, i
<1>4. Typed' /\ Owned' /\ Registered' /\ Walks' /\ Numbered'
  <2>1. Typed'
    BY <1>1, <1>2, <1>3 DEF IInv, Typed
  <2>2. Owned' /\ Registered' /\ Walks'
    BY <1>2 DEF IInv, Owned, Registered, Walks
  <2>3. Numbered'
    BY <1>2 DEF IInv, Numbered, Generation
  <2> QED
    BY <2>1, <2>2, <2>3
<1>5. \A n \in Nsp : \A x, y : y \in Row(adapters'[n].rooms, x) <=>
        y \in Row(adapters[n].rooms, x) /\ ~(n = s.nsp /\ x = r /\ y = s.sid)
  BY <1>1, <1>2, <1>3 DEF IInv, Typed
<1>6. \A n \in Nsp : \A i \in DOMAIN registry[n] :
        registry[n][i].sid = i /\ registry[n][i].nsp = n
  <2>1. \A n \in Nsp : DOMAIN registry[n] \subseteq Sid
    BY PartialFunction DEF IInv, Typed
  <2> QED
    BY <2>1 DEF IInv, Registered, Owned
<1>7. Rooms'
  <2>0. \A c, n : Generation(c, n)' = Generation(c, n)
    BY <1>2 DEF Generation
  <2> SUFFICES ASSUME NEW n \in Nsp, NEW x \in Room, NEW i \in Row(adapters'[n].rooms, x)
               PROVE  /\ \E y \in made : y.sid = i /\ y.nsp = n
                      /\ i \in DOMAIN registry[n] =>
                           <<registry[n][i], x>> \in joined' \/ Generation(i, n) > 1
    BY <1>2, <2>0 DEF Rooms
  <2>1. /\ i \in Row(adapters[n].rooms, x)
        /\ ~(n = s.nsp /\ x = r /\ i = s.sid)
    BY <1>5
  <2>2. /\ \E y \in made : y.sid = i /\ y.nsp = n
        /\ i \in DOMAIN registry[n] =>
             <<registry[n][i], x>> \in joined \/ Generation(i, n) > 1
    BY <2>1 DEF IInv, Rooms
  <2>3. ASSUME i \in DOMAIN registry[n], <<registry[n][i], x>> \in joined
        PROVE  <<registry[n][i], x>> \in joined'
    BY <2>1, <2>3, <1>2, <1>6
  <2> QED
    BY <2>2, <2>3
<1> QED
  BY <1>4, <1>7 DEF IInv

LEMMA NextIInv == IInv /\ [Next]_vars => IInv'
<1> SUFFICES ASSUME IInv, [Next]_vars PROVE IInv'
  OBVIOUS
<1>t. /\ clients \subseteq Sid /\ gone \subseteq Sid /\ made \subseteq Socket
      /\ stack \in Seq(Calls) /\ closes \in 0..MaxCloses /\ {} \subseteq Packet
  BY DEF IInv, Typed
<1>1. ASSUME NEW c \in Sid, OnConnection(c) PROVE IInv'
  <2>1. /\ Idle /\ Connect(c, Root) /\ clients' = clients \cup {c} /\ Root \in Nsp
        /\ UNCHANGED <<gone, adapters, joined, stack, closes>>
    BY <1>1, NamesAssumption DEF OnConnection
  <2> QED
    BY <2>1, ConnectIInv
<1>2. ASSUME NEW c \in Sid, NEW n \in Nsp, OnConnectPacket(c, n) PROVE IInv'
  <2>1. /\ Idle /\ Connect(c, n) /\ clients' = clients \cup {c}
        /\ UNCHANGED <<gone, adapters, joined, stack, closes>>
    BY <1>2 DEF OnConnectPacket
  <2> QED
    BY <2>1, ConnectIInv
<1>3. ASSUME NEW c \in Sid, OnUnknownPacket(c) PROVE IInv'
  <2>1. sent' \subseteq Packet
    BY <1>3 DEF OnUnknownPacket, Packet
  <2> QED
    BY <2>1, <1>3, QuietIInv DEF OnUnknownPacket
<1>4. ASSUME NEW c \in Sid, NEW n \in Nsp, OnDisconnectPacket(c, n) PROVE IInv'
  <2>1. sockets[c][n] \in Socket
    BY <1>4, <1>t DEF IInv, Owned, OnDisconnectPacket
  <2>2. stack' = <<CloseCall(sockets[c][n])>> \o stack
    <3>1. stack' = <<CloseCall(sockets[c][n])>> /\ stack = <<>>
      BY <1>4 DEF OnDisconnectPacket, Idle
    <3> QED
      BY <3>1
  <2> QED
    BY <2>1, <2>2, <1>4, <1>t, CloseCallIInv DEF OnDisconnectPacket
<1>5. ASSUME NEW c \in Sid, OnClose(c) PROVE IInv'
  BY <1>5, OnCloseIInv
<1>6. CASE StackStep
  BY <1>6, CloseNextIInv, CloseDoneIInv, CloseReturnsIInv DEF StackStep
<1>7. ASSUME NEW s \in made, Close(s) PROVE IInv'
  <2>1. closes' \in 0..MaxCloses
    BY <1>7, <1>t, BoundsAssumption DEF Close
  <2> QED
    BY <2>1, <1>7, <1>t, CloseCallIInv DEF Close
<1>8. ASSUME NEW s \in made, Emit(s) PROVE IInv'
  <2>1. sent' \subseteq Packet
    BY <1>8, <1>t, NamesAssumption DEF Emit, PacketOf, Packet, Socket
  <2> QED
    BY <2>1, <1>8, QuietIInv DEF Emit
<1>9. ASSUME NEW s \in made, NEW r \in Room, Join(s, r) PROVE IInv'
  BY <1>9, JoinIInv
<1>10. ASSUME NEW s \in made, NEW r \in Room, Leave(s, r) PROVE IInv'
  BY <1>10, LeaveIInv
<1>11. ASSUME NEW s \in made, NEW r \in Room, Broadcast(s, r) PROVE IInv'
  <2>1. ASSUME NEW i \in Recipients(s, r)
        PROVE  i \in clients /\ i \in DOMAIN registry[s.nsp]
    <3>1. Row(adapters[s.nsp].rooms, r) \subseteq Sid
      <4>1. adapters[s.nsp].rooms \in Maps(Room, Sid)
        BY <1>t DEF IInv, Typed, Socket, Adapters
      <4> QED
        BY <4>1, MapsRow
    <3>2. i \in Row(adapters[s.nsp].rooms, r) /\ i \in clients /\ i \in Nat
      BY <3>1, NamesAssumption DEF Recipients, Reached
    <3> QED
      BY <3>2 DEF Recipients, Reached
  <2>2. \A i \in Recipients(s, r) : registry[s.nsp][i] \in Socket
    BY <2>1, <1>t DEF IInv, Registered, Owned, Socket
  <2>3. sent' \subseteq Packet
    BY <2>2, <1>11, NamesAssumption DEF Broadcast, PacketOf, Packet, Socket
  <2> QED
    BY <2>3, <1>11, QuietIInv DEF Broadcast
<1>12. CASE UNCHANGED vars
  BY <1>12, QuietIInv DEF vars, IInv, Typed
<1> QED
  BY <1>1, <1>2, <1>3, <1>4, <1>5, <1>6, <1>7, <1>8, <1>9, <1>10, <1>11, <1>12
     DEF Next, SessionStep, ApplicationStep

LEMMA SpecIInv == Spec => []IInv
BY InitIInv, NextIInv, PTL DEF Spec

-----------------------------------------------------------------------------
(* The theorems.                                                           *)

\* What the namespaces have registered is what the clients have, for clients
\* that are there (Client::Connect, Socket::Close, Client::OnClose).
THEOREM RegistryAlwaysAgrees == Spec => []RegistryAgrees
<1>1. IInv => RegistryAgrees
  <2> SUFFICES ASSUME IInv PROVE RegistryAgrees
    OBVIOUS
  <2>1. \A c \in Sid : DOMAIN sockets[c] \subseteq Nsp
    BY PartialFunction DEF IInv, Typed
  <2>2. \A n \in Nsp : DOMAIN registry[n] \subseteq Sid
    BY PartialFunction DEF IInv, Typed
  <2>3. \A i \in 1..Len(stack) : stack[i] \in Calls
    BY DEF IInv, Typed
  <2>4. TypeOK
    BY <2>1, <2>2, <2>3 DEF IInv, Typed, TypeOK
  <2> QED
    BY <2>4 DEF IInv, Registered, RegistryAgrees
<1> QED
  BY <1>1, SpecIInv, PTL

\* A broadcast reaches only sockets that joined its room, but for those of a
\* session that has connected to the namespace again (Adapter::Broadcast).
THEOREM BroadcastsReachJoined == Spec => []BroadcastOnlyJoined
<1>1. IInv => BroadcastOnlyJoined
  <2> SUFFICES ASSUME IInv, NEW s \in made, NEW r \in Room, NEW i \in Recipients(s, r)
               PROVE  <<registry[s.nsp][i], r>> \in joined \/ Generation(i, s.nsp) > 1
    BY DEF BroadcastOnlyJoined
  <2>1. s.nsp \in Nsp
    BY DEF IInv, Typed, Socket
  <2>2. i \in Row(adapters[s.nsp].rooms, r) /\ i \in Sid
    <3>1. adapters[s.nsp].rooms \in Maps(Room, Sid)
      BY <2>1 DEF IInv, Typed, Adapters
    <3>2. Row(adapters[s.nsp].rooms, r) \subseteq Sid
      BY <3>1, MapsRow
    <3> QED
      BY <3>2 DEF Recipients, Reached
  <2>3. i \in DOMAIN registry[s.nsp]
    BY <2>2, NamesAssumption DEF Recipients, Reached
  <2> QED
    BY <2>1, <2>2, <2>3 DEF IInv, Rooms
<1> QED
  BY <1>1, SpecIInv, PTL

\* Nothing that happens inside Client::OnClose changes the map it walks
\* (Client::Remove, Client::Connect).
THEOREM WalksUndisturbed == Spec => WalkUndisturbed
<1>1. IInv /\ [Next]_vars =>
        [\A c \in Sid : Closing(c) /\ Closing(c)' => sockets'[c] = sockets[c]]_vars
  <2> SUFFICES ASSUME IInv, Next, NEW c \in Sid, Closing(c)
               PROVE  sockets'[c] = sockets[c]
    OBVIOUS
  <2>1. ~Idle
    BY DEF Closing, Idle
  <2>2. CASE SessionStep
    BY <2>1, <2>2 DEF SessionStep, OnConnection, OnUnknownPacket, OnClose,
                      OnConnectPacket, OnDisconnectPacket
  <2>3. CASE StackStep
    BY <2>1, <2>3, NothingRemoved DEF StackStep, CloseNext, CloseDone
  <2>4. CASE ApplicationStep
    BY <2>4 DEF ApplicationStep, Close, Emit, Join, Leave, Broadcast
  <2> QED
    BY <2>2, <2>3, <2>4 DEF Next
<1> QED
  BY <1>1, SpecIInv, PTL DEF Spec, WalkUndisturbed
-----------------------------------------------------------------------------
(* The adapters.                                                           *)

\* What the two maps of one adapter keep to.
ConsistentMaps(a) == a \in Adapters(Sid, Room) /\ Mirrored(a, Sid, Room) /\ NoEmptyRow(a)

LEMMA NewAdapterConsistent == ConsistentMaps(NewAdapter) /\ Pairs(NewAdapter) = {}
<1>1. DOMAIN NoKeys = {} /\ \A x : Row(NoKeys, x) = {}
  BY NoKeysEmpty DEF Row
<1>2. NoKeys \in [{} -> SUBSET Room] /\ NoKeys \in [{} -> SUBSET Sid]
  BY DEF NoKeys
<1>3. NoKeys \in Maps(Sid, Room) /\ NoKeys \in Maps(Room, Sid)
  BY <1>2, MapsMember
<1> QED
  BY <1>1, <1>3 DEF NewAdapter, ConsistentMaps, Adapters, Mirrored, NoEmptyRow, Pairs

\* The relation an adapter stands for, read off its first map.
LEMMA PairsMember ==
  ASSUME NEW a \in Adapters(Sid, Room)
  PROVE  Pairs(a) = {p \in Sid \X Room : p[2] \in Row(a.sids, p[1])}
<1>1. /\ a.sids \in Maps(Sid, Room)
      /\ DOMAIN a.sids \subseteq Sid
      /\ a.sids \in [DOMAIN a.sids -> SUBSET Room]
  BY MapsRow DEF Adapters
<1> QED
  BY <1>1 DEF Pairs, Row

\* The pairs of several relations, each marked with the name of its own.
Marked(P) == UNION {{<<<<m, p[1]>>, p[2]>> : p \in P[m]} : m \in Nsp}

LEMMA MarkedMember ==
  ASSUME NEW P, \A m \in Nsp : P[m] \subseteq Sid \X Room
  PROVE  /\ Marked(P) \subseteq (Nsp \X Sid) \X Room
         /\ \A n \in Nsp, j \in Sid, q \in Room :
              <<<<n, j>>, q>> \in Marked(P) <=> <<j, q>> \in P[n]
<1>1. ASSUME NEW x \in Marked(P)
      PROVE  \E m \in Nsp, j \in Sid, q \in Room : x = <<<<m, j>>, q>> /\ <<j, q>> \in P[m]
  <2>1. PICK m \in Nsp : \E p \in P[m] : x = <<<<m, p[1]>>, p[2]>>
    BY <1>1 DEF Marked
  <2>2. PICK p \in P[m] : x = <<<<m, p[1]>>, p[2]>>
    BY <2>1
  <2>3. p \in Sid \X Room
    BY <2>1, <2>2
  <2>4. p = <<p[1], p[2]>> /\ p[1] \in Sid /\ p[2] \in Room
    BY <2>3
  <2> QED
    BY <2>1, <2>2, <2>4
<1>2. ASSUME NEW n \in Nsp, NEW j \in Sid, NEW q \in Room, <<j, q>> \in P[n]
      PROVE  <<<<n, j>>, q>> \in Marked(P)
  <2> DEFINE p == <<j, q>>
  <2>1. p \in P[n] /\ p[1] = j /\ p[2] = q
    BY <1>2
  <2> HIDE DEF p
  <2>2. <<<<n, p[1]>>, p[2]>> \in Marked(P)
    BY <2>1 DEF Marked
  <2> QED
    BY <2>1, <2>2
<1>3. ASSUME NEW n \in Nsp, NEW j \in Sid, NEW q \in Room, <<<<n, j>>, q>> \in Marked(P)
      PROVE  <<j, q>> \in P[n]
  <2>1. PICK m \in Nsp, k \in Sid, t \in Room :
          <<<<n, j>>, q>> = <<<<m, k>>, t>> /\ <<k, t>> \in P[m]
    BY <1>1, <1>3
  <2>2. n = m /\ j = k /\ q = t
    BY <2>1
  <2> QED
    BY <2>1, <2>2
<1>4. ASSUME NEW x \in Marked(P) PROVE x \in (Nsp \X Sid) \X Room
  <2>1. PICK m \in Nsp, k \in Sid, t \in Room : x = <<<<m, k>>, t>> /\ <<k, t>> \in P[m]
    BY <1>1
  <2> QED
    BY <2>1
<1> QED
  BY <1>2, <1>3, <1>4

\* One pair more or less in one of the relations is one more or less marked.
LEMMA MarkedOnce ==
  ASSUME NEW P, \A m \in Nsp : P[m] \subseteq Sid \X Room,
         NEW Q, \A m \in Nsp : Q[m] \subseteq Sid \X Room,
         NEW n \in Nsp, NEW i \in Sid, NEW r \in Room,
         \A m \in Nsp \ {n} : Q[m] = P[m]
  PROVE  /\ Q[n] = P[n] \cup {<<i, r>>} => Marked(Q) = Marked(P) \cup {<<<<n, i>>, r>>}
         /\ Q[n] = P[n] \ {<<i, r>>} => Marked(Q) = Marked(P) \ {<<<<n, i>>, r>>}
<1> DEFINE All == (Nsp \X Sid) \X Room
<1>1. /\ Marked(P) \subseteq All /\ Marked(Q) \subseteq All
      /\ <<<<n, i>>, r>> \in All
      /\ \A x \in All : \E m \in Nsp, j \in Sid, q \in Room : x = <<<<m, j>>, q>>
  BY MarkedMember
<1>2. \A m \in Nsp, j \in Sid, q \in Room :
        /\ <<<<m, j>>, q>> \in Marked(P) <=> <<j, q>> \in P[m]
        /\ <<<<m, j>>, q>> \in Marked(Q) <=> <<j, q>> \in Q[m]
  BY MarkedMember
<1>3. ASSUME Q[n] = P[n] \cup {<<i, r>>}
      PROVE  \A m \in Nsp, j \in Sid, q \in Room :
               <<<<m, j>>, q>> \in Marked(Q) <=>
                 <<<<m, j>>, q>> \in Marked(P) \cup {<<<<n, i>>, r>>}
  BY <1>2, <1>3
<1>4. ASSUME Q[n] = P[n] \ {<<i, r>>}
      PROVE  \A m \in Nsp, j \in Sid, q \in Room :
               <<<<m, j>>, q>> \in Marked(Q) <=>
                 <<<<m, j>>, q>> \in Marked(P) \ {<<<<n, i>>, r>>}
  BY <1>2, <1>4
<1> HIDE DEF All
<1> QED
  BY <1>1, <1>3, <1>4

\* Adapter::Add keeps the maps consistent and adds one pair.
LEMMA AddedConsistent ==
  ASSUME NEW a, ConsistentMaps(a), NEW i \in Sid, NEW r \in Room
  PROVE  /\ ConsistentMaps(Added(a, i, r))
         /\ Pairs(Added(a, i, r)) = Pairs(a) \cup {<<i, r>>}
<1> DEFINE b == Added(a, i, r)
<1>1. a.sids \in Maps(Sid, Room) /\ a.rooms \in Maps(Room, Sid)
  BY DEF ConsistentMaps, Adapters
<1>2. /\ b = [sids |-> Put(a.sids, i, r), rooms |-> Put(a.rooms, r, i)]
      /\ b.sids = Put(a.sids, i, r)
      /\ b.rooms = Put(a.rooms, r, i)
  BY DEF Added
<1> HIDE DEF b
<1>3. b \in Adapters(Sid, Room)
  BY <1>1, <1>2, PutMap DEF Adapters
<1>4. Mirrored(b, Sid, Room)
  BY <1>1, <1>2, PutRow DEF ConsistentMaps, Mirrored
<1>5. NoEmptyRow(b)
  <2>1. \A x \in DOMAIN b.sids : b.sids[x] # {}
    BY <1>1, <1>2, PutRow DEF ConsistentMaps, NoEmptyRow
  <2>2. \A x \in DOMAIN b.rooms : b.rooms[x] # {}
    BY <1>1, <1>2, PutRow DEF ConsistentMaps, NoEmptyRow
  <2> QED
    BY <2>1, <2>2 DEF NoEmptyRow
<1>6. Pairs(b) = Pairs(a) \cup {<<i, r>>}
  <2>1. \A x : Row(Put(a.sids, i, r), x) =
                 IF x = i THEN Row(a.sids, i) \cup {r} ELSE Row(a.sids, x)
    BY DEF Put, Row
  <2> QED
    BY <1>2, <1>3, <2>1, PairsMember DEF ConsistentMaps
<1> QED
  BY <1>3, <1>4, <1>5, <1>6 DEF ConsistentMaps, b

\* Adapter::Del keeps the maps consistent and takes one pair away.
LEMMA DeletedConsistent ==
  ASSUME NEW a, ConsistentMaps(a), NEW i \in Sid, NEW r \in Room
  PROVE  /\ ConsistentMaps(Deleted(a, i, r))
         /\ Pairs(Deleted(a, i, r)) = Pairs(a) \ {<<i, r>>}
<1> DEFINE b == Deleted(a, i, r)
<1>1. a.sids \in Maps(Sid, Room) /\ a.rooms \in Maps(Room, Sid)
  BY DEF ConsistentMaps, Adapters
<1>2. /\ b = [sids |-> Take(a.sids, i, r), rooms |-> Take(a.rooms, r, i)]
      /\ b.sids = Take(a.sids, i, r)
      /\ b.rooms = Take(a.rooms, r, i)
  BY DEF Deleted
<1> HIDE DEF b
<1>3. b \in Adapters(Sid, Room)
  BY <1>1, <1>2, TakeMap DEF Adapters
<1>4. Mirrored(b, Sid, Room)
  BY <1>1, <1>2, TakeRow DEF ConsistentMaps, Mirrored
<1>5. NoEmptyRow(b)
  BY <1>1, <1>2, TakeRow DEF ConsistentMaps, NoEmptyRow
<1>6. Pairs(b) = Pairs(a) \ {<<i, r>>}
  <2>1. \A x : Row(Take(a.sids, i, r), x) =
                 IF x = i THEN Row(a.sids, i) \ {r} ELSE Row(a.sids, x)
    BY DEF Take, Row
  <2> QED
    BY <1>2, <1>3, <2>1, PairsMember DEF ConsistentMaps
<1> QED
  BY <1>3, <1>4, <1>5, <1>6 DEF ConsistentMaps, b

\* The adapters of all namespaces are consistent: the part of the invariant
\* that the two properties of the rooms need.
RoomsInv ==
  adapters \in [Nsp -> Adapters(Sid, Room)] /\ \A n \in Nsp : ConsistentMaps(adapters[n])

LEMMA RoomsInit == Init => RoomsInv
<1> SUFFICES ASSUME Init PROVE RoomsInv
  OBVIOUS
<1>1. adapters = [n \in Nsp |-> NewAdapter]
  BY DEF Init
<1> QED
  BY <1>1, NewAdapterConsistent DEF RoomsInv, ConsistentMaps

\* What a step may do to the adapters.
LEMMA RoomSteps ==
  ASSUME IInv, [Next]_vars
  PROVE  \/ adapters' = adapters
         \/ \E n \in Nsp, i \in Sid, r \in Room :
              \/ adapters' = [adapters EXCEPT ![n] = Added(@, i, r)]
              \/ adapters' = [adapters EXCEPT ![n] = Deleted(@, i, r)]
<1>1. CASE SessionStep
  BY <1>1 DEF SessionStep, OnConnection, OnUnknownPacket, OnClose, OnConnectPacket,
              OnDisconnectPacket
<1>2. CASE StackStep
  BY <1>2 DEF StackStep, CloseNext, CloseDone, CloseReturns
<1>3. CASE ApplicationStep
  <2>1. PICK s \in made :
          \/ Close(s) \/ Emit(s)
          \/ \E r \in Room : Join(s, r) \/ Leave(s, r) \/ Broadcast(s, r)
    BY <1>3 DEF ApplicationStep
  <2>2. s.nsp \in Nsp /\ s.sid \in Sid
    BY <2>1 DEF IInv, Typed, Socket
  <2>3. CASE Close(s) \/ Emit(s)
    BY <2>3 DEF Close, Emit
  <2>4. ASSUME NEW r \in Room, Join(s, r) \/ Leave(s, r) \/ Broadcast(s, r)
        PROVE  \/ adapters' = adapters
               \/ adapters' = [adapters EXCEPT ![s.nsp] = Added(@, s.sid, r)]
               \/ adapters' = [adapters EXCEPT ![s.nsp] = Deleted(@, s.sid, r)]
    BY <2>4 DEF Join, Leave, Broadcast
  <2> QED
    BY <2>1, <2>2, <2>3, <2>4
<1>4. CASE vars' = vars
  BY <1>4 DEF vars
<1> QED
  BY <1>1, <1>2, <1>3, <1>4 DEF Next

LEMMA RoomsNext == RoomsInv /\ IInv /\ [Next]_vars => RoomsInv'
<1> SUFFICES ASSUME RoomsInv, IInv, [Next]_vars PROVE RoomsInv'
  OBVIOUS
<1>1. ASSUME NEW n \in Nsp, NEW b, ConsistentMaps(b),
             adapters' = [adapters EXCEPT ![n] = b]
      PROVE  RoomsInv'
  <2>1. b \in Adapters(Sid, Room)
    BY <1>1 DEF ConsistentMaps
  <2>2. adapters' \in [Nsp -> Adapters(Sid, Room)]
    BY <1>1, <2>1 DEF RoomsInv
  <2>3. \A m \in Nsp : ConsistentMaps(adapters'[m])
    BY <1>1 DEF RoomsInv
  <2>4. \A m \in Nsp : ConsistentMaps(adapters[m])'
    BY <2>3 DEF ConsistentMaps
  <2> QED
    BY <2>2, <2>4 DEF RoomsInv
<1>2. CASE adapters' = adapters
  BY <1>2 DEF RoomsInv, ConsistentMaps
<1>3. ASSUME NEW n \in Nsp, NEW i \in Sid, NEW r \in Room,
             adapters' = [adapters EXCEPT ![n] = Added(@, i, r)]
      PROVE  RoomsInv'
  <2>1. ConsistentMaps(Added(adapters[n], i, r))
    BY AddedConsistent DEF RoomsInv
  <2> QED
    BY <1>1, <1>3, <2>1
<1>4. ASSUME NEW n \in Nsp, NEW i \in Sid, NEW r \in Room,
             adapters' = [adapters EXCEPT ![n] = Deleted(@, i, r)]
      PROVE  RoomsInv'
  <2>1. ConsistentMaps(Deleted(adapters[n], i, r))
    BY DeletedConsistent DEF RoomsInv
  <2> QED
    BY <1>1, <1>4, <2>1
<1> QED
  BY <1>2, <1>3, <1>4, RoomSteps

LEMMA SpecRoomsInv == Spec => []RoomsInv
BY RoomsInit, RoomsNext, SpecIInv, PTL DEF Spec

\* The map that Broadcast reads and the map indexed by id always agree in
\* every namespace, and neither keeps an empty row.
THEOREM AdaptersAlwaysConsistent == Spec => []AdaptersConsistent
<1>1. RoomsInv => AdaptersConsistent
  BY DEF RoomsInv, ConsistentMaps, AdaptersConsistent
<1> QED
  BY <1>1, SpecRoomsInv, PTL

\* The adapters implement one relation: a join adds one pair, a leave takes
\* one away, and nothing else changes who is in which room.
THEOREM AdaptersImplementMembership == Spec => ImplementsMembership
<1>1. Init => Membership!Init
  BY NewAdapterConsistent DEF Init, Membership!Init, Members
<1>2. RoomsInv /\ IInv /\ [Next]_vars => [Membership!Next]_Members
  <2> SUFFICES ASSUME RoomsInv, IInv, [Next]_vars PROVE [Membership!Next]_Members
    OBVIOUS
  <2> DEFINE P == [m \in Nsp |-> Pairs(adapters[m])]
             Q == [m \in Nsp |-> Pairs(adapters'[m])]
  <2>a. Members = Marked(P) /\ Members' = Marked(Q)
    BY DEF Members, Marked, Pairs
  <2>b. RoomsInv'
    BY RoomsNext
  <2>c. \A m \in Nsp : P[m] \subseteq Sid \X Room /\ Q[m] \subseteq Sid \X Room
    BY <2>b, PairsMember DEF RoomsInv
  <2>1. ASSUME NEW n \in Nsp, NEW i \in Sid, NEW r \in Room,
               adapters' = [adapters EXCEPT ![n] = Added(@, i, r)]
        PROVE  Membership!Join(<<n, i>>, r)
    <3>1. Q[n] = P[n] \cup {<<i, r>>}
      BY <2>1, AddedConsistent DEF RoomsInv
    <3>2. \A m \in Nsp \ {n} : Q[m] = P[m]
      BY <2>1 DEF RoomsInv
    <3> HIDE DEF P, Q
    <3> QED
      BY <2>a, <2>c, <3>1, <3>2, MarkedOnce DEF Membership!Join
  <2>2. ASSUME NEW n \in Nsp, NEW i \in Sid, NEW r \in Room,
               adapters' = [adapters EXCEPT ![n] = Deleted(@, i, r)]
        PROVE  Membership!Leave(<<n, i>>, r)
    <3>1. Q[n] = P[n] \ {<<i, r>>}
      BY <2>2, DeletedConsistent DEF RoomsInv
    <3>2. \A m \in Nsp \ {n} : Q[m] = P[m]
      BY <2>2 DEF RoomsInv
    <3> HIDE DEF P, Q
    <3> QED
      BY <2>a, <2>c, <3>1, <3>2, MarkedOnce DEF Membership!Leave
  <2>3. CASE adapters' = adapters
    BY <2>3 DEF Members, Pairs
  <2>4. \A n \in Nsp, i \in Sid : <<n, i>> \in Nsp \X Sid
    OBVIOUS
  <2> QED
    BY <2>1, <2>2, <2>3, <2>4, RoomSteps DEF Membership!Next
<1> QED
  BY <1>1, <1>2, SpecRoomsInv, SpecIInv, PTL
     DEF Spec, ImplementsMembership, Membership!Spec
=============================================================================
