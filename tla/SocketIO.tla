------------------------------ MODULE SocketIO ------------------------------
(***************************************************************************)
(* The socket.io layer (socketio/): Server, its Clients (one per engine.io *)
(* session), the Sockets a client opens in the namespaces, the namespaces' *)
(* own registries, and their adapters.                                     *)
(*                                                                         *)
(* Everything runs on one event loop, but it is not atomic: Socket::Close  *)
(* calls the application before it takes the socket out of the registry,   *)
(* and Client::OnClose walks a map whose sockets it closes one by one.     *)
(* The application may use any Socket it was ever given, from inside such  *)
(* a callback too.  `stack' holds the calls in progress, innermost first.  *)
(***************************************************************************)
EXTENDS RoomMaps, Sequences, FiniteSets

CONSTANTS
  Sid,          \* session ids, ordered as std::map orders the strings
  Nsp,          \* names of the namespaces made by Server::Of, ordered likewise
  Root,         \* the namespace "/"
  Unknown,      \* a name that is not in Server::nsps_
  Room,         \* room names
  MaxGen,       \* bound: sockets a client opens in one namespace
  MaxCloses     \* bound: calls of Socket::Close by the application

ASSUME NamesAssumption ==
  /\ Sid \subseteq Nat /\ Nsp \subseteq Nat /\ Sid \cap Nsp = {}
  /\ Root \in Nsp /\ Unknown \notin Nsp
ASSUME BoundsAssumption == MaxGen \in Nat /\ MaxCloses \in Nat

\* A Socket object; gen tells the objects of one client and namespace apart.
Socket == [sid : Sid, nsp : Nsp, gen : 1..MaxGen]

\* The packets handed to the engine: the session, the type, and the namespace
\* in the packet's text.
Packet == [to : Sid, type : {"connect", "event", "error"},
           nsp : Nsp \cup {Unknown}]

VARIABLES
  clients,      \* the keys of Server::clients_
  gone,         \* sessions that have ended
  sockets,      \* Client::sockets_ of every client: namespace -> Socket
  registry,     \* Namespace::sockets_map_ of every namespace: sid -> Socket
  adapters,     \* the Adapter of every namespace
  made,         \* the Sockets made so far; the application may hold each
  joined,       \* the <<Socket, room>> the application has joined and not left
  stack,        \* calls of Socket::Close and Client::OnClose in progress
  closes,       \* calls of Socket::Close by the application so far
  sent          \* the packets the latest step handed to the engine

vars == <<clients, gone, sockets, registry, adapters, made, joined, stack,
          closes, sent>>

\* A call of Socket::Close whose callbacks are running, and a call of
\* Client::OnClose with the namespaces its iterator has yet to reach.
CloseCall(s) == [call |-> "Close", socket |-> s]
OnCloseCall(c, ns) == [call |-> "OnClose", client |-> c, left |-> ns]
Calls == {CloseCall(s) : s \in Socket}
           \cup {OnCloseCall(c, ns) : c \in Sid, ns \in SUBSET Nsp}

Store(m, k, v) == [x \in DOMAIN m \cup {k} |-> IF x = k THEN v ELSE m[x]]
Erase(m, k) == [x \in DOMAIN m \ {k} |-> m[x]]
Least(S) == CHOOSE x \in S : \A y \in S : x <= y

Idle == stack = <<>>
Closing(c) ==
  \E i \in 1..Len(stack) : stack[i].call = "OnClose" /\ stack[i].client = c
InClose(s) ==
  \E i \in 1..Len(stack) : stack[i].call = "Close" /\ stack[i].socket = s

\* Application code runs from a connect or event callback, or from the close
\* callback of the innermost Socket::Close.
ApplicationRuns == stack # <<>> => Head(stack).call = "Close"

Init ==
  /\ clients = {} /\ gone = {}
  /\ sockets = [c \in Sid |-> NoKeys]
  /\ registry = [n \in Nsp |-> NoKeys]
  /\ adapters = [n \in Nsp |-> NewAdapter]
  /\ made = {} /\ joined = {}
  /\ stack = <<>> /\ closes = 0
  /\ sent = {}

-----------------------------------------------------------------------------
(* Sessions and namespaces.                                                *)

\* Socket::OnConnect and Socket::Emit leave the packet's namespace empty,
\* which the encoder and the client read as "/".
PacketOf(s, type) == [to |-> s.sid, type |-> type, nsp |-> Root]

\* The sockets of client c in namespace n.
Generation(c, n) == Cardinality({s \in made : s.sid = c /\ s.nsp = n})

\* Client::Connect with Namespace::AddSocket.  The assertion of AddSocket is
\* compiled out in the release build, and the entry is replaced.
Connect(c, n) ==
  LET s == [sid |-> c, nsp |-> n, gen |-> Generation(c, n) + 1] IN
  /\ s.gen <= MaxGen
  /\ made' = made \cup {s}
  /\ registry' = [registry EXCEPT ![n] = Store(@, c, s)]
  /\ sockets' = [sockets EXCEPT ![c] = Store(@, n, s)]
  /\ sent' = {PacketOf(s, "connect")}

\* Server::OnConnection: a session is opened by the engine.
OnConnection(c) ==
  /\ Idle /\ c \notin clients \cup gone
  /\ clients' = clients \cup {c}
  /\ Connect(c, Root)
  /\ UNCHANGED <<gone, adapters, joined, stack, closes>>

\* Client::OnData with a connect packet for a namespace of the server.  The
\* handshake has connected "/", and clients do not ask for it again; they may
\* ask for another namespace twice.
OnConnectPacket(c, n) ==
  /\ Idle /\ c \in clients /\ n # Root
  /\ Connect(c, n)
  /\ UNCHANGED <<clients, gone, adapters, joined, stack, closes>>

\* Client::Connect for a name the server does not have: an error packet.
OnUnknownPacket(c) ==
  /\ Idle /\ c \in clients
  /\ sent' = {[to |-> c, type |-> "error", nsp |-> Unknown]}
  /\ UNCHANGED <<clients, gone, sockets, registry, adapters, made, joined,
                 stack, closes>>

\* Socket::OnPacket with a disconnect or an error packet: Socket::Close.
OnDisconnectPacket(c, n) ==
  /\ Idle /\ c \in clients /\ n \in DOMAIN sockets[c]
  /\ stack' = <<CloseCall(sockets[c][n])>>
  /\ sent' = {}
  /\ UNCHANGED <<clients, gone, sockets, registry, adapters, made, joined,
                 closes>>

\* The session's transport has closed: Client::OnClose begins.
OnClose(c) ==
  /\ Idle /\ c \in clients \ gone
  /\ gone' = gone \cup {c}
  /\ stack' = <<OnCloseCall(c, DOMAIN sockets[c])>>
  /\ sent' = {}
  /\ UNCHANGED <<clients, sockets, registry, adapters, made, joined, closes>>

-----------------------------------------------------------------------------
(* The rest of the calls on the stack.                                     *)

\* Client::OnClose goes on to the next socket of its map.
CloseNext ==
  /\ ~Idle /\ Head(stack).call = "OnClose" /\ Head(stack).left # {}
  /\ LET c == Head(stack).client
         n == Least(Head(stack).left)
     IN  stack' = <<CloseCall(sockets[c][n]),
                    OnCloseCall(c, Head(stack).left \ {n})>> \o Tail(stack)
  /\ sent' = {}
  /\ UNCHANGED <<clients, gone, sockets, registry, adapters, made, joined,
                 closes>>

\* Mutant of CloseDone: Server::OnClientClose does not erase the client.
CloseDoneKeepsClient ==
  /\ ~Idle /\ Head(stack).call = "OnClose" /\ Head(stack).left = {}
  /\ stack' = Tail(stack)
  /\ sent' = {}
  /\ UNCHANGED <<clients, gone, sockets, registry, adapters, made, joined, closes>>

\* Client::OnClose is done with its map: Server::OnClientClose.
CloseDone ==
  /\ ~Idle /\ Head(stack).call = "OnClose" /\ Head(stack).left = {}
  /\ clients' = clients \ {Head(stack).client}
  /\ stack' = Tail(stack)
  /\ sent' = {}
  /\ UNCHANGED <<gone, sockets, registry, adapters, made, joined, closes>>

\* Mutant of Remove: the socket is found by its namespace, and erased under
\* the iterator of Client::OnClose.
RemoveByNamespace(m, s) == Erase(m, s.nsp)

\* Client::Remove looks the sid up among the namespaces.
Remove(m, s) == Erase(m, s.sid)

\* Mutant of CloseReturns: Namespace::RemoveSocket is not called.
CloseReturnsRegistered ==
  /\ ~Idle /\ Head(stack).call = "Close"
  /\ LET s == Head(stack).socket IN
     sockets' = IF s.sid \in clients
                THEN [sockets EXCEPT ![s.sid] = Remove(@, s)]
                ELSE sockets
  /\ stack' = Tail(stack)
  /\ sent' = {}
  /\ UNCHANGED <<clients, gone, registry, adapters, made, joined, closes>>

\* The callbacks of Socket::Close have returned: Client::Remove, unless the
\* Client has been destroyed, and Namespace::RemoveSocket, which erases
\* whatever the sid is registered for.
CloseReturns ==
  /\ ~Idle /\ Head(stack).call = "Close"
  /\ LET s == Head(stack).socket IN
     /\ sockets' = IF s.sid \in clients
                   THEN [sockets EXCEPT ![s.sid] = Remove(@, s)]
                   ELSE sockets
     /\ registry' = [registry EXCEPT ![s.nsp] = Erase(@, s.sid)]
  /\ stack' = Tail(stack)
  /\ sent' = {}
  /\ UNCHANGED <<clients, gone, adapters, made, joined, closes>>

-----------------------------------------------------------------------------
(* What the application does with a Socket s.                              *)

\* Socket::Close, not from the close callback of the same socket.
Close(s) ==
  /\ ApplicationRuns /\ ~InClose(s) /\ closes < MaxCloses
  /\ closes' = closes + 1
  /\ stack' = <<CloseCall(s)>> \o stack
  /\ sent' = {}
  /\ UNCHANGED <<clients, gone, sockets, registry, adapters, made, joined>>

\* The application joins sockets that are connected and not being closed.
Join(s, r) ==
  /\ ApplicationRuns
  /\ s.sid \in DOMAIN registry[s.nsp] /\ registry[s.nsp][s.sid] = s
  /\ ~InClose(s)
  /\ adapters' = [adapters EXCEPT ![s.nsp] = Added(@, s.sid, r)]
  /\ joined' = joined \cup {<<s, r>>}
  /\ sent' = {}
  /\ UNCHANGED <<clients, gone, sockets, registry, made, stack, closes>>

Leave(s, r) ==
  /\ ApplicationRuns
  /\ adapters' = [adapters EXCEPT ![s.nsp] = Deleted(@, s.sid, r)]
  /\ joined' = {j \in joined : j[1].sid # s.sid \/ j[1].nsp # s.nsp \/ j[2] # r}
  /\ sent' = {}
  /\ UNCHANGED <<clients, gone, sockets, registry, made, stack, closes>>

\* Socket::Emit; without a Client the packet is dropped.
Emit(s) ==
  /\ ApplicationRuns
  /\ sent' = {p \in {PacketOf(s, "event")} : p.to \in clients}
  /\ UNCHANGED <<clients, gone, sockets, registry, adapters, made, joined,
                 stack, closes>>

\* Mutant of Recipients: the namespace and not the room is gone through.
RecipientsInNamespace(s, r) ==
  (DOMAIN registry[s.nsp] \ {s.sid}) \cap clients

\* Adapter::Broadcast goes through the room in the order of the ids up to the
\* first that has no registered socket; without a Client an Emit is dropped.
Recipients(s, r) ==
  Reached(adapters[s.nsp], s.sid, r, DOMAIN registry[s.nsp]) \cap clients

\* Socket::Broadcast.
Broadcast(s, r) ==
  /\ ApplicationRuns
  /\ sent' = {PacketOf(registry[s.nsp][i], "event") : i \in Recipients(s, r)}
  /\ UNCHANGED <<clients, gone, sockets, registry, adapters, made, joined,
                 stack, closes>>

-----------------------------------------------------------------------------
SessionStep ==
  \E c \in Sid :
    \/ OnConnection(c) \/ OnUnknownPacket(c) \/ OnClose(c)
    \/ \E n \in Nsp : OnConnectPacket(c, n) \/ OnDisconnectPacket(c, n)

StackStep == CloseNext \/ CloseDone \/ CloseReturns

ApplicationStep ==
  \E s \in made :
    \/ Close(s) \/ Emit(s)
    \/ \E r \in Room : Join(s, r) \/ Leave(s, r) \/ Broadcast(s, r)

Next == SessionStep \/ StackStep \/ ApplicationStep

Spec == Init /\ [][Next]_vars

\* Calls go on: the event loop never stops and callbacks return.
FairSpec == Spec /\ WF_vars(StackStep)

-----------------------------------------------------------------------------
PartialMaps(K, V) == UNION {[D -> V] : D \in SUBSET K}

TypeOK ==
  /\ clients \subseteq Sid /\ gone \subseteq Sid
  /\ made \subseteq Socket /\ joined \subseteq made \X Room
  /\ \A c \in Sid : DOMAIN sockets[c] \subseteq Nsp
  /\ \A n \in Nsp : /\ DOMAIN registry[n] \subseteq Sid
                    /\ adapters[n] \in Adapters(Sid, Room)
  /\ \A i \in 1..Len(stack) : stack[i] \in Calls
  /\ closes \in 0..MaxCloses
  /\ sent \subseteq Packet

\* The two sides of a connection agree: what a namespace has registered for a
\* client that is in the server's table is the client's own current socket of
\* that namespace, and a client that has left the table is registered nowhere,
\* whatever the close callbacks did while it was being closed (in a state of
\* the right type).
RegistryAgrees ==
  /\ TypeOK
  /\ \A n \in Nsp : \A c \in DOMAIN registry[n] :
       /\ c \in clients
       /\ n \in DOMAIN sockets[c]
       /\ registry[n][c] = sockets[c][n]

\* The two maps of every adapter tell the same story: a room is listed under
\* an id exactly when the id is listed under the room, so that Broadcast (which
\* reads rooms_) and a removal by id (which reads sids_) never disagree; and
\* no empty inner map is kept, whatever was joined and left before.
AdaptersConsistent ==
  \A n \in Nsp : Mirrored(adapters[n], Sid, Room) /\ NoEmptyRow(adapters[n])

\* The adapters together implement one relation between the ids of each
\* namespace and the rooms: a step of the server joins one pair, takes one
\* away, or leaves every room of every namespace as it was.
Members ==
  UNION {{<<<<n, p[1]>>, p[2]>> : p \in Pairs(adapters[n])} : n \in Nsp}
Membership == INSTANCE RoomMembership WITH Member <- Nsp \X Sid, members <- Members
ImplementsMembership == Membership!Spec

\* While Client::OnClose walks its map of sockets, nothing in the calls it
\* makes changes that map, so its iterator stays valid.
WalkUndisturbed ==
  [][\A c \in Sid : Closing(c) /\ Closing(c)' => sockets'[c] = sockets[c]]_vars

\* A session that ends leaves the server's table, however many other sockets
\* the close callbacks close on the way.
ClientForgotten == \A c \in Sid : (c \in gone) ~> (c \notin clients)

\* Socket::Broadcast sends to the room: every other member that is connected.
BroadcastReachesRoom ==
  \A s \in made, r \in Room :
    (Row(adapters[s.nsp].rooms, r) \ {s.sid}) \cap DOMAIN registry[s.nsp]
      \subseteq Recipients(s, r)

\* A broadcast reaches only sockets that the application has joined to the
\* room, although the adapter goes by session ids and keeps them when a socket
\* is closed: but for a session that has connected to the namespace more than
\* once, whose later sockets inherit the rooms of the earlier ones.
BroadcastOnlyJoined ==
  \A s \in made, r \in Room : \A i \in Recipients(s, r) :
    <<registry[s.nsp][i], r>> \in joined \/ Generation(i, s.nsp) > 1
=============================================================================
