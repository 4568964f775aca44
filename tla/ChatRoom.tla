------------------------------ MODULE ChatRoom ------------------------------
(***************************************************************************)
(* The chat example: ChatRoom (example/chat/server.cc), an application of  *)
(* the namespace "/" and its adapter, and its pages (static/main.js) with  *)
(* the engine.io sessions between them.                                    *)
(*                                                                         *)
(* The server is one event loop and no callback of this application calls  *)
(* Close, so every handler is one step.  A page that has lost its session  *)
(* opens another one.  As EngineSession has it, a websocket delivers       *)
(* everything in order; an answer to a poll holds everything that waited   *)
(* for it, and of that the page can read the last; and the server does not *)
(* notice that a polling page has gone.                                    *)
(*                                                                         *)
(* Left out: the text of messages, and the typing indicator, whose events  *)
(* are commented out.                                                      *)
(***************************************************************************)
EXTENDS RoomMaps, SequencesExt, FiniteSets

CONSTANTS
  Page,         \* the pages visitors have open
  NoPage,       \* not a page
  Sid,          \* session ids, ordered as std::map orders the strings; not 0
  NameOf,       \* the name the visitor of a page may give
  NoName,       \* the empty name
  MaxMessages,  \* bound: messages that are sent
  MaxLost       \* bound: sessions that are lost

Name == {NameOf[p] : p \in Page}

ASSUME ChatAssumption ==
  /\ NoPage \notin Page /\ NoName \notin Name
  /\ Sid \subseteq Nat \ {0} /\ IsFiniteSet(Sid)
  /\ MaxMessages \in Nat /\ MaxLost \in Nat

\* The one room.
Chatroom == "chatroom"

VARIABLES
  usernum,      \* ChatRoom::usernum_
  members,      \* ChatRoom::members_, a map
  adapter,      \* the Adapter of "/"
  sockets,      \* the keys of Namespace::sockets_map_ of "/"
  sessions,     \* the engine.io sessions, by id
  pages,        \* the pages
  messages      \* messages sent so far

vars == <<usernum, members, adapter, sockets, sessions, pages, messages>>

\* What a page writes and what the server does: the name is empty in a
\* message; `by' is the session the event comes from, `count' numUsers.
Said(event, name) == [event |-> event, name |-> name]
Told(event, name, count, s) ==
  [event |-> event, name |-> name, count |-> count, by |-> s]
Connected(s) == Told("connect", NoName, 0, s)

NewMember == [added |-> FALSE, name |-> NoName]

\* cut: an answer to a poll has lost events.
NewSession ==
  [page |-> NoPage, carrier |-> "polling", up |-> <<>>, down |-> <<>>, cut |-> FALSE]

\* online: connected of the page's Socket; outbox, inbox: its sendBuffer and
\* receiveBuffer; login: `connected' of main.js; told: the session on which
\* it gave its name; count: the number it shows, heard on session `heard'.
NewPage ==
  [session |-> 0, online |-> FALSE, outbox |-> <<>>, inbox |-> <<>>,
   name |-> NoName, login |-> FALSE, told |-> 0, count |-> 0, heard |-> 0]

Init ==
  /\ usernum = 0 /\ members = NoKeys
  /\ adapter = NewAdapter /\ sockets = {}
  /\ sessions = [s \in Sid |-> NewSession]
  /\ pages = [p \in Page |-> NewPage]
  /\ messages = 0

-----------------------------------------------------------------------------
(* The server.                                                             *)

\* Map insert, which keeps an entry that is there, and erase.
Inserted(m, k, v) == [x \in DOMAIN m \cup {k} |-> IF x \in DOMAIN m THEN m[x] ELSE v]
Erased(m, k) == [x \in DOMAIN m \ {k} |-> m[x]]

\* Events are put on the way to the pages; one that has gone hears nothing.
Sent(ss, to, e) ==
  [s \in Sid |->
     IF s \in to /\ ss[s].page # NoPage /\ pages[ss[s].page].session = s
     THEN [ss[s] EXCEPT !.down = Append(@, e)] ELSE ss[s]]

\* Socket::Broadcast to the room.
Others(s) == Reached(adapter, s, Chatroom, sockets)

\* A page opens session s: Server::OnConnection, Client::Connect,
\* ChatRoom::OnConnection.
OnConnection(p, s) ==
  /\ pages[p].session = 0 /\ sessions[s].page = NoPage
  /\ sockets' = sockets \cup {s}
  /\ adapter' = Added(adapter, s, Chatroom)
  /\ members' = Inserted(members, s, NewMember)
  /\ pages' = [pages EXCEPT ![p].session = s]
  /\ sessions' = [sessions EXCEPT ![s].page = p, ![s].down = <<Connected(s)>>]
  /\ UNCHANGED <<usernum, messages>>

\* Mutant of Named: the name is not kept.
NamedNot(name) == [added |-> TRUE, name |-> NoName]

\* OnAddUser: SetAddedUser and SetUsername.
Named(name) == [added |-> TRUE, name |-> name]

\* OnAddUser: the answer to the page.
Welcomed(ss, s) == Sent(ss, {s}, Told("login", NoName, usernum + 1, s))

\* ChatRoom::OnAddUser, when the server reads the page's name.
OnAddUser(s) ==
  /\ s \in sockets /\ sessions[s].up # <<>> /\ Head(sessions[s].up).event = "add user"
  /\ LET name == Head(sessions[s].up).name
         read == [sessions EXCEPT ![s].up = Tail(@)]
     IN  IF s \in DOMAIN members /\ ~members[s].added
         THEN /\ members' = [members EXCEPT ![s] = Named(name)]
              /\ usernum' = usernum + 1
              /\ sessions' = Sent(Welcomed(read, s), Others(s),
                                  Told("user joined", NoName, usernum + 1, s))
         ELSE sessions' = read /\ UNCHANGED <<members, usernum>>
  /\ UNCHANGED <<adapter, sockets, pages, messages>>

\* ChatRoom::OnNewMessage, when the server reads a message.
OnNewMessage(s) ==
  /\ s \in sockets /\ sessions[s].up # <<>> /\ Head(sessions[s].up).event = "new message"
  /\ LET read == [sessions EXCEPT ![s].up = Tail(@)]
     IN  sessions' = IF s \in DOMAIN members
                     THEN Sent(read, Others(s), Told("new message", members[s].name, 0, s))
                     ELSE read
  /\ UNCHANGED <<usernum, members, adapter, sockets, pages, messages>>

\* Mutant of LeftCount: the others are told how many there were.
LeftCountBefore == usernum

\* OnDisconnect: the members it counts out, and the number it tells the others.
Leaves(s) == s \in DOMAIN members /\ members[s].added
LeftCount == usernum - 1

\* Mutant of Without: the member stays.
WithoutNone(m, s) == m

\* OnDisconnect: the member is erased.
Without(m, s) == Erased(m, s)

\* The server notices that session s has ended: Client::OnClose, Socket::Close
\* with ChatRoom::OnDisconnect and then RemoveSocket.  The room keeps the id.
OnClose(s) ==
  /\ s \in sockets /\ sessions[s].carrier = "websocket"
  /\ LET gone == [sessions EXCEPT ![s].up = <<>>]
     IN  IF Leaves(s)
         THEN /\ usernum' = usernum - 1
              /\ members' = Without(members, s)
              /\ sessions' = Sent(gone, Others(s),
                               Told("user left", NoName, LeftCount, s))
         ELSE sessions' = gone /\ UNCHANGED <<usernum, members>>
  /\ sockets' = sockets \ {s}
  /\ UNCHANGED <<adapter, pages, messages>>

-----------------------------------------------------------------------------
(* The pages.                                                              *)

\* Socket.emit of page p, which is g from now on.
Emit(p, g, e) ==
  IF g.online
  THEN /\ pages' = [pages EXCEPT ![p] = g]
       /\ sessions' = [sessions EXCEPT ![g.session].up = Append(@, e)]
  ELSE /\ pages' = [pages EXCEPT ![p] = [g EXCEPT !.outbox = Append(@, e)]]
       /\ UNCHANGED sessions

\* setUsername: once, and never again on a later session.
SetUsername(p) ==
  /\ pages[p].name = NoName
  /\ Emit(p, [pages[p] EXCEPT !.name = NameOf[p],
                !.told = IF pages[p].online THEN pages[p].session ELSE 0],
          Said("add user", NameOf[p]))
  /\ UNCHANGED <<usernum, members, adapter, sockets, messages>>

\* sendMessage.
SendMessage(p) ==
  /\ pages[p].name # NoName /\ pages[p].login /\ messages < MaxMessages
  /\ messages' = messages + 1
  /\ Emit(p, pages[p], Said("new message", NoName))
  /\ UNCHANGED <<usernum, members, adapter, sockets>>

\* The page's callbacks for the events of the server.
Shows(g, e) ==
  CASE e.event = "login" -> [g EXCEPT !.login = TRUE, !.count = e.count]
    [] e.event \in {"user joined", "user left"} -> [g EXCEPT !.count = e.count]
    [] OTHER -> g

\* Socket.onevent: an event that comes before the connect packet is kept.
OnEvent(g, e) ==
  IF g.online
  THEN [Shows(g, e) EXCEPT !.heard = IF e.event = "new message" THEN @ ELSE g.session]
  ELSE [g EXCEPT !.inbox = Append(@, e)]

\* Socket.emitBuffered: page g when the events that were kept have been shown.
Shown(g) ==
  LET f[i \in 0..Len(g.inbox)] == IF i = 0 THEN g ELSE Shows(f[i - 1], g.inbox[i])
  IN  f[Len(g.inbox)]

\* Mutant of Buffered: what waited is given up.
BufferedLost(g) == <<>>

\* Socket.emitBuffered: the emits that waited for the connection.
Buffered(g) == g.outbox

\* Socket.onconnect and emitBuffered of page p.
GoesOnline(p, ss) ==
  LET g == [Shown(pages[p]) EXCEPT !.online = TRUE, !.inbox = <<>>, !.outbox = <<>>]
      s == g.session
      named == \E e \in ToSet(pages[p].outbox) : e.event = "add user"
  IN  /\ pages' = [pages EXCEPT ![p] = IF named THEN [g EXCEPT !.told = s] ELSE g]
      /\ sessions' = [ss EXCEPT ![s].up = @ \o Buffered(pages[p])]

\* Page p reads what its session has for it: an event of a websocket, or an
\* answer to its poll, of which it can read the last packet.
Hear(p) ==
  LET s == pages[p].session
      down == sessions[s].down
      e == IF sessions[s].carrier = "polling" THEN Last(down) ELSE Head(down)
      ss == [sessions EXCEPT
               ![s].down = IF sessions[s].carrier = "polling" THEN <<>> ELSE Tail(@),
               ![s].cut = @ \/ (sessions[s].carrier = "polling" /\ Len(down) > 1)]
  IN  /\ s # 0 /\ down # <<>>
      /\ IF e.event = "connect" THEN GoesOnline(p, ss)
         ELSE /\ pages' = [pages EXCEPT ![p] = OnEvent(@, e)]
              /\ sessions' = ss
      /\ UNCHANGED <<usernum, members, adapter, sockets, messages>>

\* The session of page p is upgraded.
Upgrade(p) ==
  /\ pages[p].session # 0 /\ sessions[pages[p].session].carrier = "polling"
  /\ pages[p].session \in sockets
  /\ sessions' = [sessions EXCEPT ![pages[p].session].carrier = "websocket"]
  /\ UNCHANGED <<usernum, members, adapter, sockets, pages, messages>>

\* The sessions whose page has gone.
Lost == {s \in Sid : sessions[s].page # NoPage /\ pages[sessions[s].page].session # s}

\* Page p loses its session.  What it has written may still arrive.
Lose(p) ==
  /\ pages[p].session # 0 /\ Cardinality(Lost) < MaxLost
  /\ pages' = [pages EXCEPT ![p].session = 0, ![p].online = FALSE, ![p].heard = 0]
  /\ sessions' = [sessions EXCEPT ![pages[p].session].down = <<>>,
                                  ![pages[p].session].cut = FALSE]
  /\ UNCHANGED <<usernum, members, adapter, sockets, messages>>

-----------------------------------------------------------------------------
\* Socket::OnEventPacket.
OnEventPacket(s) == OnAddUser(s) \/ OnNewMessage(s)

ServerStep ==
  \/ \E p \in Page, s \in Sid : OnConnection(p, s)
  \/ \E s \in Sid : OnEventPacket(s) \/ OnClose(s)

PageStep ==
  \E p \in Page :
    SetUsername(p) \/ SendMessage(p) \/ Hear(p) \/ Upgrade(p) \/ Lose(p)

Next == ServerStep \/ PageStep

Spec == Init /\ [][Next]_vars

\* What has arrived is handled, and what is sent arrives.
FairSpec ==
  /\ Spec
  /\ \A s \in Sid : WF_vars(OnEventPacket(s))
  /\ \A p \in Page : WF_vars(Hear(p))

-----------------------------------------------------------------------------
Emits == [event : {"add user", "new message"}, name : Name \cup {NoName}]
Events ==
  [event : {"connect", "login", "user joined", "user left", "new message"},
   name : Name \cup {NoName}, count : 0..Cardinality(Sid), by : Sid]

Member == [added : BOOLEAN, name : Name \cup {NoName}]

SessionState ==
  [page : Page \cup {NoPage}, carrier : {"polling", "websocket"},
   up : Seq(Emits), down : Seq(Events), cut : BOOLEAN]

PageState ==
  [session : Sid \cup {0}, online : BOOLEAN, outbox : Seq(Emits), inbox : Seq(Events),
   name : Name \cup {NoName}, login : BOOLEAN, told : Sid \cup {0},
   count : 0..Cardinality(Sid), heard : Sid \cup {0}]

TypeOK ==
  /\ usernum \in 0..Cardinality(Sid) /\ messages \in 0..MaxMessages
  /\ DOMAIN members \subseteq Sid /\ members \in [DOMAIN members -> Member]
  /\ sockets \subseteq Sid /\ adapter \in Adapters(Sid, {Chatroom})
  /\ sessions \in [Sid -> SessionState] /\ pages \in [Page -> PageState]

Users == {s \in DOMAIN members : members[s].added}

\* usernum_ counts the members who have given a name, and each of them has a
\* socket: whoever leaves is counted out once, in whatever order names,
\* connections and disconnections come.
UsersCounted == usernum = Cardinality(Users) /\ Users \subseteq sockets

\* A message on its way to a page, or kept there, has the name its author has
\* given; it has none only if it was sent on another session than the name
\* was, which is the one name the page will ever send.
MessagesNamed ==
  \A p \in Page : LET s == pages[p].session IN
    \A e \in ToSet(pages[p].inbox) \cup (IF s = 0 THEN {} ELSE ToSet(sessions[s].down)) :
      e.event = "new message" =>
        LET author == pages[sessions[e.by].page] IN
        e.name = IF e.by = author.told THEN author.name ELSE NoName

\* The ids that end a broadcast before it comes to session s: the adapter
\* keeps the ids of sockets that are gone.
InTheWay(s) == {i \in Row(adapter.rooms, Chatroom) : i < s /\ i \notin sockets}

\* The state has its type, and a page that has heard everything its session had
\* for it shows the number of users there are, unless a member that has left is
\* in the way of broadcasts, or an answer to a poll has lost some.
CountsAgree ==
  /\ TypeOK
  /\ \A p \in Page : LET s == pages[p].session IN
       (/\ s \in sockets /\ pages[p].heard = s
        /\ sessions[s].down = <<>> /\ ~sessions[s].cut /\ InTheWay(s) = {})
         => pages[p].count = usernum

\* A visitor who gives a name is logged in if the session lasts, and no answer
\* to a poll loses events.
LoggedIn ==
  \A p \in Page :
    LET s == pages[p].session IN
    (s # 0 /\ pages[p].name # NoName /\ pages[p].told \in {0, s})
      ~> (pages[p].login \/ s \notin sockets \/ pages[p].told \notin {0, s} \/ sessions[s].cut)
=============================================================================
