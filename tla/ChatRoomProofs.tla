--------------------------- MODULE ChatRoomProofs ---------------------------
(***************************************************************************)
(* For any number of pages, sessions and messages: the chat room's counter *)
(* is the number of its named members, who all have a socket; the state    *)
(* has its type, and sockets, sessions and pages belong together (Settled);*)
(* messages have the name of their author (Naming); and a page that has    *)
(* heard everything shows the counter (Counts).                            *)
(***************************************************************************)
EXTENDS ChatRoom, DataLemmas, FiniteSetTheorems

-----------------------------------------------------------------------------
(* The room's counter.                                                     *)

\* What UsersCounted needs besides: members is a map with finitely many keys,
\* and the counter is a number.
Counted ==
  /\ members = [s \in DOMAIN members |-> members[s]]
  /\ IsFiniteSet(DOMAIN members)
  /\ usernum \in Nat
  /\ UsersCounted

LEMMA InitCounted == Init => Counted
<1> SUFFICES ASSUME Init PROVE Counted
  OBVIOUS
<1>1. DOMAIN members = {} /\ members = [s \in DOMAIN members |-> members[s]]
  BY DEF Init, NoKeys
<1>2. Users = {}
  BY <1>1 DEF Users
<1> QED
  BY <1>1, <1>2, FS_EmptySet DEF Init, Counted, UsersCounted

\* A new member is not counted, whether its id is known or not
\* (ChatRoom::OnConnection).
LEMMA ConnectionCounted ==
  ASSUME Counted, NEW p \in Page, NEW s \in Sid, OnConnection(p, s)
  PROVE  Counted'
<1>1. /\ DOMAIN members' = DOMAIN members \cup {s}
      /\ members' = [x \in DOMAIN members' |-> members'[x]]
      /\ \A x \in DOMAIN members : members'[x] = members[x]
      /\ s \notin DOMAIN members => members'[s] = NewMember
  BY DEF OnConnection, Inserted
<1>2. Users' = Users
  BY <1>1 DEF Users, NewMember
<1>3. IsFiniteSet(DOMAIN members')
  BY <1>1, FS_AddElement DEF Counted
<1> QED
  BY <1>1, <1>2, <1>3 DEF Counted, UsersCounted, OnConnection

\* Whoever gives a name is counted in once (ChatRoom::OnAddUser).
LEMMA AddUserCounted ==
  ASSUME Counted, NEW s \in Sid, OnAddUser(s)
  PROVE  Counted'
<1>1. CASE s \in DOMAIN members /\ ~members[s].added
  <2> DEFINE name == Head(sessions[s].up).name
  <2>0. /\ members' = [members EXCEPT ![s] = Named(name)]
        /\ usernum' = usernum + 1 /\ sockets' = sockets /\ s \in sockets
    BY <1>1, Zenon DEF OnAddUser
  <2>1. /\ DOMAIN members' = DOMAIN members
        /\ members' = [x \in DOMAIN members' |-> members'[x]]
        /\ \A x \in DOMAIN members \ {s} : members'[x] = members[x]
        /\ members'[s].added
    BY <1>1, <2>0 DEF Counted, Named
  <2>2. Users' = Users \cup {s} /\ s \notin Users
    BY <1>1, <2>1 DEF Users
  <2>3. IsFiniteSet(Users)
    BY FS_Subset DEF Counted, Users
  <2>4. Cardinality(Users') = Cardinality(Users) + 1
    BY <2>2, <2>3, FS_AddElement
  <2> QED
    BY <2>0, <2>1, <2>2, <2>4 DEF Counted, UsersCounted
<1>2. CASE ~(s \in DOMAIN members /\ ~members[s].added)
  <2>1. UNCHANGED <<members, usernum, sockets>>
    BY <1>2 DEF OnAddUser
  <2> QED
    BY <2>1 DEF Counted, UsersCounted, Users
<1> QED
  BY <1>1, <1>2

\* Whoever leaves is counted out if it was counted in (ChatRoom::OnDisconnect
\* and Namespace::RemoveSocket).
LEMMA CloseCounted ==
  ASSUME Counted, NEW s \in Sid, OnClose(s)
  PROVE  Counted'
<1>1. CASE Leaves(s)
  <2>1. /\ DOMAIN members' = DOMAIN members \ {s}
        /\ members' = [x \in DOMAIN members' |-> members'[x]]
        /\ \A x \in DOMAIN members \ {s} : members'[x] = members[x]
        /\ usernum' = usernum - 1 /\ sockets' = sockets \ {s}
    BY <1>1 DEF OnClose, Without, Erased
  <2>2. Users' = Users \ {s} /\ s \in Users
    BY <1>1, <2>1 DEF Users, Leaves
  <2>3. IsFiniteSet(Users) /\ IsFiniteSet(DOMAIN members')
    BY <2>1, FS_Subset DEF Counted, Users
  <2>4. Cardinality(Users') = Cardinality(Users) - 1 /\ Cardinality(Users') \in Nat
    BY <2>2, <2>3, FS_RemoveElement, FS_CardinalityType
  <2> QED
    BY <2>1, <2>2, <2>3, <2>4 DEF Counted, UsersCounted
<1>2. CASE ~Leaves(s)
  <2>1. UNCHANGED <<members, usernum>> /\ sockets' = sockets \ {s} /\ s \notin Users
    BY <1>2 DEF OnClose, Leaves, Users
  <2> QED
    BY <2>1 DEF Counted, UsersCounted, Users
<1> QED
  BY <1>1, <1>2

\* The pages do not touch the room.
LEMMA PageCounted ==
  ASSUME Counted, PageStep \/ (\E s \in Sid : OnNewMessage(s)) \/ UNCHANGED vars
  PROVE  Counted'
<1>1. UNCHANGED <<members, usernum, sockets>>
  BY DEF PageStep, OnNewMessage, vars, SetUsername, SendMessage, Hear, Upgrade, Lose
<1> QED
  BY <1>1 DEF Counted, UsersCounted, Users

\* For any number of pages and sessions: usernum_ is the number of members who
\* have given a name, each of whom has a socket (ChatRoom's counter).
THEOREM UsersAreCounted == Spec => []UsersCounted
<1>1. ASSUME Counted, [Next]_vars PROVE Counted'
  <2>1. CASE ServerStep
    BY <1>1, <2>1, ConnectionCounted, AddUserCounted, CloseCounted, PageCounted
       DEF ServerStep, OnEventPacket
  <2>2. CASE PageStep
    BY <1>1, <2>2, PageCounted
  <2>3. CASE UNCHANGED vars
    BY <1>1, <2>3, PageCounted
  <2> QED
    BY <1>1, <2>1, <2>2, <2>3 DEF Next
<1>2. Counted => UsersCounted
  BY DEF Counted
<1> QED
  BY InitCounted, <1>1, <1>2, PTL DEF Spec

-----------------------------------------------------------------------------
(* What the operators of the model do to events, sessions and pages.       *)

LEMMA ToSetFacts ==
  ASSUME NEW S, NEW q \in Seq(S)
  PROVE  /\ ToSet(q) \subseteq S /\ ToSet(<<>>) = {}
         /\ \A e \in S : Append(q, e) \in Seq(S) /\ ToSet(Append(q, e)) = ToSet(q) \cup {e}
         /\ \A r \in Seq(S) : q \o r \in Seq(S) /\ ToSet(q \o r) = ToSet(q) \cup ToSet(r)
<1>1. Len(q) \in Nat /\ DOMAIN q = 1..Len(q) /\ \A i \in 1..Len(q) : q[i] \in S
  BY LenProperties, ElementOfSeq
<1>2. ToSet(q) \subseteq S
  BY <1>1 DEF ToSet
<1>3. ToSet(<<>>) = {}
  BY DEF ToSet
<1>4. ASSUME NEW e \in S
      PROVE  Append(q, e) \in Seq(S) /\ ToSet(Append(q, e)) = ToSet(q) \cup {e}
  <2> DEFINE r == Append(q, e)
  <2>1. /\ r \in Seq(S) /\ Len(r) = Len(q) + 1
        /\ \A i \in 1..Len(q) : r[i] = q[i]
        /\ r[Len(q) + 1] = e
    BY AppendProperties
  <2>2. DOMAIN r = 1..Len(q) + 1
    BY <2>1, LenProperties
  <2> HIDE DEF r
  <2>3. ToSet(r) \subseteq ToSet(q) \cup {e}
    BY <1>1, <2>1, <2>2 DEF ToSet
  <2>4. ToSet(q) \cup {e} \subseteq ToSet(r)
    BY <1>1, <2>1, <2>2 DEF ToSet
  <2> QED
    BY <2>1, <2>3, <2>4 DEF r
<1>5. ASSUME NEW r \in Seq(S)
      PROVE  q \o r \in Seq(S) /\ ToSet(q \o r) = ToSet(q) \cup ToSet(r)
  <2> DEFINE t == q \o r
  <2>1. Len(r) \in Nat /\ DOMAIN r = 1..Len(r)
    BY LenProperties
  <2>2. /\ t \in Seq(S) /\ Len(t) = Len(q) + Len(r)
        /\ \A i \in 1..Len(q) + Len(r) :
             t[i] = IF i <= Len(q) THEN q[i] ELSE r[i - Len(q)]
    BY ConcatProperties
  <2>3. DOMAIN t = 1..Len(q) + Len(r)
    BY <2>2, LenProperties
  <2> HIDE DEF t
  <2>4. ToSet(t) \subseteq ToSet(q) \cup ToSet(r)
    <3> SUFFICES ASSUME NEW i \in DOMAIN t PROVE t[i] \in ToSet(q) \cup ToSet(r)
      BY DEF ToSet
    <3>1. CASE i <= Len(q)
      BY <1>1, <2>2, <2>3, <3>1 DEF ToSet
    <3>2. CASE ~(i <= Len(q))
      <4>1. t[i] = r[i - Len(q)] /\ i - Len(q) \in DOMAIN r
        BY <1>1, <2>1, <2>2, <2>3, <3>2
      <4> QED
        BY <4>1 DEF ToSet
    <3> QED
      BY <3>1, <3>2
  <2>5. ToSet(q) \subseteq ToSet(t)
    <3>1. \A i \in DOMAIN q : i \in DOMAIN t /\ t[i] = q[i]
      BY <1>1, <2>1, <2>2, <2>3
    <3> QED
      BY <3>1 DEF ToSet
  <2>6. ToSet(r) \subseteq ToSet(t)
    <3>1. \A i \in DOMAIN r : i + Len(q) \in DOMAIN t /\ t[i + Len(q)] = r[i]
      BY <1>1, <2>1, <2>2, <2>3
    <3> QED
      BY <3>1 DEF ToSet
  <2> QED
    BY <2>2, <2>4, <2>5, <2>6 DEF t
<1> QED
  BY <1>2, <1>3, <1>4, <1>5

\* A queue is read from either end.
LEMMA EndsFacts ==
  ASSUME NEW S, NEW q \in Seq(S), q # <<>>
  PROVE  /\ Head(q) \in ToSet(q) /\ Last(q) \in ToSet(q)
         /\ Tail(q) \in Seq(S) /\ ToSet(Tail(q)) \subseteq ToSet(q)
<1>1. Len(q) \in Nat \ {0} /\ DOMAIN q = 1..Len(q)
  BY LenProperties, EmptySeq
<1>2. Head(q) = q[1] /\ Last(q) = q[Len(q)]
  BY DEF Last
<1>3. /\ Tail(q) \in Seq(S) /\ Len(Tail(q)) = Len(q) - 1
      /\ \A i \in 1..Len(Tail(q)) : Tail(q)[i] = q[i + 1]
  BY HeadTailProperties
<1>4. DOMAIN Tail(q) = 1..Len(q) - 1
  BY <1>3, LenProperties
<1>5. \A i \in DOMAIN Tail(q) : i + 1 \in DOMAIN q /\ Tail(q)[i] = q[i + 1]
  BY <1>1, <1>3, <1>4
<1> QED
  BY <1>1, <1>2, <1>3, <1>5 DEF ToSet

LEMMA EmitTypes ==
  /\ \A p \in Page : NameOf[p] \in Name /\ NameOf[p] # NoName
  /\ \A p \in Page : Said("add user", NameOf[p]) \in Emits
  /\ Said("new message", NoName) \in Emits
BY ChatAssumption DEF Name, Said, Emits

LEMMA EventTypes ==
  ASSUME NEW s \in Sid
  PROVE  /\ Connected(s) \in Events
         /\ \A name \in Name \cup {NoName} : Told("new message", name, 0, s) \in Events
         /\ \A n \in 0..Cardinality(Sid) :
              /\ Told("login", NoName, n, s) \in Events
              /\ Told("user joined", NoName, n, s) \in Events
              /\ Told("user left", NoName, n, s) \in Events
<1>1. 0 \in 0..Cardinality(Sid)
  BY ChatAssumption, FS_CardinalityType
<1> QED
  BY <1>1 DEF Connected, Told, Events

LEMMA SentFacts ==
  ASSUME NEW ss \in [Sid -> SessionState], NEW to, NEW e \in Events
  PROVE  /\ Sent(ss, to, e) \in [Sid -> SessionState]
         /\ \A s \in Sid :
              /\ Sent(ss, to, e)[s].page = ss[s].page
              /\ Sent(ss, to, e)[s].carrier = ss[s].carrier
              /\ Sent(ss, to, e)[s].up = ss[s].up
              /\ Sent(ss, to, e)[s].cut = ss[s].cut
              /\ Sent(ss, to, e)[s].down =
                   IF s \in to /\ ss[s].page # NoPage /\ pages[ss[s].page].session = s
                   THEN Append(ss[s].down, e) ELSE ss[s].down
<1>1. ASSUME NEW s \in Sid
      PROVE  /\ ss[s] \in SessionState
             /\ [ss[s] EXCEPT !.down = Append(@, e)] \in SessionState
  <2>1. ss[s] \in SessionState
    OBVIOUS
  <2>2. Append(ss[s].down, e) \in Seq(Events)
    BY <2>1, AppendProperties DEF SessionState
  <2> QED
    BY <2>1, <2>2 DEF SessionState
<1> QED
  BY <1>1 DEF Sent, SessionState

\* What the page shows of an event.
LEMMA ShowsFacts ==
  ASSUME NEW g \in PageState, NEW e \in Events
  PROVE  /\ Shows(g, e) \in PageState
         /\ Shows(g, e).session = g.session /\ Shows(g, e).online = g.online
         /\ Shows(g, e).outbox = g.outbox /\ Shows(g, e).inbox = g.inbox
         /\ Shows(g, e).name = g.name /\ Shows(g, e).told = g.told
         /\ Shows(g, e).heard = g.heard
         /\ Shows(g, e).login => g.login \/ e.event = "login"
         /\ g.login => Shows(g, e).login
         /\ Shows(g, e).count = IF e.event \in {"login", "user joined", "user left"}
                                THEN e.count ELSE g.count
<1>1. CASE e.event = "login"
  <2>1. Shows(g, e) = [g EXCEPT !.login = TRUE, !.count = e.count]
    BY <1>1 DEF Shows
  <2> QED
    BY <1>1, <2>1 DEF PageState, Events
<1>2. CASE e.event \in {"user joined", "user left"}
  <2>1. Shows(g, e) = [g EXCEPT !.count = e.count]
    BY <1>2 DEF Shows
  <2> QED
    BY <1>2, <2>1 DEF PageState, Events
<1>3. CASE e.event \notin {"login", "user joined", "user left"}
  BY <1>3 DEF Shows
<1> QED
  BY <1>1, <1>2, <1>3

\* The events that were kept change what the page shows and nothing else.
LEMMA ShownFacts ==
  ASSUME NEW g \in PageState
  PROVE  /\ Shown(g) \in PageState
         /\ Shown(g).session = g.session /\ Shown(g).heard = g.heard
         /\ Shown(g).name = g.name /\ Shown(g).told = g.told
         /\ Shown(g).login => g.login \/ \E e \in ToSet(g.inbox) : e.event = "login"
         /\ g.inbox = <<>> => Shown(g).count = g.count
<1> DEFINE q == g.inbox
           n == Len(q)
           Is(F) == F = [i \in 0..n |-> IF i = 0 THEN g ELSE Shows(F[i - 1], q[i])]
           late == \E e \in ToSet(q) : e.event = "login"
           V == {h \in PageState :
                   /\ h.session = g.session /\ h.heard = g.heard
                   /\ h.name = g.name /\ h.told = g.told
                   /\ h.login => g.login \/ late}
           st == [i \in 1..n |-> [h \in V |-> Shows(h, q[i])]]
<1>1. /\ q \in Seq(Events) /\ n \in Nat /\ DOMAIN q = 1..n
      /\ \A i \in 1..n : q[i] \in Events /\ q[i] \in ToSet(q)
  <2>1. q \in Seq(Events)
    BY DEF PageState
  <2> QED
    BY <2>1, LenProperties, ElementOfSeq DEF ToSet
<1>2. g \in V
  OBVIOUS
<1>3. ASSUME NEW i \in 1..n, NEW h \in V PROVE Shows(h, q[i]) \in V
  <2>1. h \in PageState /\ q[i] \in Events /\ (q[i].event = "login" => late)
    BY <1>1
  <2> QED
    BY <2>1, ShowsFacts
<1>4. /\ st \in [1..n -> [V -> V]]
      /\ \A i \in 1..n : \A h \in V : st[i][h] = Shows(h, q[i])
  <2> HIDE DEF V, q, n
  <2> QED
    BY <1>3
<1>5. Shown(g) = (CHOOSE F : Is(F))[n]
  BY DEF Shown
<1> HIDE DEF V, st, late
<1>6. PICK H \in [0..n -> V] : H[0] = g /\ \A k \in 1..n : H[k] = st[k][H[k - 1]]
  <2>0. n \in Nat
    BY <1>1
  <2> HIDE DEF n, q
  <2>1. PICK H : Stages(H, V, g, n, st)
    BY <1>2, <1>4, <2>0, Recursion
  <2> QED
    BY <2>1 DEF Stages
<1>7. Is(H)
  <2> HIDE DEF n, q
  <2>1. ASSUME NEW i \in 0..n
        PROVE  H[i] = IF i = 0 THEN g ELSE Shows(H[i - 1], q[i])
    <3>1. CASE i = 0
      BY <1>6, <3>1
    <3>2. CASE i # 0
      <4>1. i \in 1..n /\ i - 1 \in 0..n
        BY <1>1, <3>2
      <4>2. H[i - 1] \in V /\ H[i] = st[i][H[i - 1]]
        BY <1>6, <4>1
      <4> QED
        BY <1>4, <3>2, <4>1, <4>2
    <3> QED
      BY <3>1, <3>2
  <2>2. H = [i \in 0..n |-> H[i]]
    BY <1>6
  <2> QED
    BY <2>1, <2>2
<1> DEFINE G == CHOOSE F : Is(F)
<1>8. Is(G)
  <2> HIDE DEF Is
  <2> QED
    BY <1>7
<1> HIDE DEF G
<1>9. G[0] = g /\ \A k \in 1..n : G[k] = Shows(G[k - 1], q[k])
  <2> HIDE DEF q
  <2> QED
    BY <1>1, <1>8
<1>10. \A k \in 0..n : G[k] \in V
  <2>1. \A k \in 1..n : G[k - 1] \in V => G[k] = st[k][G[k - 1]]
    BY <1>4, <1>9
  <2> HIDE DEF n, q, Is
  <2>2. \A b \in V : \A steps \in [1..n -> [V -> V]] : \A F :
          F[0] = b /\ (\A k \in 1..n : F[k - 1] \in V => F[k] = steps[k][F[k - 1]])
            => \A k \in 0..n : F[k] \in V
    BY <1>1, RecursionTyped
  <2> QED
    BY <1>2, <1>4, <1>9, <2>1, <2>2
<1>11. Shown(g) = G[n]
  BY <1>5 DEF G
<1>12. n \in 0..n
  BY <1>1
<1>13. Shown(g) \in V
  <2> HIDE DEF n
  <2> QED
    BY <1>10, <1>11, <1>12
<1>14. q = <<>> => Shown(g) = g
  BY <1>9, <1>11
<1> QED
  BY <1>13, <1>14 DEF V, late

-----------------------------------------------------------------------------
(* What every step does, field by field.                                   *)

Room == Row(adapter.rooms, Chatroom)

\* Session s has a page that is still there.
Live(s) == sessions[s].page # NoPage /\ pages[sessions[s].page].session = s

LEMMA ConnectionFacts ==
  ASSUME TypeOK, NEW p \in Page, NEW s \in Sid, OnConnection(p, s)
  PROVE  /\ pages[p].session = 0 /\ sessions[s].page = NoPage
         /\ sockets' = sockets \cup {s} /\ usernum' = usernum /\ messages' = messages
         /\ adapter' \in Adapters(Sid, {Chatroom}) /\ Room' = Room \cup {s}
         /\ DOMAIN members' = DOMAIN members \cup {s}
         /\ members' \in [DOMAIN members' -> Member]
         /\ \A x \in DOMAIN members : members'[x] = members[x]
         /\ s \notin DOMAIN members => members'[s] = NewMember
         /\ pages' \in [Page -> PageState]
         /\ \A x \in Page \ {p} : pages'[x] = pages[x]
         /\ pages'[p].session = s /\ pages'[p].online = pages[p].online
         /\ pages'[p].outbox = pages[p].outbox /\ pages'[p].inbox = pages[p].inbox
         /\ pages'[p].name = pages[p].name /\ pages'[p].login = pages[p].login
         /\ pages'[p].told = pages[p].told /\ pages'[p].heard = pages[p].heard
         /\ sessions' \in [Sid -> SessionState]
         /\ \A x \in Sid \ {s} : sessions'[x] = sessions[x]
         /\ sessions'[s].page = p /\ sessions'[s].down = <<Connected(s)>>
         /\ sessions'[s].up = sessions[s].up
<1>1. /\ sessions \in [Sid -> SessionState] /\ pages \in [Page -> PageState]
      /\ members \in [DOMAIN members -> Member]
      /\ adapter \in Adapters(Sid, {Chatroom})
  BY DEF TypeOK
<1>2. adapter' \in Adapters(Sid, {Chatroom}) /\ Room' = Room \cup {s}
  <2>1. adapter' = Added(adapter, s, Chatroom) /\ Chatroom \in {Chatroom}
    BY DEF OnConnection
  <2>2. /\ Added(adapter, s, Chatroom) \in Adapters(Sid, {Chatroom})
        /\ \A x : Row(Added(adapter, s, Chatroom).rooms, x) =
                    IF x = Chatroom THEN Row(adapter.rooms, Chatroom) \cup {s}
                    ELSE Row(adapter.rooms, x)
    BY <1>1, <2>1, AddedRooms
  <2> QED
    BY <2>1, <2>2 DEF Room
<1>3. /\ DOMAIN members' = DOMAIN members \cup {s}
      /\ members' \in [DOMAIN members' -> Member]
      /\ \A x \in DOMAIN members : members'[x] = members[x]
      /\ s \notin DOMAIN members => members'[s] = NewMember
  <2>1. members' = Inserted(members, s, NewMember) /\ NewMember \in Member
    BY DEF OnConnection, NewMember, Member
  <2>2. \A x \in DOMAIN members : members[x] \in Member
    BY <1>1
  <2> QED
    BY <2>1, <2>2 DEF Inserted
<1>4. /\ pages' \in [Page -> PageState]
      /\ \A x \in Page \ {p} : pages'[x] = pages[x]
      /\ pages'[p].session = s /\ pages'[p].online = pages[p].online
      /\ pages'[p].outbox = pages[p].outbox /\ pages'[p].inbox = pages[p].inbox
      /\ pages'[p].name = pages[p].name /\ pages'[p].login = pages[p].login
      /\ pages'[p].told = pages[p].told /\ pages'[p].heard = pages[p].heard
  <2>1. pages' = [pages EXCEPT ![p].session = s]
    BY DEF OnConnection
  <2>2. pages[p] \in PageState
    BY <1>1
  <2>3. [pages[p] EXCEPT !.session = s] \in PageState
    BY <2>2 DEF PageState
  <2>4. \A x \in Page : pages'[x] = IF x = p THEN [pages[p] EXCEPT !.session = s] ELSE pages[x]
    BY <1>1, <2>1
  <2> QED
    BY <1>1, <2>1, <2>2, <2>3, <2>4 DEF PageState
<1>5. /\ sessions' \in [Sid -> SessionState]
      /\ \A x \in Sid \ {s} : sessions'[x] = sessions[x]
      /\ sessions'[s].page = p /\ sessions'[s].down = <<Connected(s)>>
      /\ sessions'[s].up = sessions[s].up
  <2> DEFINE t == [sessions[s] EXCEPT !.page = p, !.down = <<Connected(s)>>]
  <2>1. sessions[s] \in SessionState
    BY <1>1
  <2>2. Connected(s) \in Events
    BY EventTypes
  <2>3. <<Connected(s)>> \in Seq(Events)
    BY <2>2
  <2>4. /\ t \in SessionState /\ t.page = p /\ t.down = <<Connected(s)>>
        /\ t.up = sessions[s].up
    BY <2>1, <2>3 DEF SessionState
  <2>5. sessions' = [sessions EXCEPT ![s] = t]
    BY DEF OnConnection
  <2> HIDE DEF t
  <2> QED
    BY <1>1, <2>4, <2>5
<1> QED
  BY <1>2, <1>3, <1>4, <1>5 DEF OnConnection

\* The server has read the first emit of session s.
LEMMA ReadFacts ==
  ASSUME NEW ss \in [Sid -> SessionState], NEW s \in Sid, ss[s].up # <<>>
  PROVE  LET read == [ss EXCEPT ![s].up = Tail(@)] IN
         /\ read \in [Sid -> SessionState]
         /\ \A x \in Sid :
              /\ read[x].page = ss[x].page /\ read[x].carrier = ss[x].carrier
              /\ read[x].cut = ss[x].cut /\ read[x].down = ss[x].down
              /\ read[x].up = IF x = s THEN Tail(ss[s].up) ELSE ss[x].up
<1> DEFINE t == [ss[s] EXCEPT !.up = Tail(@)]
           read == [ss EXCEPT ![s].up = Tail(@)]
<1>1. ss[s] \in SessionState /\ ss[s].up \in Seq(Emits)
  BY DEF SessionState
<1>2. Tail(ss[s].up) \in Seq(Emits)
  BY <1>1, EndsFacts
<1>3. /\ t \in SessionState /\ t.up = Tail(ss[s].up)
      /\ t.page = ss[s].page /\ t.carrier = ss[s].carrier
      /\ t.cut = ss[s].cut /\ t.down = ss[s].down
  BY <1>1, <1>2 DEF SessionState
<1>4. read = [ss EXCEPT ![s] = t]
  OBVIOUS
<1> HIDE DEF t, read
<1>5. \A x \in Sid : read[x] = IF x = s THEN t ELSE ss[x]
  BY <1>4
<1>6. read \in [Sid -> SessionState]
  BY <1>3, <1>4
<1> QED
  BY <1>3, <1>5, <1>6 DEF read

\* The counter never passes the number of sessions.
LEMMA CountInSids ==
  ASSUME Counted', DOMAIN members' \subseteq Sid
  PROVE  usernum' \in 0..Cardinality(Sid)
<1>1. Users' \subseteq Sid
  BY DEF Users
<1>2. /\ Cardinality(Users') \in Nat /\ Cardinality(Sid) \in Nat
      /\ Cardinality(Users') <= Cardinality(Sid)
  BY <1>1, ChatAssumption, FS_Subset, FS_CardinalityType
<1> QED
  BY <1>2 DEF Counted, UsersCounted

LEMMA NotToItself ==
  ASSUME NEW s
  PROVE  s \notin Others(s) /\ Others(s) \subseteq Room
BY DEF Others, Reached, Room

\* Whoever gives a name.
Joins(s) == s \in DOMAIN members /\ ~members[s].added

LEMMA AddUserFacts ==
  ASSUME TypeOK, Counted', NEW s \in Sid, OnAddUser(s)
  PROVE  /\ UNCHANGED <<adapter, sockets, pages, messages>>
         /\ s \in sockets /\ sessions[s].up # <<>> /\ DOMAIN members' = DOMAIN members
         /\ members' \in [DOMAIN members -> Member]
         /\ \A x \in DOMAIN members \ {s} : members'[x] = members[x]
         /\ Joins(s) => members'[s].added /\ members'[s].name = Head(sessions[s].up).name
         /\ ~Joins(s) => members' = members /\ usernum' = usernum
         /\ Joins(s) => usernum' = usernum + 1
         /\ usernum' \in 0..Cardinality(Sid)
         /\ Head(sessions[s].up).event = "add user"
         /\ sessions' \in [Sid -> SessionState]
         /\ \A x \in Sid :
              /\ sessions'[x].page = sessions[x].page /\ sessions'[x].cut = sessions[x].cut
              /\ sessions'[x].up = IF x = s THEN Tail(sessions[s].up) ELSE sessions[x].up
              /\ Joins(s) /\ x = s /\ Live(x) =>
                   sessions'[x].down =
                     Append(sessions[x].down, Told("login", NoName, usernum', s))
              /\ Joins(s) /\ x \in Others(s) /\ Live(x) =>
                   sessions'[x].down =
                     Append(sessions[x].down, Told("user joined", NoName, usernum', s))
              /\ ~Joins(s) \/ x \notin Others(s) \cup {s} \/ ~Live(x) =>
                   sessions'[x].down = sessions[x].down
<1> DEFINE read == [sessions EXCEPT ![s].up = Tail(@)]
           e1 == Told("login", NoName, usernum + 1, s)
           e2 == Told("user joined", NoName, usernum + 1, s)
           mid == Sent(read, {s}, e1)
<1>1. /\ sessions \in [Sid -> SessionState] /\ DOMAIN members \subseteq Sid
      /\ members \in [DOMAIN members -> Member]
  BY DEF TypeOK
<1>2. /\ sessions[s].up # <<>> /\ Head(sessions[s].up).event = "add user" /\ s \in sockets
      /\ UNCHANGED <<adapter, sockets, pages, messages>>
  BY DEF OnAddUser
<1>3. /\ read \in [Sid -> SessionState]
      /\ \A x \in Sid :
           /\ read[x].page = sessions[x].page /\ read[x].carrier = sessions[x].carrier
           /\ read[x].cut = sessions[x].cut /\ read[x].down = sessions[x].down
           /\ read[x].up = IF x = s THEN Tail(sessions[s].up) ELSE sessions[x].up
  BY <1>1, <1>2, ReadFacts
<1>4. CASE Joins(s)
  <2>1. /\ members' = [members EXCEPT ![s] = Named(Head(sessions[s].up).name)]
        /\ usernum' = usernum + 1
        /\ sessions' = Sent(mid, Others(s), e2)
    BY <1>4, Zenon DEF OnAddUser, Joins, Welcomed
  <2> HIDE DEF read
  <2>2. DOMAIN members' = DOMAIN members
    BY <2>1
  <2>3. usernum' \in 0..Cardinality(Sid)
    BY <1>1, <2>2, CountInSids
  <2>4. e1 \in Events /\ e2 \in Events
    BY <2>1, <2>3, EventTypes
  <2>5. e1 = Told("login", NoName, usernum', s) /\ e2 = Told("user joined", NoName, usernum', s)
    BY <2>1
  <2> HIDE DEF e1, e2
  <2>6. /\ mid \in [Sid -> SessionState]
        /\ \A x \in Sid :
             /\ mid[x].page = read[x].page /\ mid[x].up = read[x].up
             /\ mid[x].cut = read[x].cut
             /\ mid[x].down = IF x \in {s} /\ read[x].page # NoPage
                                 /\ pages[read[x].page].session = x
                              THEN Append(read[x].down, e1) ELSE read[x].down
    BY <1>3, <2>4, SentFacts
  <2> HIDE DEF mid
  <2>7. /\ sessions' \in [Sid -> SessionState]
        /\ \A x \in Sid :
             /\ sessions'[x].page = mid[x].page /\ sessions'[x].up = mid[x].up
             /\ sessions'[x].cut = mid[x].cut
             /\ sessions'[x].down = IF x \in Others(s) /\ mid[x].page # NoPage
                                       /\ pages[mid[x].page].session = x
                                    THEN Append(mid[x].down, e2) ELSE mid[x].down
    BY <2>1, <2>4, <2>6, SentFacts
  <2>8. ASSUME NEW x \in Sid
        PROVE  /\ sessions'[x].page = sessions[x].page /\ sessions'[x].cut = sessions[x].cut
               /\ sessions'[x].up = IF x = s THEN Tail(sessions[s].up) ELSE sessions[x].up
               /\ x = s /\ Live(x) => sessions'[x].down = Append(sessions[x].down, e1)
               /\ x \in Others(s) /\ Live(x) => sessions'[x].down = Append(sessions[x].down, e2)
               /\ x \notin Others(s) \cup {s} \/ ~Live(x) => sessions'[x].down = sessions[x].down
    <3>1. sessions'[x].page = sessions[x].page /\ sessions'[x].cut = sessions[x].cut
      BY <1>3, <2>6, <2>7
    <3>2. sessions'[x].up = IF x = s THEN Tail(sessions[s].up) ELSE sessions[x].up
      BY <1>3, <2>6, <2>7
    <3>3. /\ mid[x].page = sessions[x].page
          /\ mid[x].down = IF x = s /\ Live(x) THEN Append(sessions[x].down, e1)
                           ELSE sessions[x].down
      BY <1>3, <2>6 DEF Live
    <3>4. sessions'[x].down = IF x \in Others(s) /\ Live(x) THEN Append(mid[x].down, e2)
                              ELSE mid[x].down
      BY <2>7, <3>3 DEF Live
    <3> QED
      BY <3>1, <3>2, <3>3, <3>4, NotToItself
  <2>9. Head(sessions[s].up).name \in Name \cup {NoName}
    <3>1. sessions[s].up \in Seq(Emits)
      BY <1>1 DEF SessionState
    <3>2. Head(sessions[s].up) \in Emits
      BY <1>2, <3>1, HeadTailProperties
    <3> QED
      BY <3>2 DEF Emits
  <2>10. /\ members' \in [DOMAIN members -> Member]
         /\ members'[s].added /\ members'[s].name = Head(sessions[s].up).name
         /\ \A x \in DOMAIN members \ {s} : members'[x] = members[x]
    <3>1. Named(Head(sessions[s].up).name) \in Member
      BY <2>9 DEF Named, Member
    <3> QED
      BY <1>1, <1>4, <2>1, <3>1 DEF Joins, Named
  <2> QED
    BY <1>2, <1>4, <2>1, <2>2, <2>3, <2>5, <2>7, <2>8, <2>10
<1>5. CASE ~Joins(s)
  <2>1. sessions' = read /\ members' = members /\ usernum' = usernum
    BY <1>5 DEF OnAddUser, Joins
  <2> HIDE DEF read
  <2>2. usernum' \in 0..Cardinality(Sid)
    BY <2>1 DEF TypeOK
  <2> QED
    BY <1>1, <1>2, <1>3, <1>5, <2>1, <2>2
<1> QED
  BY <1>4, <1>5

LEMMA NewMessageFacts ==
  ASSUME TypeOK, NEW s \in Sid, OnNewMessage(s)
  PROVE  /\ UNCHANGED <<usernum, members, adapter, sockets, pages, messages>>
         /\ s \in sockets /\ sessions[s].up # <<>>
         /\ Head(sessions[s].up).event = "new message"
         /\ sessions' \in [Sid -> SessionState]
         /\ \A x \in Sid :
              /\ sessions'[x].page = sessions[x].page /\ sessions'[x].cut = sessions[x].cut
              /\ sessions'[x].up = IF x = s THEN Tail(sessions[s].up) ELSE sessions[x].up
              /\ \/ sessions'[x].down = sessions[x].down
                 \/ /\ s \in DOMAIN members /\ x \in Others(s) /\ Live(x)
                    /\ sessions'[x].down =
                         Append(sessions[x].down, Told("new message", members[s].name, 0, s))
<1> DEFINE read == [sessions EXCEPT ![s].up = Tail(@)]
           e == Told("new message", members[s].name, 0, s)
<1>1. /\ sessions \in [Sid -> SessionState] /\ members \in [DOMAIN members -> Member]
  BY DEF TypeOK
<1>2. /\ sessions[s].up # <<>> /\ Head(sessions[s].up).event = "new message"
      /\ s \in sockets
      /\ UNCHANGED <<usernum, members, adapter, sockets, pages, messages>>
  BY DEF OnNewMessage
<1>3. /\ read \in [Sid -> SessionState]
      /\ \A x \in Sid :
           /\ read[x].page = sessions[x].page /\ read[x].carrier = sessions[x].carrier
           /\ read[x].cut = sessions[x].cut /\ read[x].down = sessions[x].down
           /\ read[x].up = IF x = s THEN Tail(sessions[s].up) ELSE sessions[x].up
  BY <1>1, <1>2, ReadFacts
<1>4. CASE s \in DOMAIN members
  <2>1. sessions' = Sent(read, Others(s), e)
    BY <1>4 DEF OnNewMessage
  <2> HIDE DEF read
  <2>2. members[s].name \in Name \cup {NoName}
    BY <1>1, <1>4 DEF Member
  <2>3. e \in Events
    BY <2>2, EventTypes
  <2> HIDE DEF e
  <2>4. /\ sessions' \in [Sid -> SessionState]
        /\ \A x \in Sid :
             /\ sessions'[x].page = read[x].page /\ sessions'[x].up = read[x].up
             /\ sessions'[x].cut = read[x].cut
             /\ sessions'[x].down = IF x \in Others(s) /\ read[x].page # NoPage
                                       /\ pages[read[x].page].session = x
                                    THEN Append(read[x].down, e) ELSE read[x].down
    BY <1>3, <2>1, <2>3, SentFacts
  <2>5. ASSUME NEW x \in Sid
        PROVE  /\ sessions'[x].page = sessions[x].page /\ sessions'[x].cut = sessions[x].cut
               /\ sessions'[x].up = IF x = s THEN Tail(sessions[s].up) ELSE sessions[x].up
               /\ sessions'[x].down = IF x \in Others(s) /\ Live(x)
                                      THEN Append(sessions[x].down, e) ELSE sessions[x].down
    BY <1>3, <2>4 DEF Live
  <2>6. ASSUME NEW x \in Sid
        PROVE  \/ sessions'[x].down = sessions[x].down
               \/ /\ x \in Others(s) /\ Live(x)
                  /\ sessions'[x].down = Append(sessions[x].down, e)
    BY <2>5
  <2> QED
    BY <1>2, <1>4, <2>4, <2>5, <2>6 DEF e
<1>5. CASE s \notin DOMAIN members
  <2>1. sessions' = read
    BY <1>5 DEF OnNewMessage
  <2> HIDE DEF read, e
  <2> QED
    BY <1>2, <1>3, <2>1
<1> QED
  BY <1>4, <1>5

LEMMA CloseFacts ==
  ASSUME TypeOK, Counted', NEW s \in Sid, OnClose(s)
  PROVE  /\ UNCHANGED <<adapter, pages, messages>>
         /\ s \in sockets /\ sockets' = sockets \ {s}
         /\ DOMAIN members' \subseteq DOMAIN members
         /\ DOMAIN members \ DOMAIN members' \subseteq {s}
         /\ members' \in [DOMAIN members' -> Member]
         /\ \A x \in DOMAIN members' : members'[x] = members[x]
         /\ usernum' \in 0..Cardinality(Sid)
         /\ ~Leaves(s) => usernum' = usernum
         /\ sessions' \in [Sid -> SessionState]
         /\ \A x \in Sid :
              /\ sessions'[x].page = sessions[x].page /\ sessions'[x].cut = sessions[x].cut
              /\ sessions'[x].up = IF x = s THEN <<>> ELSE sessions[x].up
              /\ Leaves(s) /\ x \in Others(s) /\ Live(x) =>
                   sessions'[x].down =
                     Append(sessions[x].down, Told("user left", NoName, usernum', s))
              /\ ~Leaves(s) \/ x \notin Others(s) \/ ~Live(x) =>
                   sessions'[x].down = sessions[x].down
<1> DEFINE gone == [sessions EXCEPT ![s].up = <<>>]
           e == Told("user left", NoName, LeftCount, s)
<1>1. /\ sessions \in [Sid -> SessionState] /\ DOMAIN members \subseteq Sid
      /\ members \in [DOMAIN members -> Member]
  BY DEF TypeOK
<1>2. /\ s \in sockets /\ sockets' = sockets \ {s}
      /\ UNCHANGED <<adapter, pages, messages>>
  BY DEF OnClose
<1>3. /\ gone \in [Sid -> SessionState]
      /\ \A x \in Sid :
           /\ gone[x].page = sessions[x].page /\ gone[x].carrier = sessions[x].carrier
           /\ gone[x].cut = sessions[x].cut /\ gone[x].down = sessions[x].down
           /\ gone[x].up = IF x = s THEN <<>> ELSE sessions[x].up
  <2> DEFINE t == [sessions[s] EXCEPT !.up = <<>>]
  <2>1. sessions[s] \in SessionState /\ <<>> \in Seq(Emits)
    BY <1>1, EmptySeq
  <2>2. /\ t \in SessionState /\ t.up = <<>>
        /\ t.page = sessions[s].page /\ t.carrier = sessions[s].carrier
        /\ t.cut = sessions[s].cut /\ t.down = sessions[s].down
    BY <2>1 DEF SessionState
  <2>3. gone = [sessions EXCEPT ![s] = t]
    OBVIOUS
  <2> HIDE DEF t, gone
  <2>4. \A x \in Sid : gone[x] = IF x = s THEN t ELSE sessions[x]
    BY <1>1, <2>3
  <2> QED
    BY <1>1, <2>2, <2>3, <2>4
<1>4. CASE Leaves(s)
  <2>1. /\ sessions' = Sent(gone, Others(s), e) /\ usernum' = usernum - 1
        /\ members' = Erased(members, s)
    BY <1>4 DEF OnClose, Without
  <2> HIDE DEF gone
  <2>2. /\ DOMAIN members' = DOMAIN members \ {s}
        /\ \A x \in DOMAIN members' : members'[x] = members[x]
        /\ members' \in [DOMAIN members' -> Member]
    <3>1. \A x \in DOMAIN members : members[x] \in Member
      BY <1>1
    <3> QED
      BY <2>1, <3>1 DEF Erased
  <2>3. usernum' \in 0..Cardinality(Sid)
    BY <1>1, <2>2, CountInSids
  <2>4. e \in Events /\ e = Told("user left", NoName, usernum', s)
    BY <2>1, <2>3, EventTypes DEF LeftCount
  <2> HIDE DEF e
  <2>5. /\ sessions' \in [Sid -> SessionState]
        /\ \A x \in Sid :
             /\ sessions'[x].page = gone[x].page /\ sessions'[x].up = gone[x].up
             /\ sessions'[x].cut = gone[x].cut
             /\ sessions'[x].down = IF x \in Others(s) /\ gone[x].page # NoPage
                                       /\ pages[gone[x].page].session = x
                                    THEN Append(gone[x].down, e) ELSE gone[x].down
    <3>1. gone \in [Sid -> SessionState] /\ e \in Events
      BY <1>3, <2>4
    <3>2. sessions' = Sent(gone, Others(s), e)
      BY <2>1
    <3> QED
      BY <3>1, <3>2, SentFacts
  <2>6. \A x \in Sid :
          /\ sessions'[x].page = sessions[x].page /\ sessions'[x].cut = sessions[x].cut
          /\ sessions'[x].up = IF x = s THEN <<>> ELSE sessions[x].up
          /\ sessions'[x].down = IF x \in Others(s) /\ Live(x)
                                 THEN Append(sessions[x].down, e) ELSE sessions[x].down
    BY <1>3, <2>5 DEF Live
  <2> QED
    BY <1>2, <1>4, <2>2, <2>3, <2>4, <2>5, <2>6
<1>5. CASE ~Leaves(s)
  <2>1. sessions' = gone /\ usernum' = usernum /\ members' = members
    BY <1>5 DEF OnClose
  <2> HIDE DEF gone, e
  <2>2. usernum' \in 0..Cardinality(Sid)
    BY <2>1 DEF TypeOK
  <2> QED
    BY <1>1, <1>2, <1>3, <1>5, <2>1, <2>2
<1> QED
  BY <1>4, <1>5

\* A page and its session belong to each other, and a page that is not online
\* shows nothing new; what a session has for its page goes when the page does,
\* and whatever the server keeps of a session, its page has opened it.
PageLinks(p) ==
  /\ pages[p].session # 0 => sessions[pages[p].session].page = p
  /\ pages[p].online => pages[p].session # 0 /\ pages[p].inbox = <<>>
  /\ pages[p].heard # 0 => pages[p].online /\ pages[p].heard = pages[p].session

SessionLinks(s) ==
  /\ s \in sockets \cup Room \cup DOMAIN members => sessions[s].page # NoPage
  /\ sessions[s].up # <<>> => sessions[s].page # NoPage
  /\ sessions[s].down # <<>> => Live(s)
  /\ s \in sockets => s \in Room

Linked == (\A p \in Page : PageLinks(p)) /\ (\A s \in Sid : SessionLinks(s))

LEMMA EmitFacts ==
  ASSUME TypeOK, NEW p \in Page, PageLinks(p), NEW g \in PageState, NEW e \in Emits,
         g.session = pages[p].session, g.online = pages[p].online, Emit(p, g, e)
  PROVE  /\ pages' \in [Page -> PageState] /\ sessions' \in [Sid -> SessionState]
         /\ \A x \in Page \ {p} : pages'[x] = pages[x]
         /\ pages'[p].session = g.session /\ pages'[p].online = g.online
         /\ pages'[p].inbox = g.inbox /\ pages'[p].name = g.name
         /\ pages'[p].login = g.login /\ pages'[p].told = g.told
         /\ pages'[p].count = g.count /\ pages'[p].heard = g.heard
         /\ pages'[p].outbox = IF g.online THEN g.outbox ELSE Append(g.outbox, e)
         /\ \A x \in Sid :
              /\ sessions'[x].page = sessions[x].page /\ sessions'[x].cut = sessions[x].cut
              /\ sessions'[x].down = sessions[x].down
              /\ sessions'[x].up = IF g.online /\ x = g.session
                                   THEN Append(sessions[x].up, e) ELSE sessions[x].up
<1>1. /\ sessions \in [Sid -> SessionState] /\ pages \in [Page -> PageState]
  BY DEF TypeOK
<1>2. CASE g.online
  <2> DEFINE s == g.session
             t == [sessions[s] EXCEPT !.up = Append(@, e)]
  <2>1. s \in Sid /\ sessions[s] \in SessionState
    BY <1>1, <1>2 DEF PageLinks, PageState
  <2>2. Append(sessions[s].up, e) \in Seq(Emits)
    BY <2>1, AppendProperties DEF SessionState
  <2>3. /\ t \in SessionState /\ t.up = Append(sessions[s].up, e)
        /\ t.page = sessions[s].page /\ t.cut = sessions[s].cut /\ t.down = sessions[s].down
    BY <2>1, <2>2 DEF SessionState
  <2>4. pages' = [pages EXCEPT ![p] = g] /\ sessions' = [sessions EXCEPT ![s] = t]
    BY <1>2 DEF Emit
  <2> HIDE DEF t
  <2>5. /\ sessions' \in [Sid -> SessionState]
        /\ \A x \in Sid : sessions'[x] = IF x = s THEN t ELSE sessions[x]
    BY <1>1, <2>3, <2>4
  <2>6. /\ pages' \in [Page -> PageState]
        /\ \A x \in Page : pages'[x] = IF x = p THEN g ELSE pages[x]
    BY <1>1, <2>4
  <2> QED
    BY <1>2, <2>3, <2>5, <2>6
<1>3. CASE ~g.online
  <2> DEFINE h == [g EXCEPT !.outbox = Append(@, e)]
  <2>1. pages' = [pages EXCEPT ![p] = h] /\ sessions' = sessions
    BY <1>3 DEF Emit
  <2>2. Append(g.outbox, e) \in Seq(Emits)
    BY AppendProperties DEF PageState
  <2>3. /\ h \in PageState /\ h.outbox = Append(g.outbox, e)
        /\ h.session = g.session /\ h.online = g.online /\ h.inbox = g.inbox
        /\ h.name = g.name /\ h.login = g.login /\ h.told = g.told
        /\ h.count = g.count /\ h.heard = g.heard
    BY <2>2 DEF PageState
  <2> HIDE DEF h
  <2>4. /\ pages' \in [Page -> PageState]
        /\ \A x \in Page : pages'[x] = IF x = p THEN h ELSE pages[x]
    BY <1>1, <2>1, <2>3
  <2> QED
    BY <1>1, <1>3, <2>1, <2>3, <2>4
<1> QED
  BY <1>2, <1>3

LEMMA SetUsernameFacts ==
  ASSUME TypeOK, NEW p \in Page, PageLinks(p), SetUsername(p)
  PROVE  /\ UNCHANGED <<usernum, members, adapter, sockets, messages>>
         /\ pages[p].name = NoName
         /\ pages' \in [Page -> PageState] /\ sessions' \in [Sid -> SessionState]
         /\ \A x \in Page \ {p} : pages'[x] = pages[x]
         /\ pages'[p].session = pages[p].session /\ pages'[p].online = pages[p].online
         /\ pages'[p].inbox = pages[p].inbox /\ pages'[p].login = pages[p].login
         /\ pages'[p].count = pages[p].count /\ pages'[p].heard = pages[p].heard
         /\ pages'[p].name = NameOf[p]
         /\ pages'[p].told = IF pages[p].online THEN pages[p].session ELSE 0
         /\ pages'[p].outbox = IF pages[p].online THEN pages[p].outbox
                               ELSE Append(pages[p].outbox, Said("add user", NameOf[p]))
         /\ \A x \in Sid :
              /\ sessions'[x].page = sessions[x].page /\ sessions'[x].cut = sessions[x].cut
              /\ sessions'[x].down = sessions[x].down
              /\ sessions'[x].up = IF pages[p].online /\ x = pages[p].session
                                   THEN Append(sessions[x].up, Said("add user", NameOf[p]))
                                   ELSE sessions[x].up
<1> DEFINE t == IF pages[p].online THEN pages[p].session ELSE 0
           g == [pages[p] EXCEPT !.name = NameOf[p], !.told = t]
           e == Said("add user", NameOf[p])
<1>1. pages[p] \in PageState
  BY DEF TypeOK
<1>2. NameOf[p] \in Name /\ e \in Emits
  BY EmitTypes
<1>3. t \in Sid \cup {0}
  BY <1>1 DEF PageState
<1> HIDE DEF t
<1>4. /\ g \in PageState /\ g.session = pages[p].session /\ g.online = pages[p].online
      /\ g.inbox = pages[p].inbox /\ g.login = pages[p].login
      /\ g.count = pages[p].count /\ g.heard = pages[p].heard
      /\ g.outbox = pages[p].outbox /\ g.name = NameOf[p] /\ g.told = t
  BY <1>1, <1>2, <1>3 DEF PageState
<1>5. /\ pages[p].name = NoName /\ Emit(p, g, e)
      /\ UNCHANGED <<usernum, members, adapter, sockets, messages>>
  BY DEF SetUsername, t
<1> HIDE DEF g, e
<1>6. /\ pages' \in [Page -> PageState] /\ sessions' \in [Sid -> SessionState]
      /\ \A x \in Page \ {p} : pages'[x] = pages[x]
      /\ pages'[p].session = g.session /\ pages'[p].online = g.online
      /\ pages'[p].inbox = g.inbox /\ pages'[p].name = g.name
      /\ pages'[p].login = g.login /\ pages'[p].told = g.told
      /\ pages'[p].count = g.count /\ pages'[p].heard = g.heard
      /\ pages'[p].outbox = IF g.online THEN g.outbox ELSE Append(g.outbox, e)
      /\ \A x \in Sid :
           /\ sessions'[x].page = sessions[x].page /\ sessions'[x].cut = sessions[x].cut
           /\ sessions'[x].down = sessions[x].down
           /\ sessions'[x].up = IF g.online /\ x = g.session
                                THEN Append(sessions[x].up, e) ELSE sessions[x].up
  BY <1>2, <1>4, <1>5, EmitFacts
<1>7. /\ pages'[p].outbox = IF pages[p].online THEN pages[p].outbox
                            ELSE Append(pages[p].outbox, e)
      /\ pages'[p].told = t
      /\ \A x \in Sid : sessions'[x].up = IF pages[p].online /\ x = pages[p].session
                                         THEN Append(sessions[x].up, e) ELSE sessions[x].up
  BY <1>4, <1>6
<1> QED
  BY <1>4, <1>5, <1>6, <1>7 DEF e, t

LEMMA SendMessageFacts ==
  ASSUME TypeOK, NEW p \in Page, PageLinks(p), SendMessage(p)
  PROVE  /\ UNCHANGED <<usernum, members, adapter, sockets>>
         /\ messages' \in 0..MaxMessages /\ pages[p].login
         /\ pages' \in [Page -> PageState] /\ sessions' \in [Sid -> SessionState]
         /\ \A x \in Page \ {p} : pages'[x] = pages[x]
         /\ pages'[p].session = pages[p].session /\ pages'[p].online = pages[p].online
         /\ pages'[p].inbox = pages[p].inbox /\ pages'[p].login = pages[p].login
         /\ pages'[p].count = pages[p].count /\ pages'[p].heard = pages[p].heard
         /\ pages'[p].name = pages[p].name /\ pages'[p].told = pages[p].told
         /\ pages'[p].outbox = IF pages[p].online THEN pages[p].outbox
                               ELSE Append(pages[p].outbox, Said("new message", NoName))
         /\ \A x \in Sid :
              /\ sessions'[x].page = sessions[x].page /\ sessions'[x].cut = sessions[x].cut
              /\ sessions'[x].down = sessions[x].down
              /\ sessions'[x].up = IF pages[p].online /\ x = pages[p].session
                                   THEN Append(sessions[x].up, Said("new message", NoName))
                                   ELSE sessions[x].up
<1>1. pages[p] \in PageState /\ messages \in 0..MaxMessages
  BY DEF TypeOK
<1>2. /\ pages[p].login /\ messages < MaxMessages /\ messages' = messages + 1
      /\ Emit(p, pages[p], Said("new message", NoName))
      /\ UNCHANGED <<usernum, members, adapter, sockets>>
  BY DEF SendMessage
<1>3. messages' \in 0..MaxMessages
  <2>1. MaxMessages \in Nat
    BY ChatAssumption
  <2>2. messages \in 0..MaxMessages /\ messages < MaxMessages /\ messages' = messages + 1
    BY <1>1, <1>2
  <2> QED
    BY <2>1, <2>2
<1>4. Said("new message", NoName) \in Emits
  BY EmitTypes
<1>5. \A e \in Emits : Emit(p, pages[p], e) =>
        /\ pages' \in [Page -> PageState] /\ sessions' \in [Sid -> SessionState]
        /\ \A x \in Page \ {p} : pages'[x] = pages[x]
        /\ pages'[p].session = pages[p].session /\ pages'[p].online = pages[p].online
        /\ pages'[p].inbox = pages[p].inbox /\ pages'[p].login = pages[p].login
        /\ pages'[p].count = pages[p].count /\ pages'[p].heard = pages[p].heard
        /\ pages'[p].name = pages[p].name /\ pages'[p].told = pages[p].told
        /\ pages'[p].outbox = IF pages[p].online THEN pages[p].outbox
                              ELSE Append(pages[p].outbox, e)
        /\ \A x \in Sid :
             /\ sessions'[x].page = sessions[x].page /\ sessions'[x].cut = sessions[x].cut
             /\ sessions'[x].down = sessions[x].down
             /\ sessions'[x].up = IF pages[p].online /\ x = pages[p].session
                                  THEN Append(sessions[x].up, e) ELSE sessions[x].up
  BY <1>1, EmitFacts
<1> QED
  BY <1>2, <1>3, <1>4, <1>5

\* What a page reads of its session, what is left of it, and whether some of it
\* is lost.
Got(s) ==
  IF sessions[s].carrier = "polling" THEN Last(sessions[s].down) ELSE Head(sessions[s].down)
Rest(s) == IF sessions[s].carrier = "polling" THEN <<>> ELSE Tail(sessions[s].down)
Loses(s) == sessions[s].carrier = "polling" /\ Len(sessions[s].down) > 1
Reading(s) ==
  [sessions EXCEPT ![s].down = Rest(s), ![s].cut = sessions[s].cut \/ Loses(s)]

LEMMA ReadingFacts ==
  ASSUME TypeOK, NEW s \in Sid, sessions[s].down # <<>>
  PROVE  /\ Got(s) \in Events /\ Got(s) \in ToSet(sessions[s].down)
         /\ Rest(s) \in Seq(Events) /\ ToSet(Rest(s)) \subseteq ToSet(sessions[s].down)
         /\ Reading(s) \in [Sid -> SessionState]
         /\ \A x \in Sid \ {s} : Reading(s)[x] = sessions[x]
         /\ Reading(s)[s].page = sessions[s].page /\ Reading(s)[s].up = sessions[s].up
         /\ Reading(s)[s].down = Rest(s)
         /\ ~Reading(s)[s].cut => ~sessions[s].cut /\ ~Loses(s)
<1> DEFINE q == sessions[s].down
           c == sessions[s].cut \/ Loses(s)
           t == [sessions[s] EXCEPT !.down = Rest(s), !.cut = c]
<1>1. sessions \in [Sid -> SessionState] /\ sessions[s] \in SessionState
  BY DEF TypeOK
<1>2. q \in Seq(Events)
  BY <1>1 DEF SessionState
<1>3. /\ Got(s) \in ToSet(q) /\ Rest(s) \in Seq(Events)
      /\ ToSet(Rest(s)) \subseteq ToSet(q)
  <2>1. /\ Head(q) \in ToSet(q) /\ Last(q) \in ToSet(q)
        /\ Tail(q) \in Seq(Events) /\ ToSet(Tail(q)) \subseteq ToSet(q)
    BY <1>2, EndsFacts
  <2>2. ToSet(<<>>) = {} /\ <<>> \in Seq(Events)
    BY EmptySeq DEF ToSet
  <2> QED
    BY <2>1, <2>2 DEF Got, Rest
<1>4. Got(s) \in Events
  BY <1>2, <1>3, ToSetFacts
<1>5. c \in BOOLEAN
  OBVIOUS
<1>6. ~c => ~sessions[s].cut /\ ~Loses(s)
  OBVIOUS
<1> HIDE DEF c
<1>7. /\ t \in SessionState /\ t.page = sessions[s].page /\ t.up = sessions[s].up
      /\ t.down = Rest(s) /\ t.cut = c
  BY <1>1, <1>3, <1>5 DEF SessionState
<1>8. Reading(s) = [sessions EXCEPT ![s] = t]
  BY DEF Reading, c
<1> HIDE DEF t
<1>9. /\ Reading(s) \in [Sid -> SessionState]
      /\ \A x \in Sid : Reading(s)[x] = IF x = s THEN t ELSE sessions[x]
  BY <1>1, <1>7, <1>8
<1> QED
  BY <1>3, <1>4, <1>6, <1>7, <1>9

LEMMA HearIs ==
  ASSUME NEW p \in Page, Hear(p)
  PROVE  LET s == pages[p].session IN
         /\ s # 0 /\ sessions[s].down # <<>>
         /\ UNCHANGED <<usernum, members, adapter, sockets, messages>>
         /\ IF Got(s).event = "connect" THEN GoesOnline(p, Reading(s))
            ELSE /\ pages' = [pages EXCEPT ![p] = OnEvent(@, Got(s))]
                 /\ sessions' = Reading(s)
BY DEF Hear, Got, Rest, Loses, Reading

LEMMA ConnectedFacts ==
  ASSUME TypeOK, NEW p \in Page, Hear(p), Got(pages[p].session).event = "connect"
  PROVE  LET s == pages[p].session IN
         /\ pages' \in [Page -> PageState] /\ sessions' \in [Sid -> SessionState]
         /\ \A x \in Page \ {p} : pages'[x] = pages[x]
         /\ pages'[p].session = s /\ pages'[p].online
         /\ pages'[p].outbox = <<>> /\ pages'[p].inbox = <<>>
         /\ pages'[p].name = pages[p].name /\ pages'[p].heard = pages[p].heard
         /\ pages'[p].told = IF \E e \in ToSet(pages[p].outbox) : e.event = "add user"
                             THEN s ELSE pages[p].told
         /\ pages'[p].login =>
              pages[p].login \/ \E e \in ToSet(pages[p].inbox) : e.event = "login"
         /\ pages[p].inbox = <<>> => pages'[p].count = pages[p].count
         /\ \A x \in Sid \ {s} : sessions'[x] = sessions[x]
         /\ sessions'[s].page = sessions[s].page /\ sessions'[s].down = Rest(s)
         /\ sessions'[s].up = sessions[s].up \o pages[p].outbox
         /\ ~sessions'[s].cut => ~sessions[s].cut /\ ~Loses(s)
<1> DEFINE s == pages[p].session
           ss == Reading(s)
           f == Shown(pages[p])
           g == [f EXCEPT !.online = TRUE, !.inbox = <<>>, !.outbox = <<>>]
           named == \E e \in ToSet(pages[p].outbox) : e.event = "add user"
           h == IF named THEN [g EXCEPT !.told = s] ELSE g
           t == [ss[s] EXCEPT !.up = @ \o pages[p].outbox]
<1>1. /\ pages \in [Page -> PageState] /\ pages[p] \in PageState
      /\ sessions \in [Sid -> SessionState]
  BY DEF TypeOK
<1>2. /\ s # 0 /\ sessions[s].down # <<>> /\ GoesOnline(p, ss)
  BY HearIs
<1>3. s \in Sid
  BY <1>1, <1>2 DEF PageState
<1>4. /\ ss \in [Sid -> SessionState] /\ Rest(s) \in Seq(Events)
      /\ \A x \in Sid \ {s} : ss[x] = sessions[x]
      /\ ss[s].page = sessions[s].page /\ ss[s].up = sessions[s].up
      /\ ss[s].down = Rest(s)
      /\ ~ss[s].cut => ~sessions[s].cut /\ ~Loses(s)
  BY <1>2, <1>3, ReadingFacts
<1>5. /\ f \in PageState /\ f.session = s /\ f.heard = pages[p].heard
      /\ f.name = pages[p].name /\ f.told = pages[p].told
      /\ f.login => pages[p].login \/ \E e \in ToSet(pages[p].inbox) : e.event = "login"
      /\ pages[p].inbox = <<>> => f.count = pages[p].count
  BY <1>1, ShownFacts
<1>6. pages' = [pages EXCEPT ![p] = h]
  <2>1. pages' = [pages EXCEPT ![p] = IF named THEN [g EXCEPT !.told = g.session] ELSE g]
    BY <1>2, Zenon DEF GoesOnline
  <2>2. g.session = s
    BY <1>5 DEF PageState
  <2> QED
    BY <2>1, <2>2
<1>7. sessions' = [ss EXCEPT ![s] = t]
  <2>1. g.session = s
    BY <1>5 DEF PageState
  <2>2. sessions' = [ss EXCEPT ![g.session].up = @ \o Buffered(pages[p])]
    BY <1>2, Zenon DEF GoesOnline
  <2> HIDE DEF g, ss
  <2> QED
    BY <2>1, <2>2 DEF Buffered
<1> HIDE DEF f, ss
<1>8. /\ g \in PageState /\ g.session = s /\ g.online /\ g.outbox = <<>> /\ g.inbox = <<>>
      /\ g.name = f.name /\ g.heard = f.heard /\ g.told = f.told
      /\ g.login = f.login /\ g.count = f.count
  <2>1. <<>> \in Seq(Emits) /\ <<>> \in Seq(Events)
    BY EmptySeq
  <2> QED
    BY <1>5, <2>1 DEF PageState
<1> HIDE DEF g, named
<1>9. /\ h \in PageState /\ h.session = s /\ h.online /\ h.outbox = <<>> /\ h.inbox = <<>>
      /\ h.name = f.name /\ h.heard = f.heard
      /\ h.told = IF named THEN s ELSE f.told
      /\ h.login = f.login /\ h.count = f.count
  <2>1. CASE named
    BY <1>3, <1>8, <2>1 DEF PageState
  <2>2. CASE ~named
    BY <1>8, <2>2
  <2> QED
    BY <2>1, <2>2
<1>10. /\ t \in SessionState /\ t.up = sessions[s].up \o pages[p].outbox
       /\ t.page = sessions[s].page /\ t.down = Rest(s) /\ t.cut = ss[s].cut
  <2>1. ss[s] \in SessionState /\ pages[p].outbox \in Seq(Emits)
    BY <1>1, <1>3, <1>4 DEF PageState
  <2>2. ss[s].up \o pages[p].outbox \in Seq(Emits)
    BY <2>1, ConcatProperties DEF SessionState
  <2> QED
    BY <1>4, <2>1, <2>2 DEF SessionState
<1> HIDE DEF h, t
<1>11. /\ pages' \in [Page -> PageState]
       /\ \A x \in Page : pages'[x] = IF x = p THEN h ELSE pages[x]
  BY <1>1, <1>6, <1>9
<1>12. /\ sessions' \in [Sid -> SessionState]
       /\ \A x \in Sid : sessions'[x] = IF x = s THEN t ELSE ss[x]
  BY <1>4, <1>7, <1>10
<1>13. /\ \A x \in Sid \ {s} : sessions'[x] = sessions[x]
       /\ sessions'[s].page = sessions[s].page /\ sessions'[s].down = Rest(s)
       /\ sessions'[s].up = sessions[s].up \o pages[p].outbox
       /\ ~sessions'[s].cut => ~sessions[s].cut /\ ~Loses(s)
  BY <1>3, <1>4, <1>10, <1>12
<1>14. /\ \A x \in Page \ {p} : pages'[x] = pages[x]
       /\ pages'[p] = h
  BY <1>11
<1> QED
  BY <1>5, <1>9, <1>11, <1>12, <1>13, <1>14 DEF named

LEMMA EventFacts ==
  ASSUME TypeOK, NEW p \in Page, Hear(p), Got(pages[p].session).event # "connect"
  PROVE  LET s == pages[p].session
             g == pages[p]
             h == pages'[p]
             e == Got(s) IN
         /\ pages' \in [Page -> PageState] /\ sessions' = Reading(s)
         /\ \A x \in Page \ {p} : pages'[x] = pages[x]
         /\ h.session = s /\ h.online = g.online /\ h.outbox = g.outbox
         /\ h.name = g.name /\ h.told = g.told
         /\ h.inbox = IF g.online THEN g.inbox ELSE Append(g.inbox, e)
         /\ h.login => g.login \/ (g.online /\ e.event = "login")
         /\ g.login => h.login
         /\ h.count = IF g.online /\ e.event \in {"login", "user joined", "user left"}
                      THEN e.count ELSE g.count
         /\ h.heard = IF g.online /\ e.event # "new message" THEN s ELSE g.heard
<1> DEFINE g == pages[p]
           s == g.session
           e == Got(s)
           h == OnEvent(g, e)
<1>1. /\ pages \in [Page -> PageState] /\ g \in PageState
      /\ sessions \in [Sid -> SessionState]
  BY DEF TypeOK
<1>2. /\ s # 0 /\ sessions[s].down # <<>> /\ sessions' = Reading(s)
      /\ pages' = [pages EXCEPT ![p] = h]
  BY HearIs
<1>3. s \in Sid
  BY <1>1, <1>2 DEF PageState
<1>4. e \in Events
  BY <1>2, <1>3, ReadingFacts
<1> HIDE DEF e
<1>5. /\ h \in PageState
      /\ h.session = s /\ h.online = g.online /\ h.outbox = g.outbox
      /\ h.name = g.name /\ h.told = g.told
      /\ h.inbox = IF g.online THEN g.inbox ELSE Append(g.inbox, e)
      /\ h.login => g.login \/ (g.online /\ e.event = "login")
      /\ g.login => h.login
      /\ h.count = IF g.online /\ e.event \in {"login", "user joined", "user left"}
                   THEN e.count ELSE g.count
      /\ h.heard = IF g.online /\ e.event # "new message" THEN s ELSE g.heard
  <2>1. CASE g.online
    <3> DEFINE f == Shows(g, e)
               w == IF e.event = "new message" THEN f.heard ELSE s
    <3>1. /\ f \in PageState
          /\ f.session = g.session /\ f.online = g.online
          /\ f.outbox = g.outbox /\ f.inbox = g.inbox
          /\ f.name = g.name /\ f.told = g.told
          /\ f.heard = g.heard
          /\ f.login => g.login \/ e.event = "login"
          /\ g.login => f.login
          /\ f.count = IF e.event \in {"login", "user joined", "user left"}
                       THEN e.count ELSE g.count
      BY <1>1, <1>4, ShowsFacts
    <3>2. h = [f EXCEPT !.heard = w]
      BY <2>1 DEF OnEvent
    <3> HIDE DEF f
    <3>3. w \in Sid \cup {0}
      BY <1>3, <3>1 DEF PageState
    <3>4. w = IF e.event # "new message" THEN s ELSE g.heard
      BY <3>1
    <3> HIDE DEF w, h
    <3>5. /\ h \in PageState
          /\ h.session = f.session /\ h.online = f.online /\ h.outbox = f.outbox
          /\ h.inbox = f.inbox /\ h.name = f.name /\ h.told = f.told
          /\ h.login = f.login /\ h.count = f.count /\ h.heard = w
      BY <3>1, <3>2, <3>3 DEF PageState
    <3> QED
      BY <2>1, <3>1, <3>4, <3>5
  <2>2. CASE ~g.online
    <3>1. h = [g EXCEPT !.inbox = Append(@, e)]
      BY <2>2 DEF OnEvent
    <3>2. Append(g.inbox, e) \in Seq(Events)
      BY <1>1, <1>4, AppendProperties DEF PageState
    <3> HIDE DEF h
    <3> QED
      BY <1>1, <2>2, <3>1, <3>2 DEF PageState
  <2> QED
    BY <2>1, <2>2
<1> HIDE DEF h
<1>6. /\ pages' \in [Page -> PageState]
      /\ \A x \in Page : pages'[x] = IF x = p THEN h ELSE pages[x]
  BY <1>1, <1>2, <1>5
<1>7. pages'[p] = h
  BY <1>6
<1> QED
  BY <1>2, <1>5, <1>6, <1>7 DEF e

LEMMA UpgradeFacts ==
  ASSUME TypeOK, NEW p \in Page, Upgrade(p)
  PROVE  /\ UNCHANGED <<usernum, members, adapter, sockets, pages, messages>>
         /\ sessions' \in [Sid -> SessionState]
         /\ \A x \in Sid :
              /\ sessions'[x].page = sessions[x].page /\ sessions'[x].cut = sessions[x].cut
              /\ sessions'[x].up = sessions[x].up /\ sessions'[x].down = sessions[x].down
<1> DEFINE s == pages[p].session
           t == [sessions[s] EXCEPT !.carrier = "websocket"]
<1>1. sessions \in [Sid -> SessionState] /\ sockets \subseteq Sid
  BY DEF TypeOK
<1>2. /\ s \in Sid /\ sessions' = [sessions EXCEPT ![s] = t]
      /\ UNCHANGED <<usernum, members, adapter, sockets, pages, messages>>
  BY <1>1 DEF Upgrade
<1>3. sessions[s] \in SessionState
  BY <1>1, <1>2
<1>4. /\ t \in SessionState /\ t.page = sessions[s].page /\ t.cut = sessions[s].cut
      /\ t.up = sessions[s].up /\ t.down = sessions[s].down
  BY <1>3 DEF SessionState
<1> HIDE DEF t
<1>5. \A x \in Sid : sessions'[x] = IF x = s THEN t ELSE sessions[x]
  BY <1>1, <1>2
<1>6. sessions' \in [Sid -> SessionState]
  BY <1>1, <1>2, <1>4
<1> QED
  BY <1>2, <1>4, <1>5, <1>6

LEMMA LoseFacts ==
  ASSUME TypeOK, NEW p \in Page, Lose(p)
  PROVE  LET s == pages[p].session IN
         /\ UNCHANGED <<usernum, members, adapter, sockets, messages>> /\ s \in Sid
         /\ pages' \in [Page -> PageState] /\ sessions' \in [Sid -> SessionState]
         /\ \A x \in Page \ {p} : pages'[x] = pages[x]
         /\ pages'[p].session = 0 /\ ~pages'[p].online /\ pages'[p].heard = 0
         /\ pages'[p].outbox = pages[p].outbox /\ pages'[p].inbox = pages[p].inbox
         /\ pages'[p].name = pages[p].name /\ pages'[p].told = pages[p].told
         /\ pages'[p].login = pages[p].login
         /\ \A x \in Sid \ {s} : sessions'[x] = sessions[x]
         /\ sessions'[s].page = sessions[s].page /\ sessions'[s].up = sessions[s].up
         /\ sessions'[s].down = <<>>
<1> DEFINE s == pages[p].session
           g == [pages[p] EXCEPT !.session = 0, !.online = FALSE, !.heard = 0]
           t == [sessions[s] EXCEPT !.down = <<>>, !.cut = FALSE]
<1>1. /\ sessions \in [Sid -> SessionState] /\ pages \in [Page -> PageState]
      /\ pages[p] \in PageState
  BY DEF TypeOK
<1>2. /\ s # 0 /\ pages' = [pages EXCEPT ![p] = g] /\ sessions' = [sessions EXCEPT ![s] = t]
      /\ UNCHANGED <<usernum, members, adapter, sockets, messages>>
  BY DEF Lose
<1>3. s \in Sid /\ sessions[s] \in SessionState /\ <<>> \in Seq(Events)
  BY <1>1, <1>2, EmptySeq DEF PageState
<1>4. /\ t \in SessionState /\ t.page = sessions[s].page /\ t.up = sessions[s].up
      /\ t.down = <<>>
  BY <1>3 DEF SessionState
<1>5. /\ g \in PageState /\ g.session = 0 /\ ~g.online /\ g.heard = 0
      /\ g.outbox = pages[p].outbox /\ g.inbox = pages[p].inbox
      /\ g.name = pages[p].name /\ g.told = pages[p].told /\ g.login = pages[p].login
  BY <1>1 DEF PageState
<1> HIDE DEF g, t
<1>6. /\ sessions' \in [Sid -> SessionState]
      /\ \A x \in Sid : sessions'[x] = IF x = s THEN t ELSE sessions[x]
  BY <1>1, <1>2, <1>4
<1>7. /\ pages' \in [Page -> PageState]
      /\ \A x \in Page : pages'[x] = IF x = p THEN g ELSE pages[x]
  BY <1>1, <1>2, <1>5
<1>8. pages'[p] = g /\ sessions'[s] = t
  BY <1>3, <1>6, <1>7
<1> QED
  BY <1>2, <1>3, <1>4, <1>5, <1>6, <1>7, <1>8

-----------------------------------------------------------------------------
(* The state has its type, and sockets, sessions and pages belong together.*)

Typed == TypeOK /\ Linked

LEMMA InitTyped == Init => Typed
<1> SUFFICES ASSUME Init PROVE Typed
  OBVIOUS
<1>1. /\ \A s \in Sid : sessions[s] = NewSession
      /\ \A p \in Page : pages[p] = NewPage
      /\ sockets = {} /\ members = NoKeys /\ DOMAIN members = {} /\ adapter = NewAdapter
      /\ usernum = 0 /\ messages = 0
  BY NoKeysEmpty DEF Init
<1>2. adapter \in Adapters(Sid, {Chatroom}) /\ Room = {}
  BY <1>1, NewAdapterTyped DEF Room
<1>3. NewSession \in SessionState /\ NewPage \in PageState
  <2>1. 0 \in 0..Cardinality(Sid)
    BY ChatAssumption, FS_CardinalityType
  <2>2. <<>> \in Seq(Emits) /\ <<>> \in Seq(Events)
    BY EmptySeq
  <2> QED
    BY <2>1, <2>2 DEF NewSession, NewPage, SessionState, PageState
<1>4. TypeOK
  <2>1. 0 \in 0..Cardinality(Sid) /\ 0 \in 0..MaxMessages
    BY ChatAssumption, FS_CardinalityType
  <2>2. members \in [DOMAIN members -> Member]
    BY <1>1 DEF NoKeys
  <2>3. sessions \in [Sid -> SessionState] /\ pages \in [Page -> PageState]
    BY <1>3 DEF Init
  <2> QED
    BY <1>1, <1>2, <2>1, <2>2, <2>3 DEF TypeOK
<1>5. Linked
  <2>1. \A p \in Page : PageLinks(p)
    <3>1. /\ NewPage.session = 0 /\ NewPage.online = FALSE /\ NewPage.heard = 0
      BY DEF NewPage
    <3> QED
      BY <1>1, <3>1 DEF PageLinks
  <2>2. \A s \in Sid : SessionLinks(s)
    BY <1>1, <1>2 DEF SessionLinks, NewSession
  <2> QED
    BY <2>1, <2>2 DEF Linked
<1> QED
  BY <1>4, <1>5 DEF Typed

\* A step of the server adds to queues of sessions that are live.
LEMMA ServerLinked ==
  ASSUME Typed, UNCHANGED <<adapter, pages>>,
         sockets' \subseteq sockets, DOMAIN members' \subseteq DOMAIN members,
         \A x \in Sid :
           /\ sessions'[x].page = sessions[x].page
           /\ sessions[x].up = <<>> => sessions'[x].up = <<>>
           /\ sessions'[x].down = sessions[x].down \/ Live(x)
  PROVE  Linked'
<1>1. ASSUME NEW p \in Page PROVE PageLinks(p)'
  <2>1. PageLinks(p) /\ pages[p] \in PageState /\ pages' = pages
    BY DEF Typed, Linked, TypeOK
  <2>2. pages[p].session # 0 => sessions'[pages[p].session].page = p
    BY <2>1 DEF PageLinks, PageState
  <2> QED
    BY <2>1, <2>2 DEF PageLinks
<1>2. ASSUME NEW x \in Sid PROVE SessionLinks(x)'
  <2>1. SessionLinks(x) /\ Room' = Room
    BY DEF Typed, Linked, Room
  <2>2. Live(x)' <=> Live(x)
    BY DEF Live
  <2> QED
    BY <2>1, <2>2 DEF SessionLinks
<1> QED
  BY <1>1, <1>2 DEF Linked

LEMMA ServerTyped ==
  ASSUME Typed, Counted', NEW s \in Sid, OnEventPacket(s) \/ OnClose(s)
  PROVE  Typed'
<1>2. CASE OnAddUser(s)
  <2>1. TypeOK'
    BY <1>2, AddUserFacts DEF TypeOK, Typed
  <2>2. Linked'
    BY <1>2, AddUserFacts, ServerLinked DEF Typed
  <2> QED
    BY <2>1, <2>2 DEF Typed
<1>3. CASE OnNewMessage(s)
  <2>1. TypeOK'
    BY <1>3, NewMessageFacts DEF TypeOK, Typed
  <2>2. Linked'
    BY <1>3, NewMessageFacts, ServerLinked DEF Typed
  <2> QED
    BY <2>1, <2>2 DEF Typed
<1>4. CASE OnClose(s)
  <2>1. TypeOK'
    BY <1>4, CloseFacts DEF TypeOK, Typed
  <2>2. Linked'
    BY <1>4, CloseFacts, ServerLinked DEF Typed
  <2> QED
    BY <2>1, <2>2 DEF Typed
<1> QED
  BY <1>2, <1>3, <1>4 DEF OnEventPacket

\* What p has of a session goes with its own steps only.
LEMMA ConnectionTyped ==
  ASSUME Typed, NEW p \in Page, NEW s \in Sid, OnConnection(p, s)
  PROVE  Typed'
<1>1. TypeOK /\ Linked /\ sessions \in [Sid -> SessionState] /\ pages \in [Page -> PageState]
  BY DEF Typed, TypeOK
<1>2. /\ pages[p].session = 0 /\ sessions[s].page = NoPage
      /\ sockets' = sockets \cup {s} /\ usernum' = usernum /\ messages' = messages
      /\ adapter' \in Adapters(Sid, {Chatroom}) /\ Room' = Room \cup {s}
      /\ DOMAIN members' = DOMAIN members \cup {s}
      /\ members' \in [DOMAIN members' -> Member]
      /\ pages' \in [Page -> PageState]
      /\ \A x \in Page \ {p} : pages'[x] = pages[x]
      /\ pages'[p].session = s /\ pages'[p].online = pages[p].online
      /\ pages'[p].inbox = pages[p].inbox /\ pages'[p].heard = pages[p].heard
      /\ sessions' \in [Sid -> SessionState]
      /\ \A x \in Sid \ {s} : sessions'[x] = sessions[x]
      /\ sessions'[s].page = p
  BY <1>1, ConnectionFacts, ZenonT(30)
<1>3. TypeOK'
  BY <1>1, <1>2 DEF TypeOK
<1>4. p # NoPage
  BY ChatAssumption
<1>5. ASSUME NEW x \in Page PROVE PageLinks(x)'
  <2>1. PageLinks(x) /\ pages[x] \in PageState
    BY <1>1 DEF Linked
  <2>2. CASE x = p
    <3>1. ~pages[p].online
      BY <1>2, <2>1, <2>2 DEF PageLinks
    <3> QED
      BY <1>2, <2>1, <2>2, <3>1 DEF PageLinks
  <2>3. CASE x # p
    <3>1. pages'[x] = pages[x]
      BY <1>2, <2>3
    <3>2. pages[x].session # 0 => pages[x].session \in Sid \ {s}
      BY <1>2, <1>4, <2>1, ChatAssumption DEF PageLinks, PageState
    <3> QED
      BY <1>2, <2>1, <3>1, <3>2 DEF PageLinks
  <2> QED
    BY <2>2, <2>3
<1>6. ASSUME NEW x \in Sid PROVE SessionLinks(x)'
  <2>1. SessionLinks(x)
    BY <1>1 DEF Linked
  <2>2. CASE x = s
    BY <1>2, <1>4, <2>2 DEF SessionLinks, Live
  <2>3. CASE x # s
    <3>1. sessions'[x] = sessions[x]
      BY <1>2, <2>3
    <3>2. Live(x) => Live(x)'
      <4> SUFFICES ASSUME Live(x) PROVE Live(x)'
        OBVIOUS
      <4>1. sessions[x].page \in Page
        BY <1>1 DEF Live, SessionState
      <4>2. sessions[x].page # p
        BY <1>2, ChatAssumption DEF Live
      <4> QED
        BY <1>2, <3>1, <4>1, <4>2 DEF Live
    <3> QED
      BY <1>2, <2>1, <2>3, <3>1, <3>2 DEF SessionLinks
  <2> QED
    BY <2>2, <2>3
<1> QED
  BY <1>3, <1>5, <1>6 DEF Typed, Linked

\* A step of one page: its session keeps its page, and what it has for it, while
\* it is that of the page.
LEMMA PageLinked ==
  ASSUME Typed, UNCHANGED <<members, adapter, sockets>>, NEW p \in Page,
         \A x \in Page \ {p} : pages'[x] = pages[x],
         \A x \in Sid : sessions'[x].page = sessions[x].page,
         \A x \in Sid : sessions[x].page = NoPage => sessions'[x].up = <<>>,
         pages'[p].session \in {0, pages[p].session},
         \A x \in Sid : sessions[x].down = <<>> => sessions'[x].down = <<>>,
         pages'[p].session # pages[p].session => sessions'[pages[p].session].down = <<>>,
         pages'[p].online => pages'[p].session # 0 /\ pages'[p].inbox = <<>>,
         pages'[p].heard # 0 => pages'[p].online /\ pages'[p].heard = pages'[p].session
  PROVE  Linked'
<1>1. /\ sessions \in [Sid -> SessionState] /\ pages \in [Page -> PageState]
      /\ \A x \in Page : PageLinks(x)
  BY DEF Typed, TypeOK, Linked
<1>2. ASSUME NEW x \in Page PROVE PageLinks(x)'
  <2>1. PageLinks(x) /\ pages[x] \in PageState
    BY <1>1
  <2>2. pages'[x].session \in {0, pages[x].session}
    BY <2>1
  <2>3. pages'[x].session # 0 => sessions'[pages'[x].session].page = x
    BY <2>1, <2>2 DEF PageLinks, PageState
  <2>4. CASE x = p
    BY <2>3, <2>4 DEF PageLinks
  <2>5. CASE x # p
    BY <2>1, <2>3, <2>5 DEF PageLinks
  <2> QED
    BY <2>4, <2>5
<1>3. ASSUME NEW x \in Sid PROVE SessionLinks(x)'
  <2>1. SessionLinks(x) /\ Room' = Room
    BY DEF Typed, Linked, Room
  <2>2. sessions'[x].down # <<>> => Live(x)'
    <3> SUFFICES ASSUME sessions'[x].down # <<>> PROVE Live(x)'
      OBVIOUS
    <3>1. Live(x)
      BY <2>1 DEF SessionLinks
    <3>2. sessions[x].page \in Page
      BY <1>1, <3>1 DEF Live, SessionState
    <3>3. CASE sessions[x].page # p
      BY <3>1, <3>2, <3>3 DEF Live
    <3>4. CASE sessions[x].page = p
      <4>1. pages[p].session = x
        BY <3>1, <3>4 DEF Live
      <4>2. pages'[p].session = x
        BY <4>1
      <4> QED
        BY <3>1, <3>4, <4>2 DEF Live
    <3> QED
      BY <3>3, <3>4
  <2> QED
    BY <2>1, <2>2 DEF SessionLinks
<1> QED
  BY <1>2, <1>3 DEF Linked

LEMMA PageTyped ==
  ASSUME Typed, PageStep
  PROVE  Typed'
<1>1. /\ TypeOK /\ \A x \in Page : PageLinks(x)
      /\ \A x \in Sid : SessionLinks(x)
  BY DEF Typed, Linked
<1>2. \A x \in Sid : sessions[x].page = NoPage => sessions[x].up = <<>>
  BY <1>1 DEF SessionLinks
<1>3. \A x \in Page : pages[x].session # 0 => sessions[pages[x].session].page = x
  BY <1>1 DEF PageLinks
<1>4. NoPage \notin Page
  BY ChatAssumption
<1>5. PICK p \in Page :
        SetUsername(p) \/ SendMessage(p) \/ Hear(p) \/ Upgrade(p) \/ Lose(p)
  BY DEF PageStep
<1>6. PageLinks(p) /\ pages[p] \in PageState
  BY <1>1 DEF TypeOK
<1>7. CASE SetUsername(p)
  <2>1. TypeOK'
    BY <1>1, <1>6, <1>7, SetUsernameFacts, ZenonT(30) DEF TypeOK
  <2>2. /\ UNCHANGED <<members, adapter, sockets>>
        /\ \A x \in Page \ {p} : pages'[x] = pages[x]
        /\ pages'[p].session = pages[p].session /\ pages'[p].online = pages[p].online
        /\ pages'[p].inbox = pages[p].inbox /\ pages'[p].heard = pages[p].heard
        /\ \A x \in Sid :
             /\ sessions'[x].page = sessions[x].page /\ sessions'[x].down = sessions[x].down
             /\ (pages[p].online /\ x = pages[p].session) \/ sessions'[x].up = sessions[x].up
    <3>1. \A x \in Sid : sessions'[x].up = IF pages[p].online /\ x = pages[p].session
                                         THEN Append(sessions[x].up, Said("add user", NameOf[p]))
                                         ELSE sessions[x].up
      BY <1>1, <1>6, <1>7, SetUsernameFacts, ZenonT(30)
    <3>2. /\ UNCHANGED <<members, adapter, sockets>>
          /\ \A x \in Page \ {p} : pages'[x] = pages[x]
          /\ pages'[p].session = pages[p].session /\ pages'[p].online = pages[p].online
          /\ pages'[p].inbox = pages[p].inbox /\ pages'[p].heard = pages[p].heard
          /\ \A x \in Sid :
               sessions'[x].page = sessions[x].page /\ sessions'[x].down = sessions[x].down
      BY <1>1, <1>6, <1>7, SetUsernameFacts
    <3> QED
      BY <3>1, <3>2
  <2>3. \A x \in Sid : sessions[x].page = NoPage => sessions'[x].up = <<>>
    BY <1>2, <1>3, <1>4, <1>6, <2>2 DEF PageLinks
  <2>4. /\ pages'[p].online => pages'[p].session # 0 /\ pages'[p].inbox = <<>>
        /\ pages'[p].heard # 0 => pages'[p].online /\ pages'[p].heard = pages'[p].session
    BY <1>6, <2>2 DEF PageLinks
  <2>5. Linked'
    BY <2>2, <2>3, <2>4, PageLinked
  <2> QED
    BY <2>1, <2>5 DEF Typed
<1>8. CASE SendMessage(p)
  <2>1. TypeOK'
    BY <1>1, <1>6, <1>8, SendMessageFacts DEF TypeOK
  <2>2. /\ UNCHANGED <<members, adapter, sockets>>
        /\ \A x \in Page \ {p} : pages'[x] = pages[x]
        /\ pages'[p].session = pages[p].session /\ pages'[p].online = pages[p].online
        /\ pages'[p].inbox = pages[p].inbox /\ pages'[p].heard = pages[p].heard
        /\ \A x \in Sid :
             /\ sessions'[x].page = sessions[x].page /\ sessions'[x].down = sessions[x].down
             /\ (pages[p].online /\ x = pages[p].session) \/ sessions'[x].up = sessions[x].up
    BY <1>1, <1>6, <1>8, SendMessageFacts
  <2>3. \A x \in Sid : sessions[x].page = NoPage => sessions'[x].up = <<>>
    BY <1>2, <1>3, <1>4, <1>6, <2>2 DEF PageLinks
  <2>4. /\ pages'[p].online => pages'[p].session # 0 /\ pages'[p].inbox = <<>>
        /\ pages'[p].heard # 0 => pages'[p].online /\ pages'[p].heard = pages'[p].session
    BY <1>6, <2>2 DEF PageLinks
  <2>5. Linked'
    BY <2>2, <2>3, <2>4, PageLinked
  <2> QED
    BY <2>1, <2>5 DEF Typed
<1>9. CASE Hear(p)
  <2> DEFINE s == pages[p].session
  <2>1. /\ s # 0 /\ s \in Sid /\ sessions[s].down # <<>>
        /\ UNCHANGED <<usernum, members, adapter, sockets, messages>>
    BY <1>6, <1>9, HearIs DEF PageState
  <2>2. /\ Reading(s) \in [Sid -> SessionState]
        /\ \A x \in Sid \ {s} : Reading(s)[x] = sessions[x]
        /\ Reading(s)[s].page = sessions[s].page /\ Reading(s)[s].up = sessions[s].up
    BY <1>1, <2>1, ReadingFacts
  <2>3. sessions[s].page = p
    BY <1>3, <2>1
  <2>4. CASE Got(s).event = "connect"
    <3>1. /\ pages' \in [Page -> PageState] /\ sessions' \in [Sid -> SessionState]
          /\ \A x \in Page \ {p} : pages'[x] = pages[x]
          /\ pages'[p].session = s /\ pages'[p].online /\ pages'[p].inbox = <<>>
          /\ pages'[p].heard = pages[p].heard
          /\ \A x \in Sid \ {s} : sessions'[x] = sessions[x]
          /\ sessions'[s].page = sessions[s].page
      BY <1>1, <1>9, <2>4, ConnectedFacts
    <3>2. TypeOK'
      BY <1>1, <2>1, <3>1 DEF TypeOK
    <3>3. \A x \in Sid : /\ sessions'[x].page = sessions[x].page
                         /\ sessions[x].page = NoPage => sessions'[x].up = <<>>
                         /\ sessions[x].down = <<>> => sessions'[x].down = <<>>
      BY <1>2, <1>4, <2>1, <2>3, <3>1
    <3>4. pages'[p].heard # 0 => pages'[p].heard = pages'[p].session
      BY <1>6, <3>1 DEF PageLinks
    <3>5. Linked'
      BY <2>1, <3>1, <3>3, <3>4, PageLinked
    <3> QED
      BY <3>2, <3>5 DEF Typed
  <2>5. CASE Got(s).event # "connect"
    <3>1. /\ pages' \in [Page -> PageState] /\ sessions' = Reading(s)
          /\ \A x \in Page \ {p} : pages'[x] = pages[x]
          /\ pages'[p].session = s /\ pages'[p].online = pages[p].online
          /\ pages[p].online => pages'[p].inbox = pages[p].inbox
          /\ pages'[p].heard = IF pages[p].online /\ Got(s).event # "new message"
                               THEN s ELSE pages[p].heard
      BY <1>1, <1>9, <2>5, EventFacts
    <3>2. TypeOK'
      BY <1>1, <2>1, <2>2, <3>1 DEF TypeOK
    <3>3. \A x \in Sid : /\ sessions'[x].page = sessions[x].page
                         /\ sessions[x].page = NoPage => sessions'[x].up = <<>>
                         /\ sessions[x].down = <<>> => sessions'[x].down = <<>>
      BY <1>2, <1>4, <2>1, <2>2, <2>3, <3>1
    <3>4. /\ pages'[p].online => pages'[p].session # 0 /\ pages'[p].inbox = <<>>
          /\ pages'[p].heard # 0 => pages'[p].online /\ pages'[p].heard = pages'[p].session
      BY <1>6, <2>1, <3>1 DEF PageLinks
    <3>5. Linked'
      BY <2>1, <3>1, <3>3, <3>4, PageLinked
    <3> QED
      BY <3>2, <3>5 DEF Typed
  <2> QED
    BY <2>4, <2>5
<1>10. CASE Upgrade(p)
  <2>1. TypeOK'
    BY <1>1, <1>10, UpgradeFacts DEF TypeOK
  <2>2. Linked'
    BY <1>1, <1>2, <1>6, <1>10, UpgradeFacts, PageLinked DEF PageLinks
  <2> QED
    BY <2>1, <2>2 DEF Typed
<1>11. CASE Lose(p)
  <2> DEFINE s == pages[p].session
  <2>1. /\ UNCHANGED <<usernum, members, adapter, sockets, messages>> /\ s \in Sid
        /\ pages' \in [Page -> PageState] /\ sessions' \in [Sid -> SessionState]
        /\ \A x \in Page \ {p} : pages'[x] = pages[x]
        /\ pages'[p].session = 0 /\ ~pages'[p].online /\ pages'[p].heard = 0
        /\ \A x \in Sid \ {s} : sessions'[x] = sessions[x]
        /\ sessions'[s].page = sessions[s].page /\ sessions'[s].up = sessions[s].up
        /\ sessions'[s].down = <<>>
    BY <1>1, <1>11, LoseFacts
  <2>2. TypeOK'
    BY <1>1, <2>1 DEF TypeOK
  <2>3. \A x \in Sid : /\ sessions'[x].page = sessions[x].page
                       /\ sessions[x].page = NoPage => sessions'[x].up = <<>>
                       /\ sessions[x].down = <<>> => sessions'[x].down = <<>>
    BY <1>2, <2>1
  <2>4. Linked'
    BY <2>1, <2>3, PageLinked
  <2> QED
    BY <2>2, <2>4 DEF Typed
<1> QED
  BY <1>5, <1>7, <1>8, <1>9, <1>10, <1>11

\* All of the above, for every step.
Settled == Typed /\ Counted

LEMMA SettledStep ==
  ASSUME Settled, [Next]_vars
  PROVE  Settled'
<1>1. Counted'
  <2>1. CASE ServerStep
    BY <2>1, ConnectionCounted, AddUserCounted, CloseCounted, PageCounted
       DEF ServerStep, OnEventPacket, Settled
  <2>2. CASE PageStep
    BY <2>2, PageCounted DEF Settled
  <2>3. CASE UNCHANGED vars
    BY <2>3, PageCounted DEF Settled
  <2> QED
    BY <2>1, <2>2, <2>3 DEF Next
<1>2. Typed'
  <2>1. CASE ServerStep
    BY <1>1, <2>1, ConnectionTyped, ServerTyped DEF ServerStep, Settled
  <2>2. CASE PageStep
    BY <2>2, PageTyped DEF Settled
  <2>3. CASE UNCHANGED vars
    <3>1. UNCHANGED <<usernum, members, adapter, sockets, sessions, pages, messages>>
      BY <2>3 DEF vars
    <3>2. TypeOK'
      BY <3>1 DEF Settled, Typed, TypeOK
    <3>3. (\A p \in Page : PageLinks(p)') /\ (\A s \in Sid : SessionLinks(s)')
      BY <3>1 DEF Settled, Typed, Linked, PageLinks, SessionLinks, Live, Room
    <3> QED
      BY <3>2, <3>3 DEF Typed, Linked
  <2> QED
    BY <2>1, <2>2, <2>3 DEF Next
<1> QED
  BY <1>1, <1>2 DEF Settled

LEMMA AlwaysSettled == Spec => []Settled
<1>1. Init => Settled
  BY InitTyped, InitCounted DEF Settled
<1> QED
  BY <1>1, SettledStep, PTL DEF Spec

-----------------------------------------------------------------------------
(* Messages have the name of their author.                                 *)

\* Session t has ended or its member is named.
Welcome(t) == t \in sockets => t \in DOMAIN members /\ members[t].added

\* What page p has written on session s.
Written(e, p, s) ==
  /\ e.event = "add user" => pages[p].told = s /\ e.name = pages[p].name
  /\ e.event = "new message" => pages[p].told # 0 /\ Welcome(pages[p].told)

\* What waits for the connection of page p.
Waiting(e, p) ==
  /\ e.event = "add user" =>
       pages[p].told = 0 /\ pages[p].name # NoName /\ e.name = pages[p].name
  /\ e.event = "new message" => pages[p].login

\* What is on its way to page p, or kept there.
Heard(e, p) ==
  /\ e.event = "login" => pages[p].told # 0 /\ Welcome(pages[p].told)
  /\ e.event = "new message" =>
       LET a == sessions[e.by].page IN
       /\ a \in Page /\ pages[a].told # 0
       /\ e.name = IF e.by = pages[a].told THEN pages[a].name ELSE NoName

MemberNamed(s) ==
  LET p == sessions[s].page IN
  /\ members[s].added => pages[p].told = s /\ members[s].name = pages[p].name
  /\ ~members[s].added => members[s].name = NoName

PageNames(p) ==
  /\ pages[p].told # 0 => sessions[pages[p].told].page = p /\ pages[p].name # NoName
  /\ pages[p].login => pages[p].told # 0 /\ Welcome(pages[p].told)
  /\ \A e \in ToSet(pages[p].outbox) : Waiting(e, p)
  /\ \A e \in ToSet(pages[p].inbox) : Heard(e, p)

SessionNames(s) ==
  /\ s \in DOMAIN members => MemberNamed(s)
  /\ \A e \in ToSet(sessions[s].up) : Written(e, sessions[s].page, s)
  /\ \A e \in ToSet(sessions[s].down) : Heard(e, sessions[s].page)

\* A page logs in only after it has told its name, which the server has then;
\* names are told once, and the messages of a page follow its name.
Naming == (\A p \in Page : PageNames(p)) /\ (\A s \in Sid : SessionNames(s))

\* What no step takes back: a name that was told, the page of a session, and
\* the welcome.
Steady ==
  /\ \A p \in Page : pages[p].told # 0 =>
       pages'[p].told = pages[p].told /\ pages'[p].name = pages[p].name
  /\ \A s \in Sid : sessions[s].page # NoPage =>
       /\ sessions'[s].page = sessions[s].page
       /\ Welcome(s) => Welcome(s)'

LEMMA WelcomeKept ==
  ASSUME Settled, Steady, NEW p \in Page, PageNames(p), pages[p].told # 0,
         Welcome(pages[p].told)
  PROVE  pages'[p].told = pages[p].told /\ Welcome(pages[p].told)'
<1>1. PICK t \in Sid : t = pages[p].told
  BY DEF Settled, Typed, TypeOK, PageState
<1>2. sessions[t].page # NoPage
  BY <1>1, ChatAssumption DEF PageNames
<1>3. pages'[p].told = t
  BY <1>1 DEF Steady
<1>4. Welcome(t)'
  BY <1>1, <1>2 DEF Steady
<1> QED
  BY <1>1, <1>3, <1>4 DEF Welcome

LEMMA HeardKept ==
  ASSUME Settled, Steady, NEW p \in Page, PageNames(p), NEW e \in Events, Heard(e, p)
  PROVE  Heard(e, p)'
<1>1. ASSUME e.event = "login" PROVE pages'[p].told # 0 /\ Welcome(pages[p].told)'
  BY <1>1, WelcomeKept DEF Heard
<1>2. ASSUME e.event = "new message"
      PROVE  LET a == sessions'[e.by].page IN
             /\ a \in Page /\ pages'[a].told # 0
             /\ e.name = IF e.by = pages'[a].told THEN pages'[a].name ELSE NoName
  <2> DEFINE a == sessions[e.by].page
  <2>1. /\ a \in Page /\ pages[a].told # 0 /\ e.by \in Sid
        /\ e.name = IF e.by = pages[a].told THEN pages[a].name ELSE NoName
    BY <1>2 DEF Heard, Events
  <2>2. sessions'[e.by].page = a
    BY <2>1, ChatAssumption DEF Steady
  <2>3. pages'[a].told = pages[a].told /\ pages'[a].name = pages[a].name
    BY <2>1 DEF Steady
  <2> HIDE DEF a
  <2> QED
    BY <2>1, <2>2, <2>3
<1> QED
  BY <1>1, <1>2 DEF Heard

LEMMA WrittenKept ==
  ASSUME Settled, Steady, NEW p \in Page, PageNames(p), NEW e, NEW s \in Sid, Written(e, p, s)
  PROVE  Written(e, p, s)'
<1>1. ASSUME e.event = "new message" PROVE pages'[p].told # 0 /\ Welcome(pages[p].told)'
  BY <1>1, WelcomeKept DEF Written
<1>2. ASSUME e.event = "add user" PROVE pages'[p].told = s /\ e.name = pages'[p].name
  <2>1. s # 0
    BY ChatAssumption
  <2> QED
    BY <1>2, <2>1 DEF Written, Steady
<1> QED
  BY <1>1, <1>2 DEF Written

\* A page whose name and login are as they were.
LEMMA PageNamesKept ==
  ASSUME Settled, Steady, NEW p \in Page, PageNames(p),
         pages'[p].told = pages[p].told, pages'[p].name = pages[p].name,
         pages'[p].login => pages[p].login \/
           (pages[p].told # 0 /\ Welcome(pages[p].told)),
         \A e \in ToSet(pages'[p].outbox) :
           \/ e \in ToSet(pages[p].outbox) /\ pages'[p].login = pages[p].login
           \/ e.event = "new message" /\ pages'[p].login,
         \A e \in ToSet(pages'[p].inbox) : e \in Events /\ Heard(e, p)
  PROVE  PageNames(p)'
<1>1. pages'[p].told # 0 => sessions'[pages'[p].told].page = p /\ pages'[p].name # NoName
  <2> SUFFICES ASSUME pages[p].told # 0 PROVE sessions'[pages[p].told].page = p
    BY DEF PageNames
  <2>1. pages[p].told \in Sid
    BY DEF Settled, Typed, TypeOK, PageState
  <2>2. sessions[pages[p].told].page = p /\ p # NoPage
    BY ChatAssumption DEF PageNames
  <2> QED
    BY <2>1, <2>2 DEF Steady
<1>2. pages'[p].login => pages'[p].told # 0 /\ Welcome(pages[p].told)'
  <2> SUFFICES ASSUME pages'[p].login PROVE pages'[p].told # 0 /\ Welcome(pages[p].told)'
    OBVIOUS
  <2>1. pages[p].told # 0 /\ Welcome(pages[p].told)
    BY DEF PageNames
  <2> QED
    BY <2>1, WelcomeKept
<1>3. ASSUME NEW e \in ToSet(pages'[p].outbox) PROVE Waiting(e, p)'
  <2>1. CASE e \in ToSet(pages[p].outbox) /\ pages'[p].login = pages[p].login
    <3>1. Waiting(e, p)
      BY <2>1 DEF PageNames
    <3> QED
      BY <2>1, <3>1 DEF Waiting
  <2>2. CASE e.event = "new message" /\ pages'[p].login
    BY <2>2 DEF Waiting
  <2> QED
    BY <1>3, <2>1, <2>2
<1>4. ASSUME NEW e \in ToSet(pages'[p].inbox) PROVE Heard(e, p)'
  BY <1>4, HeardKept
<1> QED
  BY <1>1, <1>2, <1>3, <1>4 DEF PageNames

\* A session to which nothing is added that says more.
LEMMA SessionNamesKept ==
  ASSUME Settled, Settled', Naming, Steady, NEW s \in Sid,
         s \in DOMAIN members' => s \in DOMAIN members /\ members'[s] = members[s],
         \A e \in ToSet(sessions'[s].up) :
           e \in ToSet(sessions[s].up) \/ Written(e, sessions[s].page, s)',
         \A e \in ToSet(sessions'[s].down) :
           e \in ToSet(sessions[s].down) \/ Heard(e, sessions[s].page)',
         sessions[s].page = NoPage => sessions'[s].page = NoPage
  PROVE  SessionNames(s)'
<1>1. CASE sessions[s].page = NoPage
  <2>1. s \notin DOMAIN members' /\ sessions'[s].up = <<>> /\ sessions'[s].down = <<>>
    BY <1>1 DEF Settled, Typed, Linked, SessionLinks, Live
  <2> QED
    BY <2>1 DEF SessionNames, ToSet
<1>2. CASE sessions[s].page # NoPage
  <2> DEFINE p == sessions[s].page
  <2>1. /\ p \in Page /\ PageNames(p) /\ SessionNames(s) /\ sessions'[s].page = p
    <3>1. sessions[s] \in SessionState
      BY DEF Settled, Typed, TypeOK
    <3>2. p \in Page
      BY <1>2, <3>1 DEF SessionState
    <3> QED
      BY <1>2, <3>2 DEF Naming, Steady
  <2>2. ASSUME NEW e \in ToSet(sessions'[s].up) PROVE Written(e, p, s)'
    <3>1. CASE e \in ToSet(sessions[s].up)
      BY <2>1, <3>1, WrittenKept DEF SessionNames
    <3> QED
      BY <2>2, <3>1
  <2>3. ASSUME NEW e \in ToSet(sessions'[s].down) PROVE Heard(e, p)'
    <3>1. CASE e \in ToSet(sessions[s].down)
      <4>1. sessions[s].down \in Seq(Events)
        BY DEF Settled, Typed, TypeOK, SessionState
      <4>2. e \in Events
        BY <3>1, <4>1, ToSetFacts
      <4> QED
        BY <2>1, <3>1, <4>2, HeardKept DEF SessionNames
    <3> QED
      BY <2>3, <3>1
  <2>4. s \in DOMAIN members' => MemberNamed(s)'
    <3> SUFFICES ASSUME s \in DOMAIN members' PROVE MemberNamed(s)'
      OBVIOUS
    <3>1. s \in DOMAIN members /\ members'[s] = members[s] /\ MemberNamed(s)
      BY <2>1 DEF SessionNames
    <3>2. s # 0
      BY ChatAssumption
    <3>3. pages[p].told = s => pages'[p].told = s /\ pages'[p].name = pages[p].name
      BY <2>1, <3>2 DEF Steady
    <3> QED
      BY <2>1, <3>1, <3>3 DEF MemberNamed
  <2> QED
    BY <2>1, <2>2, <2>3, <2>4 DEF SessionNames
<1> QED
  BY <1>1, <1>2

LEMMA InitNaming == Init => Naming
<1> SUFFICES ASSUME Init PROVE Naming
  OBVIOUS
<1>1. ASSUME NEW p \in Page PROVE PageNames(p)
  <2>1. pages[p] = NewPage
    BY DEF Init
  <2>2. /\ NewPage.told = 0 /\ ~NewPage.login /\ NewPage.outbox = <<>> /\ NewPage.inbox = <<>>
    BY DEF NewPage
  <2> QED
    BY <2>1, <2>2 DEF PageNames, ToSet
<1>2. ASSUME NEW s \in Sid PROVE SessionNames(s)
  <2>1. sessions[s] = NewSession /\ DOMAIN members = {}
    BY NoKeysEmpty DEF Init
  <2>2. NewSession.up = <<>> /\ NewSession.down = <<>>
    BY DEF NewSession
  <2> QED
    BY <2>1, <2>2 DEF SessionNames, ToSet
<1> QED
  BY <1>1, <1>2 DEF Naming

\* The pages that a step leaves alone.
LEMMA OtherPageNames ==
  ASSUME Settled, Naming, Steady, NEW p \in Page, pages'[p] = pages[p]
  PROVE  PageNames(p)'
<1>1. PageNames(p) /\ pages[p].inbox \in Seq(Events)
  BY DEF Naming, Settled, Typed, TypeOK, PageState
<1>2. \A e \in ToSet(pages[p].inbox) : e \in Events /\ Heard(e, p)
  BY <1>1, ToSetFacts DEF PageNames
<1>3. pages[p].login => pages[p].told # 0 /\ Welcome(pages[p].told)
  BY <1>1 DEF PageNames
<1> QED
  BY <1>1, <1>2, <1>3, PageNamesKept

LEMMA ConnectionNamed ==
  ASSUME Settled, Settled', Naming, NEW p \in Page, NEW s \in Sid, OnConnection(p, s)
  PROVE  Naming'
<1>1. TypeOK
  BY DEF Settled, Typed
<1>2. /\ sessions[s].page = NoPage
      /\ sockets' = sockets \cup {s}
      /\ DOMAIN members' = DOMAIN members \cup {s}
      /\ \A x \in DOMAIN members : members'[x] = members[x]
      /\ s \notin DOMAIN members => members'[s] = NewMember
      /\ \A x \in Page \ {p} : pages'[x] = pages[x]
      /\ pages'[p].outbox = pages[p].outbox /\ pages'[p].inbox = pages[p].inbox
      /\ pages'[p].name = pages[p].name /\ pages'[p].login = pages[p].login
      /\ pages'[p].told = pages[p].told
      /\ \A x \in Sid \ {s} : sessions'[x] = sessions[x]
      /\ sessions'[s].page = p /\ sessions'[s].down = <<Connected(s)>>
      /\ sessions'[s].up = sessions[s].up
  BY <1>1, ConnectionFacts
<1>3. Steady
  <2>1. \A x \in Page : pages[x].told # 0 =>
          pages'[x].told = pages[x].told /\ pages'[x].name = pages[x].name
    BY <1>2
  <2>2. ASSUME NEW x \in Sid, sessions[x].page # NoPage
        PROVE  sessions'[x].page = sessions[x].page /\ (Welcome(x) => Welcome(x)')
    <3>1. x # s
      BY <1>2, <2>2
    <3> QED
      BY <1>2, <3>1 DEF Welcome
  <2> QED
    BY <2>1, <2>2 DEF Steady
<1>4. ASSUME NEW x \in Page PROVE PageNames(x)'
  <2>1. CASE x = p
    <3>1. PageNames(p) /\ pages[p].inbox \in Seq(Events)
      BY DEF Naming, Settled, Typed, TypeOK, PageState
    <3>2. \A e \in ToSet(pages[p].inbox) : e \in Events /\ Heard(e, p)
      BY <3>1, ToSetFacts DEF PageNames
    <3>3. pages[p].login => pages[p].told # 0 /\ Welcome(pages[p].told)
      BY <3>1 DEF PageNames
    <3>4. PageNames(p)'
      BY <1>2, <1>3, <3>1, <3>2, <3>3, PageNamesKept
    <3> QED
      BY <2>1, <3>4
  <2>2. CASE x # p
    BY <1>2, <1>3, <2>2, OtherPageNames
  <2> QED
    BY <2>1, <2>2
<1>5. ASSUME NEW x \in Sid PROVE SessionNames(x)'
  <2>1. CASE x = s
    <3>1. s \notin DOMAIN members /\ sessions[s].up = <<>>
      BY <1>2 DEF Settled, Typed, Linked, SessionLinks
    <3>2. members'[s] = NewMember
      BY <1>2, <3>1
    <3>3. MemberNamed(s)'
      <4>1. NewMember.added = FALSE /\ NewMember.name = NoName
        BY DEF NewMember
      <4> QED
        BY <3>2, <4>1 DEF MemberNamed
    <3>4. \A e \in ToSet(sessions'[s].up) : Written(e, sessions[s].page, s)'
      BY <1>2, <3>1 DEF ToSet
    <3>5. \A e \in ToSet(sessions'[s].down) : Heard(e, sessions[s].page)'
      <4>1. \A e \in ToSet(sessions'[s].down) : e.event = "connect"
        BY <1>2 DEF ToSet, Connected, Told
      <4> QED
        BY <4>1 DEF Heard
    <3> QED
      BY <2>1, <3>3, <3>4, <3>5 DEF SessionNames
  <2>2. CASE x # s
    BY <1>2, <1>3, <2>2, SessionNamesKept
  <2> QED
    BY <2>1, <2>2
<1> QED
  BY <1>4, <1>5 DEF Naming

LEMMA AddUserNamed ==
  ASSUME Settled, Settled', Naming, NEW s \in Sid, OnAddUser(s)
  PROVE  Naming'
<1>1. TypeOK /\ Counted'
  BY DEF Settled, Typed
<1> DEFINE e == Head(sessions[s].up)
<1>2. /\ UNCHANGED <<sockets, pages>>
      /\ s \in sockets /\ sessions[s].up # <<>> /\ DOMAIN members' = DOMAIN members
      /\ \A x \in DOMAIN members \ {s} : members'[x] = members[x]
      /\ Joins(s) => members'[s].added /\ members'[s].name = e.name
      /\ ~Joins(s) => members' = members
      /\ e.event = "add user"
      /\ \A x \in Sid :
           /\ sessions'[x].page = sessions[x].page
           /\ sessions'[x].up = IF x = s THEN Tail(sessions[s].up) ELSE sessions[x].up
  BY <1>1, AddUserFacts
<1>3. \A x \in Sid :
        \/ sessions'[x].down = sessions[x].down
        \/ /\ Joins(s) /\ x = s
           /\ sessions'[x].down = Append(sessions[x].down, Told("login", NoName, usernum', s))
        \/ sessions'[x].down = Append(sessions[x].down, Told("user joined", NoName, usernum', s))
  BY <1>1, AddUserFacts
<1>4. Steady
  <2>1. ASSUME NEW x \in Sid, Welcome(x) PROVE Welcome(x)'
    <3>1. CASE x = s /\ Joins(s)
      BY <1>2, <2>1, <3>1 DEF Welcome, Joins
    <3>2. CASE ~(x = s /\ Joins(s))
      BY <1>2, <2>1, <3>2 DEF Welcome
    <3> QED
      BY <3>1, <3>2
  <2> QED
    BY <1>2, <2>1 DEF Steady
<1>5. usernum' \in 0..Cardinality(Sid)
  BY <1>1, AddUserFacts
<1>6. \A x \in Page : PageNames(x)'
  BY <1>2, <1>4, OtherPageNames
<1>7. /\ sessions[s].up \in Seq(Emits) /\ e \in ToSet(sessions[s].up)
      /\ ToSet(Tail(sessions[s].up)) \subseteq ToSet(sessions[s].up)
  <2>1. sessions[s].up \in Seq(Emits)
    BY <1>1 DEF TypeOK, SessionState
  <2> QED
    BY <1>2, <2>1, EndsFacts
<1>11. PICK p \in Page : p = sessions[s].page
  <2>1. sessions[s].page # NoPage /\ sessions[s] \in SessionState
    BY <1>1, <1>2 DEF Settled, Typed, Linked, SessionLinks, TypeOK
  <2> QED
    BY <2>1 DEF SessionState
<1>8. pages[p].told = s /\ pages[p].name = e.name
  BY <1>2, <1>7, <1>11 DEF Naming, SessionNames, Written
<1> HIDE DEF e
<1>9. ASSUME NEW x \in Sid, NEW d \in ToSet(sessions'[x].down)
      PROVE  d \in ToSet(sessions[x].down) \/ Heard(d, sessions[x].page)'
  <2>1. sessions[x].down \in Seq(Events)
    BY <1>1 DEF TypeOK, SessionState
  <2>2. CASE sessions'[x].down = sessions[x].down
    BY <1>9, <2>2
  <2>3. CASE /\ Joins(s) /\ x = s
             /\ sessions'[x].down =
                  Append(sessions[x].down, Told("login", NoName, usernum', s))
    <3>1. d \in ToSet(sessions[x].down) \/ d = Told("login", NoName, usernum', s)
      <4>1. Told("login", NoName, usernum', s) \in Events
        BY <1>5, EventTypes
      <4>2. ToSet(sessions'[x].down) =
              ToSet(sessions[x].down) \cup {Told("login", NoName, usernum', s)}
        <5>1. \A m \in Events :
                ToSet(Append(sessions[x].down, m)) = ToSet(sessions[x].down) \cup {m}
          BY <2>1, ToSetFacts
        <5> QED
          BY <2>3, <4>1, <5>1
      <4> QED
        BY <1>9, <4>2
    <3>2. CASE d = Told("login", NoName, usernum', s)
      <4>1. d.event = "login"
        BY <3>2 DEF Told
      <4>2. pages'[p].told = s /\ s # 0
        BY <1>2, <1>8, ChatAssumption
      <4>3. s \in DOMAIN members' /\ members'[s].added
        BY <1>2, <2>3 DEF Joins
      <4>4. sessions'[x].page = p
        BY <1>2, <1>11, <2>3
      <4>5. Heard(d, sessions[x].page)'
        BY <4>1, <4>2, <4>3, <4>4 DEF Heard, Welcome
      <4> QED
        BY <4>5
    <3> QED
      BY <3>1, <3>2
  <2>4. CASE sessions'[x].down =
               Append(sessions[x].down, Told("user joined", NoName, usernum', s))
    <3>1. d \in ToSet(sessions[x].down) \/ d = Told("user joined", NoName, usernum', s)
      <4>1. Told("user joined", NoName, usernum', s) \in Events
        BY <1>5, EventTypes
      <4>2. ToSet(sessions'[x].down) =
              ToSet(sessions[x].down) \cup {Told("user joined", NoName, usernum', s)}
        <5>1. \A m \in Events :
                ToSet(Append(sessions[x].down, m)) = ToSet(sessions[x].down) \cup {m}
          BY <2>1, ToSetFacts
        <5> QED
          BY <2>4, <4>1, <5>1
      <4> QED
        BY <1>9, <4>2
    <3>2. Told("user joined", NoName, usernum', s).event = "user joined"
      BY DEF Told
    <3> QED
      BY <3>1, <3>2 DEF Heard
  <2> QED
    BY <1>3, <2>2, <2>3, <2>4
<1>10. ASSUME NEW x \in Sid PROVE SessionNames(x)'
  <2>1. \A d \in ToSet(sessions'[x].up) : d \in ToSet(sessions[x].up)
    BY <1>2, <1>7
  <2>2. CASE x # s \/ ~Joins(s)
    BY <1>2, <1>4, <1>9, <2>1, <2>2, SessionNamesKept
  <2>3. CASE x = s /\ Joins(s)
    <3>1. sessions'[s].page = p
      BY <1>2, <1>11
    <3>2. MemberNamed(s)'
      <4>1. /\ members'[s].added /\ members'[s].name = pages'[p].name
            /\ pages'[p].told = s
        BY <1>2, <1>8, <2>3 DEF e
      <4> QED
        BY <3>1, <4>1 DEF MemberNamed
    <3>4. ASSUME NEW d \in ToSet(sessions'[s].up) PROVE Written(d, sessions[s].page, s)'
      <4>1. Written(d, p, s) /\ PageNames(p)
        BY <1>11, <2>1, <2>3, <3>4 DEF Naming, SessionNames
      <4>2. Written(d, p, s)'
        BY <1>4, <4>1, WrittenKept
      <4> QED
        BY <3>1, <4>2 DEF Written
    <3>5. ASSUME NEW d \in ToSet(sessions'[s].down) PROVE Heard(d, sessions[s].page)'
      <4>1. CASE d \in ToSet(sessions[s].down)
        <5>1. sessions[s].down \in Seq(Events)
          BY <1>1 DEF TypeOK, SessionState
        <5>2. d \in Events /\ Heard(d, p) /\ PageNames(p)
          BY <1>11, <4>1, <5>1, ToSetFacts DEF Naming, SessionNames
        <5>3. Heard(d, p)'
          BY <1>4, <5>2, HeardKept
        <5> QED
          BY <3>1, <5>3 DEF Heard
      <4> QED
        BY <1>9, <2>3, <3>5, <4>1
    <3> QED
      BY <2>3, <3>2, <3>4, <3>5 DEF SessionNames
  <2> QED
    BY <2>2, <2>3
<1> QED
  BY <1>6, <1>10 DEF Naming

LEMMA NewMessageNamed ==
  ASSUME Settled, Settled', Naming, NEW s \in Sid, OnNewMessage(s)
  PROVE  Naming'
<1>1. TypeOK
  BY DEF Settled, Typed
<1>2. /\ UNCHANGED <<members, sockets, pages>>
      /\ s \in sockets /\ sessions[s].up # <<>>
      /\ Head(sessions[s].up).event = "new message"
      /\ \A x \in Sid :
           /\ sessions'[x].page = sessions[x].page
           /\ sessions'[x].up = IF x = s THEN Tail(sessions[s].up) ELSE sessions[x].up
  BY <1>1, NewMessageFacts
<1>3. \A x \in Sid :
        \/ sessions'[x].down = sessions[x].down
        \/ /\ s \in DOMAIN members
           /\ sessions'[x].down =
                Append(sessions[x].down, Told("new message", members[s].name, 0, s))
  BY <1>1, NewMessageFacts
<1>4. Steady
  BY <1>2 DEF Steady, Welcome
<1>5. PICK p \in Page : p = sessions[s].page
  <2>1. sessions[s].page # NoPage /\ sessions[s] \in SessionState
    BY <1>1, <1>2 DEF Settled, Typed, Linked, SessionLinks, TypeOK
  <2> QED
    BY <2>1 DEF SessionState
<1>6. /\ Head(sessions[s].up) \in ToSet(sessions[s].up)
      /\ ToSet(Tail(sessions[s].up)) \subseteq ToSet(sessions[s].up)
  <2>1. sessions[s].up \in Seq(Emits)
    BY <1>1 DEF TypeOK, SessionState
  <2> QED
    BY <1>2, <2>1, EndsFacts
<1>7. pages[p].told # 0 /\ Welcome(pages[p].told)
  BY <1>2, <1>5, <1>6 DEF Naming, SessionNames, Written
<1>8. ASSUME s \in DOMAIN members
      PROVE  members[s].name = IF s = pages[p].told THEN pages[p].name ELSE NoName
  <2>1. MemberNamed(s)
    BY <1>8 DEF Naming, SessionNames
  <2>2. CASE s = pages[p].told
    <3>1. members[s].added
      BY <1>2, <1>7, <2>2 DEF Welcome
    <3> QED
      BY <1>5, <2>1, <2>2, <3>1 DEF MemberNamed
  <2>3. CASE s # pages[p].told
    <3>1. ~members[s].added
      BY <1>5, <2>1, <2>3 DEF MemberNamed
    <3> QED
      BY <2>1, <2>3, <3>1 DEF MemberNamed
  <2> QED
    BY <2>2, <2>3
<1>9. ASSUME NEW x \in Sid, NEW d \in ToSet(sessions'[x].down)
      PROVE  d \in ToSet(sessions[x].down) \/ Heard(d, sessions[x].page)'
  <2>1. CASE sessions'[x].down = sessions[x].down
    BY <1>9, <2>1
  <2>2. CASE /\ s \in DOMAIN members
             /\ sessions'[x].down =
                  Append(sessions[x].down, Told("new message", members[s].name, 0, s))
    <3> DEFINE m == Told("new message", members[s].name, 0, s)
    <3>1. sessions[x].down \in Seq(Events) /\ members[s].name \in Name \cup {NoName}
      BY <1>1, <2>2 DEF TypeOK, SessionState, Member
    <3>2. m \in Events
      BY <3>1, EventTypes
    <3>3. ToSet(sessions'[x].down) = ToSet(sessions[x].down) \cup {m}
      <4> HIDE DEF m
      <4>1. sessions'[x].down = Append(sessions[x].down, m)
        BY <2>2 DEF m
      <4>2. \A b \in Events :
              ToSet(Append(sessions[x].down, b)) = ToSet(sessions[x].down) \cup {b}
        BY <3>1, ToSetFacts
      <4> QED
        BY <3>2, <4>1, <4>2
    <3>4. CASE d = m
      <4>1. d.event = "new message" /\ d.by = s /\ d.name = members[s].name
        BY <3>4 DEF Told
      <4>2. sessions'[s].page = p /\ pages'[p] = pages[p]
        BY <1>2, <1>5
      <4> QED
        BY <1>7, <1>8, <2>2, <4>1, <4>2 DEF Heard
    <3> QED
      BY <1>9, <3>3, <3>4
  <2> QED
    BY <1>3, <2>1, <2>2
<1>10. \A x \in Page : PageNames(x)'
  BY <1>2, <1>4, OtherPageNames
<1>11. \A x \in Sid : SessionNames(x)'
  BY <1>2, <1>4, <1>6, <1>9, SessionNamesKept
<1> QED
  BY <1>10, <1>11 DEF Naming

LEMMA CloseNamed ==
  ASSUME Settled, Settled', Naming, NEW s \in Sid, OnClose(s)
  PROVE  Naming'
<1>1. TypeOK /\ Counted'
  BY DEF Settled, Typed
<1>2. /\ pages' = pages /\ sockets' = sockets \ {s}
      /\ DOMAIN members' \subseteq DOMAIN members
      /\ DOMAIN members \ DOMAIN members' \subseteq {s}
      /\ \A x \in DOMAIN members' : members'[x] = members[x]
      /\ usernum' \in 0..Cardinality(Sid)
      /\ \A x \in Sid :
           /\ sessions'[x].page = sessions[x].page
           /\ sessions'[x].up = IF x = s THEN <<>> ELSE sessions[x].up
  BY <1>1, CloseFacts, ZenonT(30)
<1>3. \A x \in Sid :
        \/ sessions'[x].down = sessions[x].down
        \/ sessions'[x].down =
             Append(sessions[x].down, Told("user left", NoName, usernum', s))
  BY <1>1, CloseFacts
<1>4. Steady
  BY <1>2 DEF Steady, Welcome
<1>5. ASSUME NEW x \in Sid, NEW d \in ToSet(sessions'[x].down)
      PROVE  d \in ToSet(sessions[x].down) \/ Heard(d, sessions[x].page)'
  <2> DEFINE m == Told("user left", NoName, usernum', s)
  <2>0. sessions[x].down \in Seq(Events)
    BY <1>1 DEF TypeOK, SessionState
  <2>1. m \in Events /\ m.event = "user left"
    <3>1. m \in Events
      BY <1>2, EventTypes
    <3> QED
      BY <3>1 DEF Told
  <2>2. \/ sessions'[x].down = sessions[x].down
        \/ sessions'[x].down = Append(sessions[x].down, m)
    BY <1>3
  <2> HIDE DEF m
  <2>3. d \in ToSet(sessions[x].down) \/ d = m
    <3>1. CASE sessions'[x].down = Append(sessions[x].down, m)
      <4>1. ToSet(sessions'[x].down) = ToSet(sessions[x].down) \cup {m}
        <5>1. \A b \in Events :
                ToSet(Append(sessions[x].down, b)) = ToSet(sessions[x].down) \cup {b}
          BY <2>0, ToSetFacts
        <5> QED
          BY <2>1, <3>1, <5>1
      <4> QED
        BY <1>5, <4>1
    <3> QED
      BY <1>5, <2>2, <3>1
  <2> QED
    BY <2>1, <2>3 DEF Heard
<1>6. \A x \in Page : PageNames(x)'
  BY <1>2, <1>4, OtherPageNames
<1>7. ASSUME NEW x \in Sid PROVE SessionNames(x)'
  <2>1. \A d \in ToSet(sessions'[x].up) : d \in ToSet(sessions[x].up)
    BY <1>2 DEF ToSet
  <2> QED
    BY <1>2, <1>4, <1>5, <2>1, SessionNamesKept
<1> QED
  BY <1>6, <1>7 DEF Naming

LEMMA SetUsernameNamed ==
  ASSUME Settled, Settled', Naming, NEW p \in Page, SetUsername(p)
  PROVE  Naming'
<1> DEFINE s == pages[p].session
           new == Said("add user", NameOf[p])
<1>1. TypeOK /\ PageLinks(p) /\ PageNames(p) /\ pages[p] \in PageState
  BY DEF Settled, Typed, Linked, TypeOK, Naming
<1>2. /\ UNCHANGED <<members, sockets>> /\ pages[p].name = NoName
      /\ \A x \in Page \ {p} : pages'[x] = pages[x]
      /\ pages'[p].inbox = pages[p].inbox /\ pages'[p].login = pages[p].login
      /\ pages'[p].name = NameOf[p]
      /\ pages'[p].told = IF pages[p].online THEN s ELSE 0
      /\ \A x \in Sid :
           /\ sessions'[x].page = sessions[x].page
           /\ sessions'[x].down = sessions[x].down
  BY <1>1, SetUsernameFacts
<1>3. /\ pages'[p].outbox = IF pages[p].online THEN pages[p].outbox
                            ELSE Append(pages[p].outbox, new)
      /\ \A x \in Sid : sessions'[x].up = IF pages[p].online /\ x = s
                                          THEN Append(sessions[x].up, new) ELSE sessions[x].up
  BY <1>1, SetUsernameFacts, ZenonT(30)
<1>4. pages[p].told = 0 /\ ~pages[p].login /\ pages[p].outbox = <<>>
  <2>1. pages[p].told = 0 /\ ~pages[p].login
    BY <1>1, <1>2 DEF PageNames
  <2>2. pages[p].outbox \in Seq(Emits)
    BY <1>1 DEF PageState
  <2>3. ToSet(pages[p].outbox) = {}
    <3> SUFFICES ASSUME NEW e \in ToSet(pages[p].outbox) PROVE FALSE
      OBVIOUS
    <3>1. e \in Emits
      BY <2>2, ToSetFacts
    <3>2. Waiting(e, p)
      BY <1>1 DEF PageNames
    <3> QED
      BY <1>2, <2>1, <3>1, <3>2 DEF Waiting, Emits
  <2> QED
    BY <2>1, <2>2, <2>3, EndsFacts
<1>5. new \in Emits /\ new.event = "add user" /\ new.name = NameOf[p] /\ NameOf[p] # NoName
  BY EmitTypes DEF Said
<1> HIDE DEF new
<1>6. Steady
  BY <1>2, <1>4 DEF Steady, Welcome
<1>7. pages[p].online => s \in Sid /\ sessions[s].page = p
  BY <1>1 DEF PageLinks, PageState
<1>8. PageNames(p)'
  <2>1. pages'[p].told # 0 => sessions'[pages'[p].told].page = p
    BY <1>2, <1>7
  <2>2. ASSUME NEW e \in ToSet(pages'[p].outbox) PROVE Waiting(e, p)'
    <3>1. CASE pages[p].online
      BY <1>3, <1>4, <2>2, <3>1 DEF ToSet
    <3>2. CASE ~pages[p].online
      <4>1. pages'[p].outbox = <<new>>
        BY <1>3, <1>4, <3>2
      <4>2. e = new
        BY <2>2, <4>1 DEF ToSet
      <4> QED
        BY <1>2, <1>5, <3>2, <4>2 DEF Waiting
    <3> QED
      BY <3>1, <3>2
  <2>3. ASSUME NEW e \in ToSet(pages'[p].inbox) PROVE Heard(e, p)'
    <3>1. pages[p].inbox \in Seq(Events) /\ e \in ToSet(pages[p].inbox)
      BY <1>1, <1>2, <2>3 DEF PageState
    <3>2. e \in Events /\ Heard(e, p)
      BY <1>1, <3>1, ToSetFacts DEF PageNames
    <3> QED
      BY <1>1, <1>6, <3>2, HeardKept
  <2> QED
    BY <1>2, <1>4, <1>5, <2>1, <2>2, <2>3 DEF PageNames
<1>9. ASSUME NEW x \in Sid PROVE SessionNames(x)'
  <2>1. ASSUME NEW e \in ToSet(sessions'[x].up)
        PROVE  e \in ToSet(sessions[x].up) \/ Written(e, sessions[x].page, x)'
    <3>1. CASE pages[p].online /\ x = s
      <4>1. sessions[x].up \in Seq(Emits)
        BY <1>1 DEF TypeOK, SessionState
      <4>2. \A b \in Emits : ToSet(Append(sessions[x].up, b)) = ToSet(sessions[x].up) \cup {b}
        BY <4>1, ToSetFacts
      <4>3. sessions'[x].up = Append(sessions[x].up, new)
        BY <1>3, <3>1
      <4>4. CASE e = new
        <5>1. sessions'[x].page = p /\ pages'[p].told = x
          BY <1>2, <1>7, <3>1
        <5> QED
          BY <1>2, <1>5, <4>4, <5>1 DEF Written
      <4> QED
        BY <1>5, <2>1, <4>2, <4>3, <4>4
    <3>2. CASE ~(pages[p].online /\ x = s)
      BY <1>3, <2>1, <3>2
    <3> QED
      BY <3>1, <3>2
  <2> QED
    BY <1>2, <1>6, <2>1, SessionNamesKept
<1>10. \A x \in Page \ {p} : PageNames(x)'
  BY <1>2, <1>6, OtherPageNames
<1> QED
  BY <1>8, <1>9, <1>10 DEF Naming

LEMMA SendMessageNamed ==
  ASSUME Settled, Settled', Naming, NEW p \in Page, SendMessage(p)
  PROVE  Naming'
<1> DEFINE s == pages[p].session
           new == Said("new message", NoName)
<1>1. TypeOK /\ PageLinks(p) /\ PageNames(p) /\ pages[p] \in PageState
  BY DEF Settled, Typed, Linked, TypeOK, Naming
<1>2. /\ UNCHANGED <<members, sockets>> /\ pages[p].login
      /\ \A x \in Page \ {p} : pages'[x] = pages[x]
      /\ pages'[p].inbox = pages[p].inbox /\ pages'[p].login = pages[p].login
      /\ pages'[p].name = pages[p].name /\ pages'[p].told = pages[p].told
      /\ pages'[p].outbox = IF pages[p].online THEN pages[p].outbox
                            ELSE Append(pages[p].outbox, new)
      /\ \A x \in Sid :
           /\ sessions'[x].page = sessions[x].page
           /\ sessions'[x].down = sessions[x].down
           /\ sessions'[x].up = IF pages[p].online /\ x = s
                                THEN Append(sessions[x].up, new) ELSE sessions[x].up
  BY <1>1, SendMessageFacts, ZenonT(30)
<1>3. new \in Emits /\ new.event = "new message"
  BY EmitTypes DEF Said
<1> HIDE DEF new
<1>4. Steady
  BY <1>2 DEF Steady, Welcome
<1>5. pages[p].told # 0 /\ Welcome(pages[p].told)
  BY <1>1, <1>2 DEF PageNames
<1>6. pages[p].online => s \in Sid /\ sessions[s].page = p
  BY <1>1 DEF PageLinks, PageState
<1>7. PageNames(p)'
  <2>1. ASSUME NEW e \in ToSet(pages'[p].outbox)
        PROVE  e \in ToSet(pages[p].outbox) \/ e.event = "new message"
    <3>1. pages[p].outbox \in Seq(Emits)
      BY <1>1 DEF PageState
    <3>2. \A b \in Emits : ToSet(Append(pages[p].outbox, b)) = ToSet(pages[p].outbox) \cup {b}
      BY <3>1, ToSetFacts
    <3>3. CASE pages[p].online
      BY <1>2, <2>1, <3>3
    <3>4. CASE ~pages[p].online
      <4>1. pages'[p].outbox = Append(pages[p].outbox, new)
        BY <1>2, <3>4
      <4>2. ToSet(pages'[p].outbox) = ToSet(pages[p].outbox) \cup {new}
        BY <1>3, <3>2, <4>1
      <4> QED
        BY <1>3, <2>1, <4>2
    <3> QED
      BY <3>3, <3>4
  <2>2. \A e \in ToSet(pages'[p].inbox) : e \in Events /\ Heard(e, p)
    <3>1. pages[p].inbox \in Seq(Events)
      BY <1>1 DEF PageState
    <3> QED
      BY <1>1, <1>2, <3>1, ToSetFacts DEF PageNames
  <2> QED
    BY <1>1, <1>2, <1>4, <1>5, <2>1, <2>2, PageNamesKept
<1>8. ASSUME NEW x \in Sid PROVE SessionNames(x)'
  <2>1. ASSUME NEW e \in ToSet(sessions'[x].up)
        PROVE  e \in ToSet(sessions[x].up) \/ Written(e, sessions[x].page, x)'
    <3>1. CASE pages[p].online /\ x = s
      <4>1. sessions[x].up \in Seq(Emits)
        BY <1>1 DEF TypeOK, SessionState
      <4>2. \A b \in Emits : ToSet(Append(sessions[x].up, b)) = ToSet(sessions[x].up) \cup {b}
        BY <4>1, ToSetFacts
      <4>3. sessions'[x].up = Append(sessions[x].up, new)
        BY <1>2, <3>1
      <4>4. CASE e = new
        <5>1. sessions'[x].page = p /\ pages'[p].told # 0 /\ Welcome(pages[p].told)'
          BY <1>1, <1>2, <1>4, <1>5, <1>6, <3>1, WelcomeKept
        <5> QED
          BY <1>3, <4>4, <5>1 DEF Written, Welcome
      <4> QED
        BY <1>3, <2>1, <4>2, <4>3, <4>4
    <3>2. CASE ~(pages[p].online /\ x = s)
      BY <1>2, <2>1, <3>2
    <3> QED
      BY <3>1, <3>2
  <2> QED
    BY <1>2, <1>4, <2>1, SessionNamesKept
<1>9. \A x \in Page \ {p} : PageNames(x)'
  BY <1>2, <1>4, OtherPageNames
<1> QED
  BY <1>7, <1>8, <1>9 DEF Naming

LEMMA ConnectedNamed ==
  ASSUME Settled, Settled', Naming, NEW p \in Page, Hear(p),
         Got(pages[p].session).event = "connect"
  PROVE  Naming'
<1> DEFINE s == pages[p].session
           named == \E e \in ToSet(pages[p].outbox) : e.event = "add user"
<1>1. TypeOK /\ PageLinks(p) /\ PageNames(p) /\ pages[p] \in PageState
  BY DEF Settled, Typed, Linked, TypeOK, Naming
<1>2. /\ UNCHANGED <<members, sockets>> /\ s # 0 /\ sessions[s].down # <<>>
  BY HearIs
<1>3. s \in Sid /\ sessions[s].page = p
  BY <1>1, <1>2 DEF PageState, PageLinks
<1>4. /\ \A x \in Page \ {p} : pages'[x] = pages[x]
      /\ pages'[p].outbox = <<>> /\ pages'[p].inbox = <<>>
      /\ pages'[p].name = pages[p].name
      /\ pages'[p].login =>
           pages[p].login \/ \E e \in ToSet(pages[p].inbox) : e.event = "login"
      /\ \A x \in Sid \ {s} : sessions'[x] = sessions[x]
      /\ sessions'[s].page = sessions[s].page /\ sessions'[s].down = Rest(s)
      /\ sessions'[s].up = sessions[s].up \o pages[p].outbox
  BY <1>1, ConnectedFacts
<1>5. pages'[p].told = IF named THEN s ELSE pages[p].told
  BY <1>1, ConnectedFacts
<1>6. named => pages[p].told = 0 /\ pages[p].name # NoName
  BY <1>1 DEF PageNames, Waiting
<1> HIDE DEF named
<1>7. Steady
  <2>1. \A x \in Sid : sessions'[x].page = sessions[x].page
    BY <1>3, <1>4
  <2>2. \A x \in Page : pages[x].told # 0 =>
          pages'[x].told = pages[x].told /\ pages'[x].name = pages[x].name
    BY <1>4, <1>5, <1>6
  <2> QED
    BY <1>2, <2>1, <2>2 DEF Steady, Welcome
<1>8. PageNames(p)'
  <2>1. pages'[p].told # 0 => sessions'[pages'[p].told].page = p /\ pages'[p].name # NoName
    <3>1. CASE named
      BY <1>3, <1>4, <1>5, <1>6, <3>1
    <3>2. CASE ~named
      <4> SUFFICES ASSUME pages[p].told # 0
                   PROVE  sessions'[pages[p].told].page = p /\ pages[p].name # NoName
        BY <1>4, <1>5, <3>2
      <4>1. pages[p].told \in Sid /\ sessions[pages[p].told].page = p /\ pages[p].name # NoName
        BY <1>1 DEF PageState, PageNames
      <4> QED
        BY <1>3, <1>4, <4>1
    <3> QED
      BY <3>1, <3>2
  <2>2. ASSUME pages'[p].login PROVE pages'[p].told # 0 /\ Welcome(pages[p].told)'
    <3>1. pages[p].told # 0 /\ Welcome(pages[p].told)
      BY <1>1, <1>4, <2>2 DEF PageNames, Heard
    <3> QED
      BY <1>1, <1>7, <3>1, WelcomeKept
  <2>3. ToSet(pages'[p].outbox) = {} /\ ToSet(pages'[p].inbox) = {}
    <3>1. pages'[p].outbox = <<>> /\ pages'[p].inbox = <<>>
      BY <1>4
    <3>2. ToSet(<<>>) = {}
      BY DEF ToSet
    <3> QED
      BY <3>1, <3>2
  <2> QED
    BY <2>1, <2>2, <2>3 DEF PageNames
<1>9. ASSUME NEW x \in Sid PROVE SessionNames(x)'
  <2>1. CASE x = s
    <3>1. sessions[s].up \in Seq(Emits) /\ pages[p].outbox \in Seq(Emits)
      BY <1>1, <1>3 DEF TypeOK, SessionState, PageState
    <3>2. ToSet(sessions'[s].up) = ToSet(sessions[s].up) \cup ToSet(pages[p].outbox)
      <4>1. sessions'[s].up = sessions[s].up \o pages[p].outbox
        BY <1>4
      <4> QED
        BY <3>1, <4>1, ToSetFacts
    <3>3. ASSUME NEW e \in ToSet(pages[p].outbox) PROVE Written(e, sessions[x].page, x)'
      <4>1. Waiting(e, p)
        BY <1>1, <3>3 DEF PageNames
      <4>2. sessions'[x].page = p
        BY <1>3, <1>4, <2>1
      <4>3. CASE e.event = "add user"
        <5>1. named /\ e.name = pages'[p].name
          BY <1>4, <3>3, <4>1, <4>3 DEF named, Waiting
        <5> QED
          BY <1>5, <2>1, <4>2, <4>3, <5>1 DEF Written
      <4>4. CASE e.event = "new message"
        <5>1. pages[p].told # 0 /\ Welcome(pages[p].told)
          BY <1>1, <4>1, <4>4 DEF Waiting, PageNames
        <5>2. pages'[p].told # 0 /\ Welcome(pages[p].told)'
          BY <1>1, <1>7, <5>1, WelcomeKept
        <5> QED
          BY <4>2, <4>4, <5>2 DEF Written, Welcome
      <4>5. CASE e.event \notin {"add user", "new message"}
        BY <4>5 DEF Written
      <4> QED
        BY <4>3, <4>4, <4>5
    <3>4. ToSet(sessions'[s].down) \subseteq ToSet(sessions[s].down)
      BY <1>1, <1>2, <1>3, <1>4, ReadingFacts
    <3>5. sessions[s].page # NoPage
      BY <1>3, ChatAssumption
    <3>6. \A e \in ToSet(sessions'[x].up) :
            e \in ToSet(sessions[x].up) \/ Written(e, sessions[x].page, x)'
      BY <2>1, <3>2, <3>3
    <3>7. \A e \in ToSet(sessions'[x].down) : e \in ToSet(sessions[x].down)
      BY <2>1, <3>4
    <3> QED
      BY <1>2, <1>7, <2>1, <3>5, <3>6, <3>7, SessionNamesKept
  <2>2. CASE x # s
    <3>1. sessions'[x] = sessions[x]
      BY <1>4, <2>2
    <3> QED
      BY <1>2, <1>7, <3>1, SessionNamesKept
  <2> QED
    BY <2>1, <2>2
<1>10. \A x \in Page \ {p} : PageNames(x)'
  BY <1>4, <1>7, OtherPageNames
<1> QED
  BY <1>8, <1>9, <1>10 DEF Naming

LEMMA EventNamed ==
  ASSUME Settled, Settled', Naming, NEW p \in Page, Hear(p),
         Got(pages[p].session).event # "connect"
  PROVE  Naming'
<1> DEFINE s == pages[p].session
           e == Got(s)
<1>1. TypeOK /\ PageLinks(p) /\ PageNames(p) /\ pages[p] \in PageState
  BY DEF Settled, Typed, Linked, TypeOK, Naming
<1>2. UNCHANGED <<members, sockets>> /\ s # 0 /\ sessions[s].down # <<>>
  BY HearIs
<1>3. s \in Sid /\ sessions[s].page = p
  BY <1>1, <1>2 DEF PageState, PageLinks
<1>4. /\ sessions' = Reading(s)
      /\ \A x \in Page \ {p} : pages'[x] = pages[x]
      /\ pages'[p].outbox = pages[p].outbox
      /\ pages'[p].name = pages[p].name /\ pages'[p].told = pages[p].told
      /\ pages'[p].inbox = IF pages[p].online THEN pages[p].inbox
                           ELSE Append(pages[p].inbox, e)
      /\ pages'[p].login => pages[p].login \/ e.event = "login"
      /\ pages[p].login => pages'[p].login
  BY <1>1, EventFacts
<1>5. e \in Events /\ e \in ToSet(sessions[s].down)
  BY <1>1, <1>2, <1>3, ReadingFacts
<1> HIDE DEF e
<1>6. /\ \A x \in Sid : sessions'[x].page = sessions[x].page
      /\ \A x \in Sid : sessions'[x].up = sessions[x].up
      /\ \A x \in Sid : ToSet(sessions'[x].down) \subseteq ToSet(sessions[x].down)
  <2>1. /\ \A x \in Sid \ {s} : Reading(s)[x] = sessions[x]
        /\ Reading(s)[s].page = sessions[s].page /\ Reading(s)[s].up = sessions[s].up
        /\ Reading(s)[s].down = Rest(s)
        /\ ToSet(Rest(s)) \subseteq ToSet(sessions[s].down)
    BY <1>1, <1>2, <1>3, ReadingFacts
  <2> QED
    BY <1>3, <1>4, <2>1
<1>7. Heard(e, p)
  BY <1>3, <1>5 DEF Naming, SessionNames
<1>8. Steady
  BY <1>2, <1>4, <1>6 DEF Steady, Welcome
<1>9. PageNames(p)'
  <2>1. pages'[p].login => pages[p].told # 0 /\ Welcome(pages[p].told)
    BY <1>1, <1>4, <1>7 DEF PageNames, Heard
  <2>2. pages[p].login => pages[p].told # 0 /\ Welcome(pages[p].told)
    BY <1>1 DEF PageNames
  <2>3. ASSUME NEW d \in ToSet(pages'[p].inbox) PROVE Heard(d, p)'
    <3>1. pages[p].inbox \in Seq(Events)
      BY <1>1 DEF PageState
    <3>2. \A b \in Events : ToSet(Append(pages[p].inbox, b)) = ToSet(pages[p].inbox) \cup {b}
      BY <3>1, ToSetFacts
    <3>3. d \in ToSet(pages[p].inbox) \/ d = e
      <4>1. CASE pages[p].online
        BY <1>4, <2>3, <4>1
      <4>2. CASE ~pages[p].online
        BY <1>4, <1>5, <2>3, <3>2, <4>2
      <4> QED
        BY <4>1, <4>2
    <3>4. d \in Events /\ Heard(d, p)
      BY <1>1, <1>5, <1>7, <3>1, <3>3, ToSetFacts DEF PageNames
    <3> QED
      BY <1>1, <1>8, <3>4, HeardKept
  <2>4. ASSUME NEW d \in ToSet(pages'[p].outbox) PROVE Waiting(d, p)'
    <3>1. Waiting(d, p)
      BY <1>1, <1>4, <2>4 DEF PageNames
    <3> QED
      BY <1>4, <3>1 DEF Waiting
  <2>5. pages'[p].told # 0 => sessions'[pages'[p].told].page = p /\ pages'[p].name # NoName
    <3>1. pages[p].told # 0 =>
            pages[p].told \in Sid /\ sessions[pages[p].told].page = p /\ pages[p].name # NoName
      BY <1>1 DEF PageState, PageNames
    <3> QED
      BY <1>4, <1>6, <3>1
  <2>6. pages'[p].login => pages'[p].told # 0 /\ Welcome(pages[p].told)'
    BY <1>1, <1>8, <2>1, WelcomeKept
  <2> QED
    BY <2>3, <2>4, <2>5, <2>6 DEF PageNames
<1>10. ASSUME NEW x \in Sid PROVE SessionNames(x)'
  BY <1>2, <1>6, <1>8, SessionNamesKept
<1>11. \A x \in Page \ {p} : PageNames(x)'
  BY <1>4, <1>8, OtherPageNames
<1> QED
  BY <1>9, <1>10, <1>11 DEF Naming

LEMMA LoseNamed ==
  ASSUME Settled, Settled', Naming, NEW p \in Page, Lose(p) \/ Upgrade(p)
  PROVE  Naming'
<1>1. TypeOK /\ pages[p] \in PageState /\ PageNames(p)
  BY DEF Settled, Typed, TypeOK, Naming
<1>2. /\ UNCHANGED <<members, sockets>>
      /\ \A x \in Page \ {p} : pages'[x] = pages[x]
      /\ pages'[p].outbox = pages[p].outbox /\ pages'[p].inbox = pages[p].inbox
      /\ pages'[p].name = pages[p].name /\ pages'[p].told = pages[p].told
      /\ pages'[p].login = pages[p].login
      /\ \A x \in Sid : /\ sessions'[x].page = sessions[x].page
                        /\ sessions'[x].up = sessions[x].up
                        /\ sessions'[x].down \in {sessions[x].down, <<>>}
  <2>1. CASE Lose(p)
    <3> DEFINE s == pages[p].session
    <3>1. /\ UNCHANGED <<members, sockets>> /\ s \in Sid
          /\ \A x \in Page \ {p} : pages'[x] = pages[x]
          /\ pages'[p].outbox = pages[p].outbox /\ pages'[p].inbox = pages[p].inbox
          /\ pages'[p].name = pages[p].name /\ pages'[p].told = pages[p].told
          /\ pages'[p].login = pages[p].login
          /\ \A x \in Sid \ {s} : sessions'[x] = sessions[x]
          /\ sessions'[s].page = sessions[s].page /\ sessions'[s].up = sessions[s].up
          /\ sessions'[s].down = <<>>
      BY <1>1, <2>1, LoseFacts
    <3> QED
      BY <3>1
  <2>2. CASE Upgrade(p)
    BY <1>1, <2>2, UpgradeFacts
  <2> QED
    BY <2>1, <2>2
<1>3. Steady
  BY <1>2 DEF Steady, Welcome
<1>4. PageNames(p)'
  <2>1. pages[p].inbox \in Seq(Events)
    BY <1>1 DEF PageState
  <2>2. \A e \in ToSet(pages[p].inbox) : e \in Events /\ Heard(e, p)
    BY <1>1, <2>1, ToSetFacts DEF PageNames
  <2> QED
    BY <1>1, <1>2, <1>3, <2>2, PageNamesKept
<1>5. ASSUME NEW x \in Sid PROVE SessionNames(x)'
  <2>1. \A e \in ToSet(sessions'[x].down) : e \in ToSet(sessions[x].down)
    BY <1>2 DEF ToSet
  <2> QED
    BY <1>2, <1>3, <2>1, SessionNamesKept
<1>6. \A x \in Page \ {p} : PageNames(x)'
  BY <1>2, <1>3, OtherPageNames
<1> QED
  BY <1>4, <1>5, <1>6 DEF Naming

LEMMA NamingStep ==
  ASSUME Settled, Naming, [Next]_vars
  PROVE  Naming'
<1>1. Settled'
  BY SettledStep
<1>2. CASE ServerStep
  BY <1>1, <1>2, ConnectionNamed, AddUserNamed, NewMessageNamed, CloseNamed
     DEF ServerStep, OnEventPacket
<1>3. CASE PageStep
  <2>1. PICK p \in Page :
          SetUsername(p) \/ SendMessage(p) \/ Hear(p) \/ Upgrade(p) \/ Lose(p)
    BY <1>3 DEF PageStep
  <2> QED
    BY <1>1, <2>1, SetUsernameNamed, SendMessageNamed, ConnectedNamed, EventNamed, LoseNamed
<1>4. CASE UNCHANGED vars
  <2>1. UNCHANGED <<usernum, members, adapter, sockets, sessions, pages, messages>>
    BY <1>4 DEF vars
  <2>2. Steady
    BY <2>1 DEF Steady, Welcome
  <2>3. \A p \in Page : PageNames(p)'
    BY <2>1, <2>2, OtherPageNames
  <2>4. \A s \in Sid : SessionNames(s)'
    BY <1>1, <2>1, <2>2, SessionNamesKept
  <2> QED
    BY <2>3, <2>4 DEF Naming
<1> QED
  BY <1>2, <1>3, <1>4 DEF Next

LEMMA NamingSuffices ==
  ASSUME Settled, Naming
  PROVE  MessagesNamed
<1> SUFFICES ASSUME NEW p \in Page,
                    NEW e \in ToSet(pages[p].inbox) \cup
                              (IF pages[p].session = 0 THEN {}
                               ELSE ToSet(sessions[pages[p].session].down)),
                    e.event = "new message"
             PROVE  LET author == pages[sessions[e.by].page] IN
                    e.name = IF e.by = author.told THEN author.name ELSE NoName
  BY DEF MessagesNamed
<1>1. CASE e \in ToSet(pages[p].inbox)
  BY <1>1 DEF Naming, PageNames, Heard
<1>2. CASE e \notin ToSet(pages[p].inbox)
  <2>1. pages[p].session # 0 /\ e \in ToSet(sessions[pages[p].session].down)
    BY <1>2
  <2>2. pages[p].session \in Sid
    BY <2>1 DEF Settled, Typed, TypeOK, PageState
  <2>3. Heard(e, sessions[pages[p].session].page)
    BY <2>1, <2>2 DEF Naming, SessionNames
  <2> QED
    BY <2>3 DEF Heard
<1> QED
  BY <1>1, <1>2

\* For any number of pages, sessions and messages, lost sessions and new ones: a
\* message on its way to a page, or kept there until it is connected, has the
\* name its author has given, and none only if it came on another session than
\* the one the name was given on (ChatRoom::OnAddUser, OnNewMessage; setUsername
\* and sendMessage of main.js).
THEOREM MessagesAreNamed == Spec => []MessagesNamed
<1>1. Settled /\ Naming /\ [Next]_vars => Settled' /\ Naming'
  BY SettledStep, NamingStep
<1>2. Init => Settled /\ Naming
  BY InitTyped, InitCounted, InitNaming DEF Settled
<1>3. Settled /\ Naming => MessagesNamed
  BY NamingSuffices
<1> QED
  BY <1>1, <1>2, <1>3, PTL DEF Spec

-----------------------------------------------------------------------------
(* The pages agree with the counter.                                       *)

\* The events that have the number of users; whether there is none from the
\* i-th on; and whether the last of them has n.
Counting == {"login", "user joined", "user left"}
Silent(d, i) == \A j \in i..Len(d) : d[j].event \notin Counting
Heralds(d, n) ==
  \E i \in 1..Len(d) : d[i].event \in Counting /\ d[i].count = n /\ Silent(d, i + 1)

\* What is on its way to a page ends with the number of users, and if nothing
\* there has a number, the page has it.
PageCounts(p) ==
  LET s == pages[p].session IN
  s \in sockets /\ ~sessions[s].cut /\ InTheWay(s) = {} =>
    \/ Heralds(sessions[s].down, usernum)
    \/ Silent(sessions[s].down, 1) /\ (pages[p].heard = s => pages[p].count = usernum)

LEMMA HeraldAdded ==
  ASSUME NEW d \in Seq(Events), NEW e \in Events
  PROVE  /\ e.event \in Counting => Heralds(Append(d, e), e.count)
         /\ e.event \notin Counting =>
              /\ \A n : Heralds(d, n) => Heralds(Append(d, e), n)
              /\ Silent(d, 1) => Silent(Append(d, e), 1)
<1> DEFINE r == Append(d, e)
           k == Len(d)
<1>1. /\ k \in Nat /\ Len(r) = k + 1 /\ r[k + 1] = e
      /\ \A i \in 1..k : r[i] = d[i]
  BY LenProperties, AppendProperties
<1> HIDE DEF r, k
<1>2. ASSUME e.event \in Counting PROVE Heralds(r, e.count)
  <2>1. k + 1 \in 1..Len(r) /\ Silent(r, (k + 1) + 1)
    BY <1>1 DEF Silent
  <2> QED
    BY <1>1, <1>2, <2>1 DEF Heralds
<1>3. ASSUME e.event \notin Counting, NEW i \in 1..k + 1, Silent(d, i)
      PROVE  Silent(r, i)
  <2> SUFFICES ASSUME NEW j \in i..Len(r) PROVE r[j].event \notin Counting
    BY DEF Silent
  <2>1. CASE j = k + 1
    BY <1>1, <1>3, <2>1
  <2>2. CASE j # k + 1
    <3>1. j \in i..k /\ j \in 1..k
      BY <1>1, <2>2
    <3> QED
      BY <1>1, <1>3, <3>1 DEF Silent, k
  <2> QED
    BY <2>1, <2>2
<1>4. ASSUME e.event \notin Counting, NEW n, Heralds(d, n)
      PROVE  Heralds(r, n)
  <2>1. PICK i \in 1..k : d[i].event \in Counting /\ d[i].count = n /\ Silent(d, i + 1)
    BY <1>4 DEF Heralds, k
  <2>2. i + 1 \in 1..k + 1 /\ i \in 1..Len(r) /\ r[i] = d[i]
    BY <1>1, <2>1
  <2>3. Silent(r, i + 1)
    BY <1>3, <1>4, <2>1, <2>2
  <2> QED
    BY <2>1, <2>2, <2>3 DEF Heralds
<1>5. ASSUME e.event \notin Counting, Silent(d, 1) PROVE Silent(r, 1)
  BY <1>1, <1>3, <1>5
<1> QED
  BY <1>2, <1>4, <1>5 DEF r

LEMMA HeraldRead ==
  ASSUME NEW d \in Seq(Events), d # <<>>
  PROVE  /\ \A n : Heralds(d, n) =>
              \/ Heralds(Tail(d), n)
              \/ Head(d).event \in Counting /\ Head(d).count = n /\ Silent(Tail(d), 1)
         /\ Silent(d, 1) => Head(d).event \notin Counting /\ Silent(Tail(d), 1)
<1> DEFINE r == Tail(d)
           k == Len(d)
<1>1. /\ k \in Nat \ {0} /\ Len(r) = k - 1 /\ Head(d) = d[1]
      /\ \A i \in 1..k - 1 : r[i] = d[i + 1]
  BY LenProperties, EmptySeq, HeadTailProperties
<1> HIDE DEF r, k
<1>2. ASSUME NEW i \in 1..k, Silent(d, i + 1) PROVE Silent(r, i)
  <2> SUFFICES ASSUME NEW j \in i..Len(r) PROVE r[j].event \notin Counting
    BY DEF Silent
  <2>1. j \in 1..k - 1 /\ j + 1 \in i + 1..k
    BY <1>1
  <2> QED
    BY <1>1, <1>2, <2>1 DEF Silent, k
<1>3. ASSUME NEW n, Heralds(d, n)
      PROVE  \/ Heralds(r, n)
             \/ Head(d).event \in Counting /\ Head(d).count = n /\ Silent(r, 1)
  <2>1. PICK i \in 1..k : d[i].event \in Counting /\ d[i].count = n /\ Silent(d, i + 1)
    BY <1>3 DEF Heralds, k
  <2>2. Silent(r, i)
    BY <1>2, <2>1
  <2>3. CASE i = 1
    BY <1>1, <2>1, <2>2, <2>3
  <2>4. CASE i # 1
    <3>1. i - 1 \in 1..Len(r) /\ r[i - 1] = d[i] /\ (i - 1) + 1 = i
      <4>1. i - 1 \in 1..k - 1 /\ (i - 1) + 1 = i
        BY <1>1, <2>4
      <4> QED
        BY <1>1, <4>1
    <3> QED
      BY <2>1, <2>2, <3>1 DEF Heralds
  <2> QED
    BY <2>3, <2>4
<1>4. ASSUME Silent(d, 1) PROVE Head(d).event \notin Counting /\ Silent(r, 1)
  <2>1. 1 \in 1..k /\ Silent(d, 1 + 1)
    BY <1>1, <1>4 DEF Silent, k
  <2>2. Silent(r, 1)
    BY <1>2, <2>1
  <2> QED
    BY <1>1, <1>4, <2>1, <2>2 DEF Silent, k
<1> QED
  BY <1>3, <1>4 DEF r

\* A page to which nothing happens, while no socket goes out of the way.
LEMMA CountsKept ==
  ASSUME NEW p \in Page, PageCounts(p), NEW s, s = pages[p].session,
         pages'[p].session = s, pages'[p].heard = pages[p].heard,
         pages'[p].count = pages[p].count, usernum' = usernum,
         s \in sockets' => s \in sockets,
         InTheWay(s)' = {} => InTheWay(s) = {},
         ~sessions'[s].cut => ~sessions[s].cut,
         sessions'[s].down = sessions[s].down
  PROVE  PageCounts(p)'
BY DEF PageCounts

\* The ids that are in the way stay there.
LEMMA WayKept ==
  ASSUME adapter' = adapter, sockets' \subseteq sockets, NEW s, InTheWay(s)' = {}
  PROVE  InTheWay(s) = {}
BY DEF InTheWay

\* A broadcast comes to whoever has nobody in the way.
LEMMA Reaches ==
  ASSUME Settled, NEW s \in Sid, NEW t \in sockets \ {s}, InTheWay(t) = {}
  PROVE  t \in Others(s)
<1>1. Room \subseteq Sid /\ Sid \subseteq Nat /\ t \in Sid
  <2>1. adapter.rooms \in Maps({Chatroom}, Sid)
    BY DEF Settled, Typed, TypeOK, Adapters
  <2> QED
    BY <2>1, MapsRow, ChatAssumption DEF Room, Settled, Typed, TypeOK
<1>2. t \in Room \ {s}
  BY <1>1 DEF Settled, Typed, Linked, SessionLinks
<1>3. ASSUME NEW j \in Room \ {s}, j <= t PROVE j \in sockets
  <2>1. CASE j = t
    BY <2>1
  <2>2. CASE j # t
    <3>1. j < t
      BY <1>1, <1>3, <2>2
    <3> QED
      BY <3>1 DEF InTheWay, Room
  <2> QED
    BY <2>1, <2>2
<1> QED
  BY <1>2, <1>3 DEF Others, Reached, Room

\* Every page is told of every change.
Counts == \A p \in Page : PageCounts(p)

\* A page without a socket is owed nothing.
LEMMA NoSocketCounts ==
  ASSUME NEW p \in Page, pages'[p].session \notin sockets'
  PROVE  PageCounts(p)'
BY DEF PageCounts

\* A page with a session is its session's.
LEMMA SessionOf ==
  ASSUME Settled, NEW p \in Page, NEW s \in Sid, s = pages[p].session
  PROVE  sessions[s].page = p /\ p # NoPage /\ Live(s) /\ sessions[s].down \in Seq(Events)
<1>1. s # 0 /\ p # NoPage
  BY ChatAssumption
<1>2. PageLinks(p) /\ sessions \in [Sid -> SessionState]
  BY DEF Settled, Typed, TypeOK, Linked
<1>3. sessions[s].down \in Seq(Events)
  BY <1>2 DEF SessionState
<1> QED
  BY <1>1, <1>2, <1>3 DEF PageLinks, Live

\* The page that connects has heard nothing yet; the room grows by a socket.
LEMMA ConnectionCounts ==
  ASSUME Settled, Settled', Counts, NEW q \in Page, NEW t \in Sid, OnConnection(q, t),
         NEW p \in Page
  PROVE  PageCounts(p)'
<1>1. /\ pages[q].session = 0 /\ sessions[t].page = NoPage
      /\ sockets' = sockets \cup {t} /\ usernum' = usernum /\ Room' = Room \cup {t}
      /\ \A x \in Page \ {q} : pages'[x] = pages[x]
      /\ pages'[q].session = t /\ pages'[q].heard = pages[q].heard
      /\ \A x \in Sid \ {t} : sessions'[x] = sessions[x]
      /\ sessions'[t].down = <<Connected(t)>>
  BY ConnectionFacts, ZenonT(30) DEF Settled, Typed
<1>2. CASE p = q
  <2>1. pages[q].heard = 0 /\ t # 0
    BY <1>1, ChatAssumption DEF Settled, Typed, Linked, PageLinks
  <2>2. Silent(<<Connected(t)>>, 1)
    <3>1. Connected(t).event \notin Counting
      BY DEF Connected, Told, Counting
    <3> QED
      BY <3>1 DEF Silent
  <2> QED
    BY <1>1, <1>2, <2>1, <2>2 DEF PageCounts
<1>3. CASE p # q
  <2>1. PICK s : s = pages[p].session
    OBVIOUS
  <2>2. pages'[p] = pages[p] /\ PageCounts(p)
    BY <1>1, <1>3 DEF Counts
  <2>3. CASE s \notin Sid
    <3>1. sockets' \subseteq Sid
      BY DEF Settled, Typed, TypeOK
    <3> QED
      BY <2>1, <2>2, <2>3, <3>1, NoSocketCounts
  <2>4. CASE s \in Sid
    <3>1. s # t
      BY <1>1, <2>1, <2>4, SessionOf
    <3>2. \A i \in Room : i \in Sid => i # t
      BY <1>1 DEF Settled, Typed, Linked, SessionLinks
    <3>3. Room \subseteq Sid
      <4>1. adapter.rooms \in Maps({Chatroom}, Sid)
        BY DEF Settled, Typed, TypeOK, Adapters
      <4> QED
        BY <4>1, MapsRow DEF Room
    <3>4. InTheWay(s)' = {} => InTheWay(s) = {}
      BY <1>1, <3>2, <3>3 DEF InTheWay, Room
    <3>5. (s \in sockets' => s \in sockets) /\ sessions'[s] = sessions[s]
      BY <1>1, <2>4, <3>1
    <3> QED
      BY <1>1, <2>1, <2>2, <3>4, <3>5, CountsKept
  <2> QED
    BY <2>3, <2>4
<1> QED
  BY <1>2, <1>3

\* Whoever joins is told the number, and so is everyone a broadcast comes to.
LEMMA AddUserCounts ==
  ASSUME Settled, Settled', Counts, NEW t \in Sid, OnAddUser(t), NEW p \in Page
  PROVE  PageCounts(p)'
<1>1. /\ UNCHANGED <<adapter, sockets, pages>> /\ t \in sockets
      /\ ~Joins(t) => usernum' = usernum
      /\ usernum' \in 0..Cardinality(Sid)
      /\ \A x \in Sid :
           /\ sessions'[x].cut = sessions[x].cut
           /\ Joins(t) /\ x = t /\ Live(x) =>
                sessions'[x].down =
                  Append(sessions[x].down, Told("login", NoName, usernum', t))
           /\ Joins(t) /\ x \in Others(t) /\ Live(x) =>
                sessions'[x].down =
                  Append(sessions[x].down, Told("user joined", NoName, usernum', t))
           /\ ~Joins(t) => sessions'[x].down = sessions[x].down
  BY AddUserFacts DEF Settled, Typed
<1>2. PICK s : s = pages[p].session
  OBVIOUS
<1>3. pages'[p] = pages[p] /\ PageCounts(p) /\ sockets \subseteq Sid
  BY <1>1 DEF Counts, Settled, Typed, TypeOK
<1>4. CASE s \notin sockets
  BY <1>1, <1>2, <1>3, <1>4, NoSocketCounts
<1>5. CASE s \in sockets
  <2>1. s \in Sid /\ Live(s) /\ sessions[s].down \in Seq(Events)
    BY <1>2, <1>3, <1>5, SessionOf
  <2>2. InTheWay(s)' = {} => InTheWay(s) = {}
    BY <1>1, WayKept
  <2>3. CASE ~Joins(t)
    <3>1. /\ sessions'[s].cut = sessions[s].cut /\ usernum' = usernum
          /\ sessions'[s].down = sessions[s].down
      BY <1>1, <2>1, <2>3
    <3> QED
      BY <1>1, <1>2, <1>3, <2>2, <3>1, CountsKept
  <2>4. CASE Joins(t) /\ InTheWay(s)' = {}
    <3>1. s # t => s \in Others(t)
      BY <1>5, <2>2, <2>4, Reaches
    <3>2. PICK e :
            /\ \/ e = Told("login", NoName, usernum', t)
               \/ e = Told("user joined", NoName, usernum', t)
            /\ sessions'[s].down = Append(sessions[s].down, e)
      BY <1>1, <2>1, <2>4, <3>1
    <3>3. e \in Events /\ e.event \in Counting /\ e.count = usernum'
      <4>1. CASE e = Told("login", NoName, usernum', t)
        <5>1. e \in Events
          BY <1>1, <4>1, EventTypes
        <5> QED
          BY <4>1, <5>1 DEF Told, Counting
      <4>2. CASE e = Told("user joined", NoName, usernum', t)
        <5>1. e \in Events
          BY <1>1, <4>2, EventTypes
        <5> QED
          BY <4>2, <5>1 DEF Told, Counting
      <4> QED
        BY <3>2, <4>1, <4>2
    <3>4. Heralds(sessions'[s].down, usernum')
      BY <2>1, <3>2, <3>3, HeraldAdded
    <3> QED
      BY <1>2, <1>3, <3>4 DEF PageCounts
  <2>5. CASE InTheWay(s)' # {}
    BY <1>2, <1>3, <2>5 DEF PageCounts
  <2> QED
    BY <2>3, <2>4, <2>5
<1> QED
  BY <1>4, <1>5

\* A message changes no number.
LEMMA NewMessageCounts ==
  ASSUME Settled, Settled', Counts, NEW t \in Sid, OnNewMessage(t), NEW p \in Page
  PROVE  PageCounts(p)'
<1>1. /\ UNCHANGED <<usernum, adapter, sockets, pages>>
      /\ t \in DOMAIN members => members[t].name \in Name \cup {NoName}
      /\ \A x \in Sid :
           /\ sessions'[x].cut = sessions[x].cut
           /\ \/ sessions'[x].down = sessions[x].down
              \/ /\ t \in DOMAIN members
                 /\ sessions'[x].down =
                      Append(sessions[x].down, Told("new message", members[t].name, 0, t))
  <2>1. t \in DOMAIN members => members[t].name \in Name \cup {NoName}
    BY DEF Settled, Typed, TypeOK, Member
  <2> QED
    BY <2>1, NewMessageFacts DEF Settled, Typed
<1>2. PICK s : s = pages[p].session
  OBVIOUS
<1>3. pages'[p] = pages[p] /\ PageCounts(p) /\ sockets \subseteq Sid
  BY <1>1 DEF Counts, Settled, Typed, TypeOK
<1>4. CASE s \notin sockets
  BY <1>1, <1>2, <1>3, <1>4, NoSocketCounts
<1>5. CASE s \in sockets
  <2>1. s \in Sid /\ sessions[s].down \in Seq(Events)
    BY <1>2, <1>3, <1>5, SessionOf
  <2>2. InTheWay(s)' = {} => InTheWay(s) = {}
    BY <1>1, WayKept
  <2>3. sessions'[s].cut = sessions[s].cut
    BY <1>1, <2>1
  <2>4. CASE sessions'[s].down = sessions[s].down
    BY <1>1, <1>2, <1>3, <2>2, <2>3, <2>4, CountsKept
  <2>5. CASE sessions'[s].down # sessions[s].down
    <3>1. PICK e \in Events :
            e.event \notin Counting /\ sessions'[s].down = Append(sessions[s].down, e)
      <4>1. Told("new message", members[t].name, 0, t).event \notin Counting
        BY DEF Told, Counting
      <4> QED
        BY <1>1, <2>1, <2>5, <4>1, EventTypes
    <3>2. /\ Heralds(sessions[s].down, usernum) => Heralds(sessions'[s].down, usernum)
          /\ Silent(sessions[s].down, 1) => Silent(sessions'[s].down, 1)
      BY <2>1, <3>1, HeraldAdded
    <3> QED
      BY <1>1, <1>2, <1>3, <2>2, <2>3, <3>2 DEF PageCounts
  <2> QED
    BY <2>4, <2>5
<1> QED
  BY <1>4, <1>5

\* Whoever leaves, everyone else a broadcast comes to is told the number.
LEMMA CloseCounts ==
  ASSUME Settled, Settled', Counts, NEW t \in Sid, OnClose(t), NEW p \in Page
  PROVE  PageCounts(p)'
<1>1. /\ UNCHANGED <<adapter, pages>> /\ sockets' = sockets \ {t}
      /\ ~Leaves(t) => usernum' = usernum
      /\ usernum' \in 0..Cardinality(Sid)
      /\ \A x \in Sid :
           /\ sessions'[x].cut = sessions[x].cut
           /\ Leaves(t) /\ x \in Others(t) /\ Live(x) =>
                sessions'[x].down =
                  Append(sessions[x].down, Told("user left", NoName, usernum', t))
           /\ ~Leaves(t) => sessions'[x].down = sessions[x].down
  BY CloseFacts DEF Settled, Typed
<1>2. PICK s : s = pages[p].session
  OBVIOUS
<1>3. pages'[p] = pages[p] /\ PageCounts(p) /\ sockets \subseteq Sid
  BY <1>1 DEF Counts, Settled, Typed, TypeOK
<1>4. CASE s \notin sockets'
  BY <1>2, <1>3, <1>4, NoSocketCounts
<1>5. CASE s \in sockets'
  <2>1. s \in sockets \ {t} /\ s \in Sid
    BY <1>1, <1>3, <1>5
  <2>2. Live(s) /\ sessions[s].down \in Seq(Events)
    BY <1>2, <2>1, SessionOf
  <2>3. InTheWay(s)' = {} => InTheWay(s) = {}
    BY <1>1, WayKept
  <2>4. CASE ~Leaves(t)
    <3>1. /\ sessions'[s].cut = sessions[s].cut /\ usernum' = usernum
          /\ sessions'[s].down = sessions[s].down
      BY <1>1, <2>1, <2>4
    <3> QED
      BY <1>2, <1>3, <2>1, <2>3, <3>1, CountsKept
  <2>5. CASE Leaves(t) /\ InTheWay(s)' = {}
    <3>1. s \in Others(t)
      BY <2>1, <2>3, <2>5, Reaches
    <3>2. PICK e : /\ e = Told("user left", NoName, usernum', t)
                   /\ sessions'[s].down = Append(sessions[s].down, e)
      BY <1>1, <2>1, <2>2, <2>5, <3>1
    <3>3. e \in Events /\ e.event \in Counting /\ e.count = usernum'
      BY <1>1, <3>2, EventTypes DEF Told, Counting
    <3>4. Heralds(sessions'[s].down, usernum')
      BY <2>2, <3>2, <3>3, HeraldAdded
    <3> QED
      BY <1>2, <1>3, <3>4 DEF PageCounts
  <2>6. CASE InTheWay(s)' # {}
    BY <1>2, <1>3, <2>6 DEF PageCounts
  <2> QED
    BY <2>4, <2>5, <2>6
<1> QED
  BY <1>4, <1>5

\* What is on its way stays there when a page emits, and when a session is
\* upgraded.
LEMMA WritingCounts ==
  ASSUME Settled, Settled', Counts, NEW q \in Page,
         SetUsername(q) \/ SendMessage(q) \/ Upgrade(q), NEW p \in Page
  PROVE  PageCounts(p)'
<1>1. /\ UNCHANGED <<usernum, adapter, sockets>>
      /\ \A x \in Page :
           /\ pages'[x].session = pages[x].session /\ pages'[x].heard = pages[x].heard
           /\ pages'[x].count = pages[x].count
      /\ \A x \in Sid :
           sessions'[x].cut = sessions[x].cut /\ sessions'[x].down = sessions[x].down
  <2>1. TypeOK /\ PageLinks(q)
    BY DEF Settled, Typed, Linked
  <2>2. CASE SetUsername(q)
    BY <2>1, <2>2, SetUsernameFacts
  <2>3. CASE SendMessage(q)
    BY <2>1, <2>3, SendMessageFacts
  <2>4. CASE Upgrade(q)
    BY <2>1, <2>4, UpgradeFacts
  <2> QED
    BY <2>2, <2>3, <2>4
<1>2. PICK s : s = pages[p].session
  OBVIOUS
<1>3. PageCounts(p) /\ sockets \subseteq Sid
  BY DEF Counts, Settled, Typed, TypeOK
<1>4. CASE s \notin sockets
  BY <1>1, <1>2, <1>4, NoSocketCounts
<1>5. CASE s \in sockets
  <2>1. sessions'[s].cut = sessions[s].cut /\ sessions'[s].down = sessions[s].down
    BY <1>1, <1>3, <1>5
  <2>2. InTheWay(s)' = {} => InTheWay(s) = {}
    BY <1>1, WayKept
  <2> QED
    BY <1>1, <1>2, <1>3, <2>1, <2>2, CountsKept
<1> QED
  BY <1>4, <1>5

\* The page that has lost its session waits for another; nobody else has it.
LEMMA LoseCounts ==
  ASSUME Settled, Settled', Counts, NEW q \in Page, Lose(q), NEW p \in Page
  PROVE  PageCounts(p)'
<1>1. PICK t \in Sid : t = pages[q].session
  BY LoseFacts DEF Settled, Typed
<1>2. /\ UNCHANGED <<usernum, adapter, sockets>>
      /\ \A x \in Page \ {q} : pages'[x] = pages[x]
      /\ pages'[q].session = 0
      /\ \A x \in Sid \ {t} : sessions'[x] = sessions[x]
  BY <1>1, LoseFacts DEF Settled, Typed
<1>3. sockets \subseteq Sid /\ 0 \notin Sid
  BY ChatAssumption DEF Settled, Typed, TypeOK
<1>4. PICK s : s = pages[p].session
  OBVIOUS
<1>5. CASE p = q
  BY <1>2, <1>3, <1>5, NoSocketCounts
<1>6. CASE p # q /\ s \notin sockets
  BY <1>2, <1>4, <1>6, NoSocketCounts
<1>7. CASE p # q /\ s \in sockets
  <2>1. sessions[s].page = p /\ sessions[t].page = q
    BY <1>1, <1>3, <1>4, <1>7, SessionOf
  <2>2. sessions'[s] = sessions[s] /\ pages'[p] = pages[p] /\ PageCounts(p)
    BY <1>2, <1>3, <1>7, <2>1 DEF Counts
  <2>3. InTheWay(s)' = {} => InTheWay(s) = {}
    BY <1>2, WayKept
  <2> QED
    BY <1>2, <1>4, <2>2, <2>3, CountsKept
<1> QED
  BY <1>5, <1>6, <1>7

\* A page that reads shows the number it hears, and passes over nothing unless
\* its answer is cut.
LEMMA HearCounts ==
  ASSUME Settled, Settled', Counts, NEW q \in Page, Hear(q), NEW p \in Page
  PROVE  PageCounts(p)'
<1>1. PICK s : s = pages[q].session
  OBVIOUS
<1>2. PICK d : d = sessions[s].down
  OBVIOUS
<1>3. s # 0 /\ d # <<>> /\ UNCHANGED <<usernum, adapter, sockets>>
  BY <1>1, <1>2, HearIs DEF Hear
<1>4. s \in Sid /\ sockets \subseteq Sid
  BY <1>1, <1>3 DEF Settled, Typed, TypeOK, PageState
<1>5. sessions[s].page = q /\ d \in Seq(Events)
  BY <1>1, <1>2, <1>4, SessionOf
<1>6. /\ \A x \in Page \ {q} : pages'[x] = pages[x]
      /\ \A x \in Sid \ {s} : sessions'[x] = sessions[x]
      /\ pages'[q].session = s
      /\ sessions'[s].down = Rest(s)
      /\ ~sessions'[s].cut => ~sessions[s].cut /\ ~Loses(s)
  <2>1. CASE Got(s).event = "connect"
    BY <1>1, <2>1, ConnectedFacts DEF Settled, Typed
  <2>2. CASE Got(s).event # "connect"
    <3>1. /\ \A x \in Page \ {q} : pages'[x] = pages[x]
          /\ pages'[q].session = s /\ sessions' = Reading(s)
      BY <1>1, <2>2, EventFacts DEF Settled, Typed
    <3>2. /\ \A x \in Sid \ {s} : Reading(s)[x] = sessions[x]
          /\ Reading(s)[s].down = Rest(s)
          /\ ~Reading(s)[s].cut => ~sessions[s].cut /\ ~Loses(s)
      BY <1>2, <1>3, <1>4, ReadingFacts DEF Settled, Typed
    <3> QED
      BY <3>1, <3>2
  <2> QED
    BY <2>1, <2>2
<1>7. CASE p # q
  <2>1. PICK t : t = pages[p].session
    OBVIOUS
  <2>2. CASE t \notin sockets
    BY <1>3, <1>6, <1>7, <2>1, <2>2, NoSocketCounts
  <2>3. CASE t \in sockets
    <3>1. sessions[t].page = p
      BY <1>4, <2>1, <2>3, SessionOf
    <3>2. sessions'[t] = sessions[t] /\ pages'[p] = pages[p] /\ PageCounts(p)
      BY <1>4, <1>5, <1>6, <1>7, <2>3, <3>1 DEF Counts
    <3>3. InTheWay(t)' = {} => InTheWay(t) = {}
      BY <1>3, WayKept
    <3> QED
      BY <1>3, <2>1, <3>2, <3>3, CountsKept
  <2> QED
    BY <2>2, <2>3
<1>8. CASE p = q
  <2> SUFFICES ASSUME s \in sockets, ~sessions'[s].cut, InTheWay(s)' = {}
               PROVE  \/ Heralds(sessions'[s].down, usernum)
                      \/ /\ Silent(sessions'[s].down, 1)
                         /\ pages'[q].heard = s => pages'[q].count = usernum
    BY <1>3, <1>6, <1>8 DEF PageCounts
  <2>1. InTheWay(s) = {} /\ ~sessions[s].cut /\ ~Loses(s)
    BY <1>3, <1>6, WayKept
  <2>2. \/ Heralds(d, usernum)
        \/ Silent(d, 1) /\ (pages[q].heard = s => pages[q].count = usernum)
    BY <1>1, <1>2, <2>1 DEF Counts, PageCounts
  <2>3. Got(s) = Head(d) /\ Rest(s) = Tail(d)
    <3>1. CASE sessions[s].carrier = "polling"
      <4>1. PICK k \in Nat \ {0} : k = Len(d)
        BY <1>3, <1>5, EmptySeq
      <4>2. ~(k > 1)
        BY <1>2, <2>1, <3>1, <4>1 DEF Loses
      <4>3. k = 1
        BY <4>2
      <4>4. Last(d) = Head(d)
        BY <4>1, <4>3 DEF Last
      <4>5. Tail(d) \in Seq(Events) /\ Len(Tail(d)) = Len(d) - 1
        BY <1>3, <1>5, HeadTailProperties
      <4>6. Tail(d) = <<>>
        <5>1. Len(d) - 1 = 0
          BY <4>1, <4>3
        <5> QED
          BY <4>5, <5>1, EmptySeq
      <4> QED
        BY <1>2, <3>1, <4>4, <4>6 DEF Got, Rest
    <3>2. CASE sessions[s].carrier # "polling"
      BY <1>2, <3>2 DEF Got, Rest
    <3> QED
      BY <3>1, <3>2
  <2>4. /\ Heralds(d, usernum) =>
             \/ Heralds(Tail(d), usernum)
             \/ /\ Head(d).event \in Counting /\ Head(d).count = usernum
                /\ Silent(Tail(d), 1)
        /\ Silent(d, 1) => Head(d).event \notin Counting /\ Silent(Tail(d), 1)
    BY <1>3, <1>5, HeraldRead
  <2>5. PageLinks(q) /\ pages[q] \in PageState
    BY DEF Settled, Typed, TypeOK, Linked
  <2>6. CASE Heralds(Tail(d), usernum)
    BY <1>6, <2>3, <2>6
  <2>7. CASE Got(s).event = "connect" /\ ~Heralds(Tail(d), usernum)
    <3>1. Head(d).event \notin Counting
      BY <2>3, <2>7 DEF Counting
    <3>2. Silent(Tail(d), 1) /\ (pages[q].heard = s => pages[q].count = usernum)
      BY <2>2, <2>4, <2>7, <3>1
    <3>3. /\ pages'[q].heard = pages[q].heard
          /\ pages[q].inbox = <<>> => pages'[q].count = pages[q].count
      BY <1>1, <2>7, ConnectedFacts DEF Settled, Typed
    <3>4. pages[q].heard = s => pages[q].inbox = <<>>
      BY <1>3, <2>5 DEF PageLinks
    <3> QED
      BY <1>6, <2>3, <3>2, <3>3, <3>4
  <2>8. CASE Got(s).event # "connect" /\ ~Heralds(Tail(d), usernum)
    <3>1. /\ pages'[q].count = IF pages[q].online /\ Got(s).event \in Counting
                               THEN Got(s).count ELSE pages[q].count
          /\ pages'[q].heard = IF pages[q].online /\ Got(s).event # "new message"
                               THEN s ELSE pages[q].heard
      BY <1>1, <2>8, EventFacts DEF Settled, Typed, Counting
    <3>2. Silent(Tail(d), 1)
      BY <2>2, <2>4, <2>8
    <3>3. CASE ~pages[q].online
      <4>1. pages[q].heard # s
        BY <1>3, <2>5, <3>3 DEF PageLinks
      <4> QED
        BY <1>6, <2>3, <3>1, <3>2, <3>3, <4>1
    <3>4. CASE pages[q].online /\ Got(s).event \in Counting
      <4>1. Got(s).count = usernum
        BY <2>2, <2>3, <2>4, <2>8, <3>4
      <4> QED
        BY <1>6, <2>3, <3>1, <3>2, <3>4, <4>1
    <3>5. CASE pages[q].online /\ Got(s).event \notin Counting
      <4>1. Got(s) \in Events
        BY <1>2, <1>3, <1>4, ReadingFacts DEF Settled, Typed
      <4>2. Got(s).event = "new message"
        BY <2>8, <3>5, <4>1 DEF Events, Counting
      <4>3. pages[q].heard = s => pages[q].count = usernum
        BY <2>2, <2>3, <2>4, <2>8, <3>5
      <4> QED
        BY <1>6, <2>3, <3>1, <3>2, <3>5, <4>2, <4>3
    <3> QED
      BY <3>3, <3>4, <3>5
  <2> QED
    BY <2>6, <2>7, <2>8
<1> QED
  BY <1>7, <1>8

LEMMA CountsStep ==
  ASSUME Settled, Settled', Counts, [Next]_vars
  PROVE  Counts'
<1> SUFFICES ASSUME NEW p \in Page PROVE PageCounts(p)'
  BY DEF Counts
<1>1. CASE ServerStep
  BY <1>1, ConnectionCounts, AddUserCounts, NewMessageCounts, CloseCounts
     DEF ServerStep, OnEventPacket
<1>2. CASE PageStep
  BY <1>2, WritingCounts, HearCounts, LoseCounts DEF PageStep
<1>3. CASE UNCHANGED vars
  <2>1. UNCHANGED <<usernum, adapter, sockets, sessions, pages>> /\ PageCounts(p)
    BY <1>3 DEF vars, Counts
  <2> QED
    BY <2>1 DEF PageCounts, InTheWay
<1> QED
  BY <1>1, <1>2, <1>3 DEF Next

\* For any number of pages and sessions: the state has its type, and a page that
\* has heard everything its session had for it shows the number of users, unless
\* a member that has left is in the way of broadcasts, or an answer to a poll
\* has lost some (the adapter's rooms, the polling transport and main.js).
THEOREM PagesAgree == Spec => []CountsAgree
<1>1. Init => Settled /\ Counts
  <2>1. ASSUME Init PROVE Counts
    BY <2>1 DEF Init, Counts, PageCounts
  <2> QED
    BY <2>1, InitTyped, InitCounted DEF Settled
<1>2. Settled /\ Counts /\ [Next]_vars => Settled' /\ Counts'
  BY SettledStep, CountsStep
<1>3. ASSUME Settled, Counts PROVE CountsAgree
  <2>1. TypeOK
    BY <1>3 DEF Settled, Typed
  <2>2. \A n : ~Heralds(<<>>, n)
    BY DEF Heralds
  <2> QED
    BY <1>3, <2>1, <2>2 DEF CountsAgree, Counts, PageCounts
<1> QED
  BY <1>1, <1>2, <1>3, PTL DEF Spec
=============================================================================
