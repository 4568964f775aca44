------------------------ MODULE HttpConnectionProofs ------------------------
(***************************************************************************)
(* For any number of connections, requests, headers and bytes of a text,   *)
(* however the bytes are cut:                                              *)
(*  - the server's table holds the handlers of the open connections that   *)
(*    are still HTTP;                                                      *)
(*  - an application is given the headers that were written, and the URL   *)
(*    and the body in which no read ended.                                 *)
(* The second is about a point of the text: Phase says what a codec has of *)
(* a request at each.  A byte takes it to the next (ExecutePhase), the     *)
(* call at the end of a read leaves it there (CallPhase), and a read is a  *)
(* run of bytes and a call (ParsePhase).                                   *)
(***************************************************************************)
EXTENDS HttpConnection, DataLemmas

Fields == {"status", "upgraded", "count", "kind", "stream", "cut", "waiting",
           "held", "codec"}

\* What HandlersOpen needs besides: a connection is upgraded while it is open,
\* by the last byte that it has to read.
Tracked ==
  /\ DOMAIN conns = Conn
  /\ \A c \in Conn :
       /\ DOMAIN conns[c] = Fields
       /\ conns[c].upgraded => conns[c].stream = <<>> /\ conns[c].status # "new"
       /\ conns[c].status = "new" => conns[c].stream = <<>>
  /\ HandlersOpen

LEMMA InitTracked == Init => Tracked
BY DEF Init, Tracked, HandlersOpen, NewConnection, Fields

\* A step of one connection: its entry changes, and the table at that entry.
LEMMA OneTracked ==
  ASSUME Tracked, NEW c \in Conn, NEW n, DOMAIN n = Fields,
         n.upgraded => n.stream = <<>> /\ n.status # "new",
         n.status = "new" => n.stream = <<>>,
         conns' = [conns EXCEPT ![c] = n],
         \A d \in Conn \ {c} : d \in handlers' <=> d \in handlers,
         handlers' \subseteq Conn,
         c \in handlers' <=> n.status = "open" /\ ~n.upgraded
  PROVE  Tracked'
<1>1. DOMAIN conns' = Conn /\ conns'[c] = n /\ \A d \in Conn \ {c} : conns'[d] = conns[d]
  BY DEF Tracked
<1>2. \A d \in Conn : d \in handlers' <=> conns'[d].status = "open" /\ ~conns'[d].upgraded
  BY <1>1 DEF Tracked, HandlersOpen
<1>3. HandlersOpen'
  BY <1>2 DEF HandlersOpen
<1>4. \A d \in Conn :
        /\ DOMAIN conns'[d] = Fields
        /\ conns'[d].upgraded => conns'[d].stream = <<>> /\ conns'[d].status # "new"
        /\ conns'[d].status = "new" => conns'[d].stream = <<>>
  BY <1>1 DEF Tracked
<1> QED
  BY <1>1, <1>3, <1>4 DEF Tracked

LEMMA NextTracked == Tracked /\ [Next]_vars => Tracked'
<1> SUFFICES ASSUME Tracked, [Next]_vars PROVE Tracked'
  OBVIOUS
<1> USE DEF Fields
<1>0. /\ handlers \subseteq Conn
      /\ \A c \in Conn : c \in handlers <=> conns[c].status = "open" /\ ~conns[c].upgraded
      /\ \A c \in Conn : DOMAIN conns[c] = Fields
      /\ DOMAIN conns = Conn
  BY DEF Tracked, HandlersOpen
<1>1. ASSUME NEW c \in Conn, OnConnection(c) PROVE Tracked'
  <2> DEFINE n == [conns[c] EXCEPT !.status = "open"]
  <2>1. conns' = [conns EXCEPT ![c] = n] /\ handlers' = handlers \cup {c}
    BY <1>1 DEF OnConnection
  <2>2. /\ DOMAIN n = Fields /\ n.status = "open" /\ n.upgraded = conns[c].upgraded
        /\ n.stream = conns[c].stream
    BY <1>0
  <2>3. ~conns[c].upgraded
    BY <1>1 DEF OnConnection, Tracked
  <2> QED
    BY <2>1, <2>2, <2>3, <1>0, OneTracked
<1>2. ASSUME NEW c \in Conn, OnDataPart(c) PROVE Tracked'
  <2>1. PICK m \in 1..Len(conns[c].stream) - 1 :
          LET k == Parse(conns[c].codec, SubSeq(conns[c].stream, 1, m)) IN
          /\ conns[c].status = "open"
          /\ conns' = [conns EXCEPT
               ![c].stream = SubSeq(@, m + 1, Len(@)),
               ![c].codec = k,
               ![c].cut = @ \/ k.part \in {"url", "body"}]
          /\ handlers' = handlers
    BY <1>2 DEF OnDataPart
  <2> DEFINE k == Parse(conns[c].codec, SubSeq(conns[c].stream, 1, m))
             n == [conns[c] EXCEPT
                     !.stream = SubSeq(@, m + 1, Len(@)), !.codec = k,
                     !.cut = @ \/ k.part \in {"url", "body"}]
  <2>2. conns' = [conns EXCEPT ![c] = n] /\ conns[c].status = "open"
    BY <2>1
  <2>3. /\ DOMAIN n = Fields /\ n.status = "open" /\ n.upgraded = conns[c].upgraded
    BY <1>0, <2>2
  <2>4. ~conns[c].upgraded
    <3>1. conns[c].stream # <<>>
      BY <2>1
    <3> QED
      BY <3>1 DEF Tracked
  <2>5. handlers' = handlers
    BY <2>1
  <2> HIDE DEF n, k
  <2> QED
    BY <2>2, <2>3, <2>4, <2>5, <1>0, OneTracked
<1>3. ASSUME NEW c \in Conn, OnDataLast(c) PROVE Tracked'
  <2>1. PICK outcome \in Outcome(conns[c].kind) :
          LET o == conns[c]
              k == Parse(o.codec, o.stream)
              found == Found(k.url)
          IN  /\ o.status = "open" /\ o.stream # <<>>
              /\ conns' = [conns EXCEPT ![c] =
                   [o EXCEPT !.stream = <<>>,
                             !.codec = [CleanUp(k) EXCEPT !.part = "stop"],
                             !.waiting = ~found \/ outcome = "hold",
                             !.held = found /\ outcome = "hold",
                             !.upgraded = found /\ outcome = "upgrade"]]
              /\ handlers' = Dying(c, found /\ outcome = "upgrade")
    BY <1>3 DEF OnDataLast
  <2> DEFINE k == Parse(conns[c].codec, conns[c].stream)
             found == Found(k.url)
             n == [conns[c] EXCEPT
                     !.stream = <<>>,
                     !.codec = [CleanUp(k) EXCEPT !.part = "stop"],
                     !.waiting = ~found \/ outcome = "hold",
                     !.held = found /\ outcome = "hold",
                     !.upgraded = found /\ outcome = "upgrade"]
  <2>2. /\ conns' = [conns EXCEPT ![c] = n]
        /\ conns[c].status = "open" /\ conns[c].stream # <<>>
        /\ handlers' = IF found /\ outcome = "upgrade" THEN handlers \ {c} ELSE handlers
    BY <2>1 DEF Dying, OnHandlerClose
  <2>3. /\ DOMAIN n = Fields /\ n.status = "open" /\ n.stream = <<>>
        /\ n.upgraded <=> found /\ outcome = "upgrade"
    BY <1>0, <2>2
  <2>4. c \in handlers
    BY <2>2, <1>0 DEF Tracked
  <2> HIDE DEF n, found
  <2> QED
    BY <2>2, <2>3, <2>4, <1>0, OneTracked
<1>4. ASSUME NEW c \in Conn, End(c) PROVE Tracked'
  <2> DEFINE n == [conns[c] EXCEPT !.held = FALSE, !.waiting = FALSE]
  <2>1. conns' = [conns EXCEPT ![c] = n] /\ handlers' = handlers
    BY <1>4 DEF End
  <2>2. /\ DOMAIN n = Fields /\ n.status = conns[c].status
        /\ n.upgraded = conns[c].upgraded /\ n.stream = conns[c].stream
    BY <1>0
  <2>3. /\ conns[c].upgraded => conns[c].stream = <<>> /\ conns[c].status # "new"
        /\ conns[c].status = "new" => conns[c].stream = <<>>
    BY DEF Tracked
  <2> HIDE DEF n
  <2> QED
    BY <2>1, <2>2, <2>3, <1>0, OneTracked
<1>5. ASSUME NEW c \in Conn, OnClose(c) PROVE Tracked'
  <2> DEFINE n == [conns[c] EXCEPT !.status = "closed", !.stream = <<>>]
  <2>1. /\ conns' = [conns EXCEPT ![c] = n] /\ conns[c].status = "open"
        /\ handlers' = IF conns[c].upgraded THEN handlers ELSE handlers \ {c}
    BY <1>5 DEF OnClose, OnHandlerClose
  <2>2. DOMAIN n = Fields /\ n.status = "closed" /\ n.stream = <<>>
    BY <1>0
  <2> HIDE DEF n
  <2> QED
    BY <2>1, <2>2, <1>0, OneTracked
<1>6. ASSUME NEW c \in Conn, NEW kind \in Kind, Request(c, kind) PROVE Tracked'
  <2> DEFINE n == [conns[c] EXCEPT !.count = @ + 1, !.kind = kind, !.cut = FALSE,
                     !.waiting = TRUE, !.stream = Written(conns[c].count + 1, kind)]
  <2>1. /\ conns' = [conns EXCEPT ![c] = n] /\ handlers' = handlers
        /\ conns[c].status = "open" /\ ~conns[c].upgraded
    BY <1>6 DEF Request
  <2>2. DOMAIN n = Fields /\ n.status = "open" /\ n.upgraded = conns[c].upgraded
    BY <1>0, <2>1
  <2> HIDE DEF n
  <2> QED
    BY <2>1, <2>2, <1>0, OneTracked
<1>7. CASE UNCHANGED vars
  BY <1>7 DEF vars, Tracked, HandlersOpen
<1> QED
  BY <1>1, <1>2, <1>3, <1>4, <1>5, <1>6, <1>7 DEF Next, OnData

\* A handler is in the server's table exactly while its connection is open and
\* has not been upgraded (HTTPServer::OnHandlerClose, WebsocketHandler).
THEOREM HandlersAreOpen == Spec => []HandlersOpen
<1>1. Tracked => HandlersOpen
  BY DEF Tracked
<1> QED
  BY InitTracked, NextTracked, <1>1, PTL DEF Spec

-----------------------------------------------------------------------------
(* Where a codec is in the text of a request.                              *)

\* A text after its first j bytes, and those.
Piece(part, h, r, j) ==
  [i \in 1..Size - j |-> [part |-> part, header |-> h, request |-> r, at |-> i + j]]
Front(part, h, r, j) ==
  [i \in 1..j |-> [part |-> part, header |-> h, request |-> r, at |-> i]]

ByteAt(part, h, r, i) == [part |-> part, header |-> h, request |-> r, at |-> i]

\* The first n headers of request r.
HeadersTo(r, n) == {<<Bytes("name", h, r), Bytes("value", h, r)>> : h \in 1..n}

\* The text http_parser is in after j bytes of it.
Position(part, j) == IF j = 0 THEN "stop" ELSE part

\* In front of header h the one before is complete, and not in the map yet.
LineStart(k, r, h) ==
  IF h = 1 THEN k.state = "begin" /\ k.headers = {} /\ k.name = <<>>
  ELSE /\ k.state = "value" /\ k.headers = HeadersTo(r, h - 2)
       /\ k.name = Bytes("name", h - 1, r) /\ k.value = Bytes("value", h - 1, r)

InUrl(k, rest, r, kind, cut, j) ==
  /\ rest = Piece("url", 0, r, j) \o (Mark("stop") \o Lines(r, kind)[Headers])
  /\ k.part = Position("url", j) /\ k.headers = {} /\ k.name = <<>>
  /\ IF j = 0 THEN k.run = <<>> ELSE k.state = "begin"
  /\ ~cut => k.run = Front("url", 0, r, j)

\* Of a name or a value there is what calls have handed over, and what has been
\* read since; none may have been made yet.
InName(k, rest, r, kind, h, j) ==
  /\ rest = Piece("name", h, r, j) \o (Mark("stop") \o (Bytes("value", h, r)
              \o (Mark("stop") \o Lines(r, kind)[Headers - h])))
  /\ k.part = Position("name", j)
  /\ \/ LineStart(k, r, h) /\ k.run = Front("name", h, r, j)
     \/ /\ j # 0 /\ k.state = "name" /\ k.headers = HeadersTo(r, h - 1)
        /\ k.name \o k.run = Front("name", h, r, j)

InValue(k, rest, r, kind, h, j) ==
  /\ rest = Piece("value", h, r, j) \o (Mark("stop") \o Lines(r, kind)[Headers - h])
  /\ k.part = Position("value", j)
  /\ k.name = Bytes("name", h, r) /\ k.headers = HeadersTo(r, h - 1)
  /\ \/ k.state = "name" /\ k.run = Front("value", h, r, j)
     \/ j # 0 /\ k.state = "value" /\ k.value \o k.run = Front("value", h, r, j)

AtEnd(k, rest, r, kind) ==
  /\ rest = Lines(r, kind)[0] /\ k.part = "stop" /\ k.run = <<>>
  /\ LineStart(k, r, Headers + 1)

InBody(k, rest, r, kind, cut, j) ==
  /\ rest = IF kind = "POST" THEN Piece("body", 0, r, j) ELSE <<>>
  /\ kind # "POST" => j = 0
  /\ k.part = Position("body", j) /\ k.headers = HeadersTo(r, Headers)
  /\ j = 0 => k.run = <<>>
  /\ ~cut => k.run = Front("body", 0, r, j)

\* Codec k has read request r but for the rest; cut: a read ended in a URL or
\* in a body.
Phase(k, rest, r, kind, cut) ==
  /\ k \in Codec /\ rest \in Seq(Byte)
  /\ \/ \E j \in 0..Size : InUrl(k, rest, r, kind, cut, j)
     \/ /\ ~cut => k.url = Bytes("url", 0, r)
        /\ \/ \E h \in 1..Headers, j \in 0..Size :
                InName(k, rest, r, kind, h, j) \/ InValue(k, rest, r, kind, h, j)
           \/ AtEnd(k, rest, r, kind)
           \/ \E j \in 0..Size : InBody(k, rest, r, kind, cut, j)

\* A codec between two requests.
Idle(k) == k \in Codec /\ k.part = "stop" /\ k.run = <<>> /\ k.name = <<>> /\ k.headers = {}

Given == [url : Seq(Byte), headers : SUBSET (Seq(Byte) \X Seq(Byte)), body : Seq(Byte),
          kind : Kind, cut : BOOLEAN, number : Nat]
Whole(q) ==
  /\ q.headers = HeadersTo(q.number, Headers)
  /\ ~q.cut => /\ q.url = Bytes("url", 0, q.number)
               /\ q.kind = "POST" => q.body = Bytes("body", 0, q.number)

\* A connection n with the requests hs that were given to applications.
Reading(n, hs) ==
  /\ n \in Connection /\ n.count \in 0..MaxRequests /\ (n.held => n.waiting)
  /\ IF n.stream = <<>> THEN n.status = "closed" \/ Idle(n.codec)
     ELSE /\ Phase(n.codec, n.stream, n.count, n.kind, n.cut) /\ Len(hs) < n.count
          /\ n.waiting /\ ~n.held
  /\ hs \in Seq(Given) /\ Len(hs) <= n.count
  /\ \A i \in 1..Len(hs) : Whole(hs[i])

AllReading ==
  /\ handlers \subseteq Conn /\ DOMAIN conns = Conn /\ DOMAIN handled = Conn
  /\ conns = [c \in Conn |-> conns[c]] /\ handled = [c \in Conn |-> handled[c]]
  /\ \A c \in Conn : Reading(conns[c], handled[c])

-----------------------------------------------------------------------------
(* Texts, piece by piece.                                                  *)

\* The parts and headers of texts.
Source(part, h, r) == part \in Text /\ h \in 0..Headers /\ r \in 0..MaxRequests

LEMMA ByteFacts ==
  ASSUME NEW part, NEW h, NEW r, Source(part, h, r)
  PROVE  /\ \A i \in 1..Size :
              [part |-> part, header |-> h, request |-> r, at |-> i] \in Byte
         /\ \A i \in 1..Size : Bytes(part, h, r)[i] =
              [part |-> part, header |-> h, request |-> r, at |-> i]
         /\ Bytes(part, h, r) \in Seq(Byte)
         /\ Bytes(part, h, r) = Piece(part, h, r, 0)
         /\ Bytes(part, h, r) = Front(part, h, r, Size)
         /\ Mark("stop") \in Seq(Byte) /\ Mark("end") \in Seq(Byte)
<1>0. Size \in Nat /\ Size # 0 /\ Headers \in Nat /\ MaxRequests \in Nat
  BY SizeAssumption
<1>1. \A i \in 0..Size : [part |-> part, header |-> h, request |-> r, at |-> i] \in Byte
  BY <1>0 DEF Source, Byte
<1>2. \A i \in 1..Size :
        Bytes(part, h, r)[i] = [part |-> part, header |-> h, request |-> r, at |-> i]
  BY DEF Bytes
<1>3. Bytes(part, h, r) \in Seq(Byte)
  <2>1. Bytes(part, h, r) \in [1..Size -> Byte]
    BY <1>0, <1>1 DEF Bytes
  <2> QED
    BY <1>0, <2>1
<1>4. Bytes(part, h, r) = Piece(part, h, r, 0)
  <2>1. Size - 0 = Size /\ \A i \in 1..Size : i + 0 = i
    BY <1>0
  <2> QED
    BY <2>1 DEF Bytes, Piece
<1>5. Bytes(part, h, r) = Front(part, h, r, Size)
  BY DEF Bytes, Front
<1>6. Mark("stop") \in Seq(Byte) /\ Mark("end") \in Seq(Byte)
  <2>1. 0 \in 0..Headers /\ 0 \in 0..MaxRequests /\ 0 \in 0..Size
    BY <1>0
  <2>2. \A p \in {"stop", "end"} : [part |-> p, header |-> 0, request |-> 0, at |-> 0] \in Byte
    BY <2>1 DEF Byte
  <2> QED
    BY <2>2 DEF Mark
<1>7. \A i \in 1..Size : i \in 0..Size
  BY <1>0
<1> QED
  BY <1>1, <1>2, <1>3, <1>4, <1>5, <1>6, <1>7

\* A stream begins with byte b, and goes on with t.
Leads(rest, b, t) ==
  /\ b \in Byte /\ t \in Seq(Byte)
  /\ rest \in Seq(Byte) /\ rest # <<>> /\ Head(rest) = b /\ Tail(rest) = t

\* What is left of a text, with what follows it, is read from its front.
LEMMA PieceFacts ==
  ASSUME NEW part, NEW h, NEW r, Source(part, h, r), NEW j \in 0..Size, NEW y \in Seq(Byte)
  PROVE  /\ Piece(part, h, r, j) \o y \in Seq(Byte)
         /\ j = Size => Piece(part, h, r, j) \o y = y
         /\ j # Size =>
              /\ j + 1 \in 0..Size
              /\ Leads(Piece(part, h, r, j) \o y, ByteAt(part, h, r, j + 1),
                       Piece(part, h, r, j + 1) \o y)
<1> DEFINE P(i) == Piece(part, h, r, i)
           B(i) == [part |-> part, header |-> h, request |-> r, at |-> i]
<1>0. Size \in Nat /\ j \in Nat /\ j <= Size
  BY SizeAssumption
<1>1. \A i \in 1..Size : B(i) \in Byte
  BY ByteFacts
<1>2. ASSUME NEW i \in 0..Size
      PROVE  /\ P(i) \in Seq(Byte) /\ Len(P(i)) = Size - i
             /\ \A k \in 1..Size - i : P(i)[k] = B(k + i)
  <2>1. Size - i \in Nat /\ \A k \in 1..Size - i : k + i \in 1..Size
    BY <1>0
  <2>2. P(i) \in [1..Size - i -> Byte]
    BY <1>1, <2>1 DEF Piece
  <2>3. P(i) \in Seq(Byte) /\ Len(P(i)) = Size - i
    BY <2>1, <2>2
  <2>4. \A k \in 1..Size - i : P(i)[k] = B(k + i)
    BY DEF Piece
  <2> QED
    BY <2>3, <2>4
<1>3. P(j) \o y \in Seq(Byte)
  BY <1>2, ConcatProperties
<1>4. ASSUME j = Size PROVE P(j) \o y = y
  <2>1. P(j) \in Seq(Byte) /\ Len(P(j)) = 0
    BY <1>0, <1>2, <1>4
  <2>2. P(j) = <<>>
    BY <2>1, EmptySeq
  <2> QED
    BY <2>2, ConcatEmptySeq
<1>5. ASSUME j # Size
      PROVE  /\ j + 1 \in 0..Size /\ P(j) \o y # <<>> /\ B(j + 1) \in Byte
             /\ Head(P(j) \o y) = B(j + 1) /\ Tail(P(j) \o y) = P(j + 1) \o y
  <2>1. j + 1 \in 0..Size /\ j + 1 \in 1..Size /\ 1 \in 1..Size - j
    BY <1>0, <1>5
  <2> DEFINE q == P(j) \o y
             t == P(j + 1) \o y
  <2>2. /\ P(j) \in Seq(Byte) /\ Len(P(j)) = Size - j
        /\ \A k \in 1..Size - j : P(j)[k] = B(k + j)
    BY <1>2
  <2>3. /\ P(j + 1) \in Seq(Byte) /\ Len(P(j + 1)) = Size - (j + 1)
        /\ \A k \in 1..Size - (j + 1) : P(j + 1)[k] = B(k + (j + 1))
    BY <1>2, <2>1
  <2> HIDE DEF P, B
  <2>4. /\ q \in Seq(Byte) /\ Len(q) = Size - j + Len(y)
        /\ \A k \in 1..Size - j + Len(y) :
             q[k] = IF k <= Size - j THEN P(j)[k] ELSE y[k - (Size - j)]
    <3>1. /\ q \in Seq(Byte) /\ Len(q) = Len(P(j)) + Len(y)
          /\ \A k \in 1..Len(P(j)) + Len(y) :
               q[k] = IF k <= Len(P(j)) THEN P(j)[k] ELSE y[k - Len(P(j))]
      BY <2>2, ConcatProperties
    <3> HIDE DEF q
    <3> QED
      BY <2>2, <3>1
  <2>5. /\ t \in Seq(Byte) /\ Len(t) = Size - (j + 1) + Len(y)
        /\ \A k \in 1..Size - (j + 1) + Len(y) :
             t[k] = IF k <= Size - (j + 1) THEN P(j + 1)[k] ELSE y[k - (Size - (j + 1))]
    <3>1. /\ t \in Seq(Byte) /\ Len(t) = Len(P(j + 1)) + Len(y)
          /\ \A k \in 1..Len(P(j + 1)) + Len(y) :
               t[k] = IF k <= Len(P(j + 1)) THEN P(j + 1)[k] ELSE y[k - Len(P(j + 1))]
      BY <2>3, ConcatProperties
    <3> HIDE DEF t
    <3> QED
      BY <2>3, <3>1
  <2> HIDE DEF q, t
  <2>6. Len(y) \in Nat
    BY LenProperties
  <2>7. q # <<>> /\ q[1] = B(j + 1)
    <3>1. 1 \in 1..Size - j + Len(y) /\ 1 <= Size - j /\ 1 + j = j + 1
      BY <1>0, <1>5, <2>6
    <3>2. q[1] = P(j)[1] /\ P(j)[1] = B(1 + j)
      BY <2>1, <2>2, <2>4, <3>1
    <3>3. Len(q) # 0
      BY <1>0, <2>4, <2>6, <3>1
    <3> QED
      BY <3>1, <3>2, <3>3, EmptySeq
  <2>8. /\ Head(q) = q[1] /\ Tail(q) \in Seq(Byte) /\ Len(Tail(q)) = Len(q) - 1
        /\ \A k \in 1..Len(Tail(q)) : Tail(q)[k] = q[k + 1]
    BY <2>4, <2>7, HeadTailProperties
  <2>9. Len(Tail(q)) = Len(t)
    BY <1>0, <2>4, <2>5, <2>6, <2>8
  <2>10. ASSUME NEW k \in 1..Len(t) PROVE Tail(q)[k] = t[k]
    <3>1. k + 1 \in 1..Size - j + Len(y) /\ k \in 1..Size - (j + 1) + Len(y) /\ k \in Nat
      BY <1>0, <2>5, <2>6
    <3>2. Tail(q)[k] = q[k + 1]
      BY <2>8, <2>9
    <3>3. CASE k <= Size - (j + 1)
      <4>1. k + 1 <= Size - j /\ k + 1 \in 1..Size - j /\ k \in 1..Size - (j + 1)
            /\ (k + 1) + j = k + (j + 1)
        BY <1>0, <3>1, <3>3
      <4>2. q[k + 1] = P(j)[k + 1] /\ t[k] = P(j + 1)[k]
        BY <2>4, <2>5, <3>1, <3>3, <4>1
      <4> QED
        BY <2>2, <2>3, <3>2, <4>1, <4>2
    <3>4. CASE ~(k <= Size - (j + 1))
      <4>1. ~(k + 1 <= Size - j) /\ (k + 1) - (Size - j) = k - (Size - (j + 1))
        BY <1>0, <3>1, <3>4
      <4> QED
        BY <2>4, <2>5, <3>1, <3>2, <3>4, <4>1
    <3> QED
      BY <3>3, <3>4
  <2>11. Tail(q) = t
    BY <2>5, <2>8, <2>9, <2>10, SeqEqual
  <2> QED
    BY <1>1, <2>1, <2>7, <2>8, <2>11 DEF q, t, B, ByteAt
<1>6. ASSUME j # Size PROVE P(j + 1) \o y \in Seq(Byte)
  BY <1>2, <1>5, <1>6, ConcatProperties
<1> QED
  BY <1>2, <1>3, <1>4, <1>5, <1>6 DEF ByteAt, Leads

\* A stream starts with what is left of a text after j bytes of it.
TextAt(rest, part, h, r, j, y) ==
  /\ Source(part, h, r) /\ y \in Seq(Byte) /\ rest = Piece(part, h, r, j) \o y

LEMMA TextRead ==
  ASSUME NEW rest, NEW part, NEW h, NEW r, NEW j \in 0..Size, NEW y,
         TextAt(rest, part, h, r, j, y)
  PROVE  /\ j = Size => rest = y
         /\ j # Size =>
              /\ j + 1 \in 0..Size
              /\ Leads(rest, ByteAt(part, h, r, j + 1), Piece(part, h, r, j + 1) \o y)
BY PieceFacts DEF TextAt

\* What has been read of a text grows at its end.
LEMMA FrontFacts ==
  ASSUME NEW part, NEW h, NEW r, Source(part, h, r), NEW j \in 0..Size
  PROVE  /\ Front(part, h, r, j) \in Seq(Byte) /\ Front(part, h, r, 0) = <<>>
         /\ j # Size =>
              Append(Front(part, h, r, j),
                     [part |-> part, header |-> h, request |-> r, at |-> j + 1])
                = Front(part, h, r, j + 1)
<1> DEFINE F(i) == Front(part, h, r, i)
           B(i) == [part |-> part, header |-> h, request |-> r, at |-> i]
<1>0. Size \in Nat /\ j \in Nat /\ j <= Size
  BY SizeAssumption
<1>1. \A i \in 1..Size : B(i) \in Byte
  BY ByteFacts
<1>2. ASSUME NEW i \in 0..Size
      PROVE  F(i) \in Seq(Byte) /\ Len(F(i)) = i /\ \A k \in 1..i : F(i)[k] = B(k)
  <2>1. i \in Nat /\ \A k \in 1..i : k \in 1..Size
    BY <1>0
  <2>2. F(i) \in [1..i -> Byte]
    BY <1>1, <2>1 DEF Front
  <2>3. F(i) \in Seq(Byte) /\ Len(F(i)) = i
    BY <2>1, <2>2
  <2> QED
    BY <2>3 DEF Front
<1>3. F(0) = <<>>
  <2>1. 0 \in 0..Size
    BY <1>0
  <2>2. F(0) \in Seq(Byte) /\ Len(F(0)) = 0
    BY <1>2, <2>1
  <2> QED
    BY <2>2, EmptySeq
<1>4. ASSUME j # Size PROVE Append(F(j), B(j + 1)) = F(j + 1)
  <2>1. j + 1 \in 0..Size /\ j + 1 \in 1..Size
    BY <1>0, <1>4
  <2>2. F(j) \in Seq(Byte) /\ Len(F(j)) = j /\ \A k \in 1..j : F(j)[k] = B(k)
    BY <1>2
  <2>3. /\ F(j + 1) \in Seq(Byte) /\ Len(F(j + 1)) = j + 1
        /\ \A k \in 1..j + 1 : F(j + 1)[k] = B(k)
    BY <1>2, <2>1
  <2>4. B(j + 1) \in Byte
    BY <1>1, <2>1
  <2> HIDE DEF F, B
  <2> DEFINE a == Append(F(j), B(j + 1))
  <2>5. /\ a \in Seq(Byte) /\ Len(a) = j + 1 /\ a[j + 1] = B(j + 1)
        /\ \A k \in 1..j : a[k] = F(j)[k]
    BY <2>2, <2>4, AppendProperties
  <2> HIDE DEF a
  <2>6. \A k \in 1..j + 1 : a[k] = F(j + 1)[k]
    <3> SUFFICES ASSUME NEW k \in 1..j + 1 PROVE a[k] = F(j + 1)[k]
      OBVIOUS
    <3>1. k = j + 1 \/ k \in 1..j
      BY <1>0
    <3> QED
      BY <2>2, <2>3, <2>5, <3>1
  <2>7. a = F(j + 1)
    BY <2>3, <2>5, <2>6, SeqEqual
  <2> QED
    BY <2>7 DEF a
<1> QED
  BY <1>2, <1>3, <1>4

Lining(F, r, kind) ==
  F = [n \in 0..Headers |->
         IF n = 0 THEN Mark("end") \o IF kind = "POST" THEN Bytes("body", 0, r) ELSE <<>>
         ELSE Bytes("name", Headers + 1 - n, r) \o (Mark("stop")
                \o (Bytes("value", Headers + 1 - n, r) \o (Mark("stop") \o F[n - 1])))]

LEMMA LinesIs ==
  ASSUME NEW r, NEW kind
  PROVE  Lines(r, kind) = CHOOSE F : Lining(F, r, kind)
BY DEF Lines, Lining

\* The lines of a request, from their front on.
LEMMA LinesFacts ==
  ASSUME NEW r \in 0..MaxRequests, NEW kind
  PROVE  /\ \A n \in 0..Headers : Lines(r, kind)[n] \in Seq(Byte)
         /\ Lines(r, kind)[0] =
              Mark("end") \o IF kind = "POST" THEN Bytes("body", 0, r) ELSE <<>>
         /\ \A h \in 1..Headers :
              Lines(r, kind)[Headers - h + 1] =
                Bytes("name", h, r) \o (Mark("stop") \o (Bytes("value", h, r)
                  \o (Mark("stop") \o Lines(r, kind)[Headers - h])))
<1> DEFINE V == Seq(Byte)
           b == Mark("end") \o IF kind = "POST" THEN Bytes("body", 0, r) ELSE <<>>
           Name(i) == Bytes("name", Headers + 1 - i, r)
           Value(i) == Bytes("value", Headers + 1 - i, r)
           stop == Mark("stop")
           st == [i \in 1..Headers |-> [v \in V |-> Name(i) \o (stop \o (Value(i) \o (stop \o v)))]]
           G == Lines(r, kind)
<1>0. Headers \in Nat
  BY SizeAssumption
<1>1. ASSUME NEW i \in 1..Headers PROVE Name(i) \in V /\ Value(i) \in V
  <2>1. Headers + 1 - i \in 0..Headers
    BY <1>0
  <2>2. Source("name", Headers + 1 - i, r) /\ Source("value", Headers + 1 - i, r)
    BY <2>1 DEF Source, Text
  <2> QED
    BY <2>2, ByteFacts
<1>2. stop \in V /\ b \in V
  <2>1. Source("body", 0, r)
    BY <1>0 DEF Source, Text
  <2>2. stop \in V /\ Mark("end") \in V /\ Bytes("body", 0, r) \in V /\ <<>> \in V
    BY <2>1, ByteFacts, EmptySeq
  <2> QED
    BY <2>2, ConcatProperties
<1> HIDE DEF Name, Value, stop, b
<1>3. ASSUME NEW i \in 1..Headers, NEW v \in V
      PROVE  Name(i) \o (stop \o (Value(i) \o (stop \o v))) \in V
  <2>1. stop \o v \in V
    BY <1>2, ConcatProperties
  <2>2. Value(i) \o (stop \o v) \in V
    BY <1>1, <2>1, ConcatProperties
  <2>3. stop \o (Value(i) \o (stop \o v)) \in V
    BY <1>2, <2>2, ConcatProperties
  <2> QED
    BY <1>1, <2>3, ConcatProperties
<1>4. st \in [1..Headers -> [V -> V]]
  BY <1>3
<1>5. \A i \in 1..Headers : \A v \in V : st[i][v] = Name(i) \o (stop \o (Value(i) \o (stop \o v)))
  OBVIOUS
<1> HIDE DEF st, V
<1>6. PICK H \in [0..Headers -> V] : H[0] = b /\ \A k \in 1..Headers : H[k] = st[k][H[k - 1]]
  <2>1. PICK H : Stages(H, V, b, Headers, st)
    BY <1>0, <1>2, <1>4, Recursion
  <2> QED
    BY <2>1 DEF Stages
<1>7. Lining(H, r, kind)
  <2>1. \A k \in 1..Headers : H[k] = Name(k) \o (stop \o (Value(k) \o (stop \o H[k - 1])))
    <3> SUFFICES ASSUME NEW k \in 1..Headers
                 PROVE  H[k] = Name(k) \o (stop \o (Value(k) \o (stop \o H[k - 1])))
      OBVIOUS
    <3>1. H[k - 1] \in V
      <4>1. k - 1 \in 0..Headers
        BY <1>0
      <4> QED
        BY <4>1
    <3> QED
      BY <1>5, <1>6, <3>1
  <2>2. H = [n \in 0..Headers |->
               IF n = 0 THEN b ELSE Name(n) \o (stop \o (Value(n) \o (stop \o H[n - 1])))]
    <3>1. \A n \in 0..Headers : n = 0 \/ n \in 1..Headers
      BY <1>0
    <3>2. H = [n \in 0..Headers |-> H[n]]
      OBVIOUS
    <3> QED
      BY <1>6, <2>1, <3>1, <3>2
  <2> QED
    BY <2>2 DEF Lining, Name, Value, stop, b
<1>8. Lining(G, r, kind)
  BY <1>7, LinesIs
<1>9. G = [n \in 0..Headers |->
             IF n = 0 THEN b ELSE Name(n) \o (stop \o (Value(n) \o (stop \o G[n - 1])))]
  BY <1>8 DEF Lining, Name, Value, stop, b
<1> HIDE DEF G
<1>10. G[0] = b /\ \A k \in 1..Headers : G[k] = Name(k) \o (stop \o (Value(k) \o (stop \o G[k - 1])))
  <2>1. 0 \in 0..Headers /\ \A k \in 1..Headers : k \in 0..Headers /\ k # 0
    BY <1>0
  <2> QED
    BY <1>9, <2>1
<1>11. \A k \in 0..Headers : G[k] \in V
  <2>1. \A k \in 1..Headers : G[k - 1] \in V => G[k] = st[k][G[k - 1]]
    BY <1>5, <1>10
  <2> QED
    BY <1>0, <1>2, <1>4, <1>10, <2>1, RecursionTyped
<1>12. ASSUME NEW h \in 1..Headers
       PROVE  G[Headers - h + 1] =
                Bytes("name", h, r) \o (stop \o (Bytes("value", h, r) \o (stop \o G[Headers - h])))
  <2> DEFINE k == Headers - h + 1
  <2>1. k \in 1..Headers /\ k - 1 = Headers - h /\ Headers + 1 - k = h /\ k - 1 \in 0..Headers
    BY <1>0
  <2> HIDE DEF k
  <2>2. G[k] = Name(k) \o (stop \o (Value(k) \o (stop \o G[k - 1])))
    BY <1>10, <2>1
  <2>3. G[k] = Name(k) \o (stop \o (Value(k) \o (stop \o G[Headers - h])))
    BY <2>1, <2>2
  <2>4. Name(k) = Bytes("name", h, r) /\ Value(k) = Bytes("value", h, r)
    BY <2>1 DEF Name, Value
  <2> QED
    BY <2>3, <2>4 DEF k
<1> QED
  BY <1>10, <1>11, <1>12 DEF G, V, b, stop

LEMMA WrittenFacts ==
  ASSUME NEW r \in 0..MaxRequests, NEW kind
  PROVE  /\ Written(r, kind) \in Seq(Byte)
         /\ Written(r, kind) =
              Piece("url", 0, r, 0) \o (Mark("stop") \o Lines(r, kind)[Headers])
<1>1. Headers \in 0..Headers /\ Source("url", 0, r)
  BY SizeAssumption DEF Source, Text
<1>2. /\ Bytes("url", 0, r) \in Seq(Byte) /\ Mark("stop") \in Seq(Byte)
      /\ Bytes("url", 0, r) = Piece("url", 0, r, 0)
  BY <1>1, ByteFacts
<1>3. Lines(r, kind)[Headers] \in Seq(Byte)
  BY <1>1, LinesFacts
<1>4. Written(r, kind) = Bytes("url", 0, r) \o (Mark("stop") \o Lines(r, kind)[Headers])
  BY DEF Written
<1>5. Mark("stop") \o Lines(r, kind)[Headers] \in Seq(Byte)
  BY <1>2, <1>3, ConcatProperties
<1> QED
  BY <1>2, <1>4, <1>5, ConcatProperties

\* A mark is read in one piece.
LEMMA MarkFacts ==
  ASSUME NEW part \in {"stop", "end"}, NEW y \in Seq(Byte)
  PROVE  /\ Mark(part) \o y \in Seq(Byte)
         /\ Leads(Mark(part) \o y, ByteAt(part, 0, 0, 0), y)
<1> DEFINE b == [part |-> part, header |-> 0, request |-> 0, at |-> 0]
<1>1. b \in Byte
  <2>1. 0 \in 0..Headers /\ 0 \in 0..MaxRequests /\ 0 \in 0..Size
    BY SizeAssumption
  <2> QED
    BY <2>1 DEF Byte
<1>2. Mark(part) = <<b>>
  BY DEF Mark
<1> HIDE DEF b
<1>3. <<b>> \in Seq(Byte) /\ Len(<<b>>) = 1 /\ <<b>>[1] = b
  BY <1>1
<1> DEFINE q == <<b>> \o y
<1>4. /\ q \in Seq(Byte) /\ Len(q) = 1 + Len(y) /\ Len(y) \in Nat
      /\ \A k \in 1..1 + Len(y) : q[k] = IF k <= 1 THEN b ELSE y[k - 1]
  <2>1. /\ q \in Seq(Byte) /\ Len(q) = Len(<<b>>) + Len(y) /\ Len(y) \in Nat
        /\ \A k \in 1..Len(<<b>>) + Len(y) :
             q[k] = IF k <= Len(<<b>>) THEN <<b>>[k] ELSE y[k - Len(<<b>>)]
    BY <1>3, ConcatProperties, LenProperties
  <2> HIDE DEF q
  <2> QED
    BY <1>3, <2>1
<1> HIDE DEF q
<1>5. q # <<>> /\ q[1] = b
  <2>1. 1 \in 1..1 + Len(y) /\ Len(q) # 0
    BY <1>4
  <2> QED
    BY <1>4, <2>1, EmptySeq
<1>6. /\ Tail(q) \in Seq(Byte) /\ Len(Tail(q)) = Len(q) - 1
      /\ \A k \in 1..Len(Tail(q)) : Tail(q)[k] = q[k + 1]
  BY <1>4, <1>5, HeadTailProperties
<1>7. Len(Tail(q)) = Len(y)
  BY <1>4, <1>6
<1>8. \A k \in 1..Len(y) : Tail(q)[k] = y[k]
  <2> SUFFICES ASSUME NEW k \in 1..Len(y) PROVE Tail(q)[k] = y[k]
    OBVIOUS
  <2>1. k + 1 \in 1..1 + Len(y) /\ ~(k + 1 <= 1) /\ (k + 1) - 1 = k
    BY <1>4
  <2> QED
    BY <1>4, <1>6, <1>7, <2>1
<1>9. Tail(q) = y
  BY <1>6, <1>7, <1>8, SeqEqual
<1> QED
  BY <1>1, <1>2, <1>4, <1>5, <1>9 DEF q, b, Leads, ByteAt

-----------------------------------------------------------------------------
(* What a call and a byte change of a codec.                               *)

LEMMA AddHeaderTyped ==
  ASSUME NEW k \in Codec
  PROVE  /\ AddHeader(k) \in Codec
         /\ AddHeader(k) = [k EXCEPT !.headers = AddHeader(k).headers]
<1> DEFINE hs == k.headers \cup {<<k.name, k.value>>}
<1>1. k.name \in Seq(Byte) /\ k.value \in Seq(Byte)
      /\ k.headers \subseteq Seq(Byte) \X Seq(Byte)
  BY DEF Codec
<1>2. hs \in SUBSET (Seq(Byte) \X Seq(Byte))
  BY <1>1
<1>3. AddHeader(k) = k \/ AddHeader(k) = [k EXCEPT !.headers = hs]
  BY DEF AddHeader
<1> HIDE DEF hs
<1> QED
  BY <1>2, <1>3 DEF Codec

LEMMA CallTyped ==
  ASSUME NEW k \in Codec
  PROVE  /\ Call(k) \in Codec /\ Call(k).run = <<>> /\ Call(k).part = k.part
         /\ k.part = "stop" => Call(k) = [k EXCEPT !.run = <<>>]
         /\ k.part = "url" => Call(k) = [k EXCEPT !.url = k.run, !.run = <<>>]
         /\ k.part = "name" => Call(k) = [OnHeaderField(k) EXCEPT !.run = <<>>]
         /\ k.part = "value" => Call(k) = [OnHeaderValue(k) EXCEPT !.run = <<>>]
         /\ k.part = "body" => Call(k) = [k EXCEPT !.body = k.run, !.run = <<>>]
<1>0. <<>> \in Seq(Byte)
  BY EmptySeq
<1>1. CASE k.part = "stop"
  BY <1>0, <1>1 DEF Call, Codec
<1>2. CASE k.part = "url"
  <2>1. Call(k) = [k EXCEPT !.url = k.run, !.run = <<>>]
    BY <1>2 DEF Call, OnUrl, Codec
  <2> QED
    BY <1>0, <1>2, <2>1 DEF Codec
<1>3. CASE k.part = "name"
  <2>1. Call(k) = [OnHeaderField(k) EXCEPT !.run = <<>>]
    BY <1>3 DEF Call
  <2>2. OnHeaderField(k) \in Codec /\ OnHeaderField(k).part = "name"
    <3>1. CASE k.state = "value"
      <4>1. /\ AddHeader(k) \in Codec /\ AddHeader(k).part = "name"
        BY <1>3, AddHeaderTyped DEF Codec
      <4>2. OnHeaderField(k) = [AddHeader(k) EXCEPT !.name = k.run, !.state = "name"]
        BY <3>1, <4>1 DEF OnHeaderField, Codec
      <4>3. k.run \in Seq(Byte)
        BY DEF Codec
      <4> HIDE DEF AddHeader
      <4> QED
        BY <4>1, <4>2, <4>3 DEF Codec
    <3>2. CASE k.state # "value"
      <4>1. OnHeaderField(k) = [k EXCEPT !.name = k.name \o k.run, !.state = "name"]
        BY <3>2 DEF OnHeaderField, Codec
      <4>2. k.name \o k.run \in Seq(Byte)
        BY ConcatProperties DEF Codec
      <4> QED
        BY <1>3, <4>1, <4>2 DEF Codec
    <3> QED
      BY <3>1, <3>2
  <2> QED
    BY <1>0, <1>3, <2>1, <2>2 DEF Codec
<1>4. CASE k.part = "value"
  <2>1. Call(k) = [OnHeaderValue(k) EXCEPT !.run = <<>>]
    BY <1>4 DEF Call
  <2>2. k.value \o k.run \in Seq(Byte) /\ k.run \in Seq(Byte)
    BY ConcatProperties DEF Codec
  <2>3. OnHeaderValue(k) \in Codec /\ OnHeaderValue(k).part = "value"
    BY <1>4, <2>2 DEF OnHeaderValue, Codec
  <2> QED
    BY <1>0, <1>4, <2>1, <2>3 DEF Codec
<1>5. CASE k.part = "body"
  <2>1. Call(k) = [k EXCEPT !.body = k.run, !.run = <<>>]
    BY <1>5 DEF Call, OnBody, Codec
  <2> QED
    BY <1>0, <1>5, <2>1 DEF Codec
<1> QED
  BY <1>1, <1>2, <1>3, <1>4, <1>5 DEF Codec, Text

\* A byte of a text is added to the run, and the first one of a request resets
\* the state.
LEMMA ExecuteText ==
  ASSUME NEW k \in Codec, NEW b \in Byte, b.part \in Text
  PROVE  /\ Execute(k, b) \in Codec
         /\ Execute(k, b) =
              [k EXCEPT !.part = b.part, !.run = Append(k.run, b),
                        !.state = IF b.part = "url" /\ b.at = 1 THEN "begin" ELSE k.state]
<1>1. Append(k.run, b) \in Seq(Byte)
  BY AppendProperties DEF Codec
<1>2. Execute(k, b) =
        [IF b.part = "url" /\ b.at = 1 THEN OnMessageBegin(k) ELSE k
           EXCEPT !.part = b.part, !.run = Append(@, b)]
  BY DEF Execute, Text
<1>3. Execute(k, b) =
        [k EXCEPT !.part = b.part, !.run = Append(k.run, b),
                  !.state = IF b.part = "url" /\ b.at = 1 THEN "begin" ELSE k.state]
  BY <1>2 DEF OnMessageBegin, Codec
<1> QED
  BY <1>1, <1>3 DEF Codec

LEMMA ExecuteMark ==
  ASSUME NEW k \in Codec, NEW b \in Byte
  PROVE  /\ b.part = "stop" => /\ Execute(k, b) = [Call(k) EXCEPT !.part = "stop"]
                               /\ Execute(k, b) \in Codec
         /\ b.part = "end" => Execute(k, b) = AddHeader(k) /\ Execute(k, b) \in Codec
<1>1. Call(k) \in Codec /\ AddHeader(k) \in Codec
  BY CallTyped, AddHeaderTyped
<1>2. b.part = "stop" => Execute(k, b) = [Call(k) EXCEPT !.part = "stop"]
  BY DEF Execute, Text
<1>3. b.part = "end" => Execute(k, b) = AddHeader(k)
  BY DEF Execute, OnHeadersComplete, Text
<1> QED
  BY <1>1, <1>2, <1>3 DEF Codec

LEMMA ExecuteTyped ==
  ASSUME NEW k \in Codec, NEW b \in Byte
  PROVE  Execute(k, b) \in Codec
<1>1. b.part \in Text \/ b.part = "stop" \/ b.part = "end"
  BY DEF Byte
<1> QED
  BY <1>1, ExecuteText, ExecuteMark

-----------------------------------------------------------------------------
(* Headers.                                                                *)

\* Another header has another name.
LEMMA NamesDiffer ==
  ASSUME NEW r \in 0..MaxRequests, NEW g \in 1..Headers, NEW h \in 1..Headers,
         Bytes("name", g, r) = Bytes("name", h, r)
  PROVE  g = h
<1>1. 1 \in 1..Size /\ g \in 0..Headers /\ h \in 0..Headers
  BY SizeAssumption
<1>2. Bytes("name", g, r)[1].header = g /\ Bytes("name", h, r)[1].header = h
  BY <1>1 DEF Bytes
<1> QED
  BY <1>2

LEMMA HeadersToFacts ==
  ASSUME NEW r \in 0..MaxRequests
  PROVE  /\ HeadersTo(r, 0) = {}
         /\ \A h \in 1..Headers :
              /\ HeadersTo(r, h) =
                   HeadersTo(r, h - 1) \cup {<<Bytes("name", h, r), Bytes("value", h, r)>>}
              /\ ~\E p \in HeadersTo(r, h - 1) : p[1] = Bytes("name", h, r)
<1>0. Headers \in Nat
  BY SizeAssumption
<1>1. HeadersTo(r, 0) = {}
  <2>1. 1..0 = {}
    OBVIOUS
  <2> QED
    BY <2>1 DEF HeadersTo
<1>2. ASSUME NEW h \in 1..Headers
      PROVE  HeadersTo(r, h) =
               HeadersTo(r, h - 1) \cup {<<Bytes("name", h, r), Bytes("value", h, r)>>}
  <2>1. 1..h = (1..h - 1) \cup {h}
    BY <1>0
  <2> QED
    BY <2>1 DEF HeadersTo
<1>3. ASSUME NEW h \in 1..Headers, NEW p \in HeadersTo(r, h - 1), p[1] = Bytes("name", h, r)
      PROVE  FALSE
  <2>1. PICK g \in 1..h - 1 : p = <<Bytes("name", g, r), Bytes("value", g, r)>>
    BY DEF HeadersTo
  <2>2. p[1] = Bytes("name", g, r) /\ g \in 1..Headers /\ g # h
    BY <1>0, <2>1
  <2> QED
    BY <1>3, <2>2, NamesDiffer
<1> QED
  BY <1>1, <1>2, <1>3

\* At the end of a header, the one that is complete goes to the map.
LEMMA LineAdded ==
  ASSUME NEW k \in Codec, NEW r \in 0..MaxRequests, NEW h \in 1..Headers,
         LineStart(k, r, h + 1)
  PROVE  AddHeader(k).headers = HeadersTo(r, h)
<1>1. h + 1 # 1 /\ (h + 1) - 2 = h - 1 /\ (h + 1) - 1 = h
  BY SizeAssumption
<1>2. /\ k.headers = HeadersTo(r, h - 1)
      /\ k.name = Bytes("name", h, r) /\ k.value = Bytes("value", h, r)
  BY <1>1 DEF LineStart
<1>3. ~\E p \in k.headers : p[1] = k.name
  BY <1>2, HeadersToFacts
<1>4. AddHeader(k).headers = k.headers \cup {<<k.name, k.value>>}
  BY <1>3 DEF AddHeader, Codec
<1> QED
  BY <1>2, <1>4, HeadersToFacts

-----------------------------------------------------------------------------
(* A call moves nothing in the text of a request.                          *)

LEMMA AppendLast ==
  ASSUME NEW S, NEW a \in Seq(S), NEW b \in Seq(S), NEW e \in S
  PROVE  a \o Append(b, e) = Append(a \o b, e)
<1>1. a \o b \in Seq(S) /\ <<e>> \in Seq(S)
  BY ConcatProperties
<1>2. Append(b, e) = b \o <<e>> /\ Append(a \o b, e) = (a \o b) \o <<e>>
  BY <1>1, AppendIsConcat
<1>3. \A f \in Seq(S) : (a \o b) \o f = a \o (b \o f)
  <2> TAKE f \in Seq(S)
  <2> QED
    BY ConcatAssociative
<1> QED
  BY <1>1, <1>2, <1>3

LEMMA BytesAppendLast ==
  ASSUME NEW a \in Seq(Byte), NEW b \in Seq(Byte), NEW e \in Byte
  PROVE  a \o Append(b, e) = Append(a \o b, e)
BY AppendLast

\* After a call in a name, the codec has what was read of it.
LEMMA NameCall ==
  ASSUME NEW k \in Codec, NEW rest, NEW r \in 0..MaxRequests, NEW kind,
         NEW h \in 1..Headers, NEW j \in 1..Size, InName(k, rest, r, kind, h, j)
  PROVE  /\ Call(k).state = "name" /\ Call(k).headers = HeadersTo(r, h - 1)
         /\ Call(k).name = Front("name", h, r, j) /\ Call(k).url = k.url
<1>0. h \in Nat /\ h # 0 /\ Headers \in Nat /\ j # 0 /\ j \in 0..Size /\ Size \in Nat
  BY SizeAssumption
<1>1. k.part = "name"
  BY <1>0 DEF InName, Position
<1>2. Call(k) = [OnHeaderField(k) EXCEPT !.run = <<>>]
  BY <1>1, CallTyped
<1>3. Front("name", h, r, j) \in Seq(Byte)
  <2>1. Source("name", h, r)
    BY <1>0 DEF Source, Text
  <2> QED
    BY <1>0, <2>1, FrontFacts
<1>4. CASE LineStart(k, r, h) /\ k.run = Front("name", h, r, j) /\ h = 1
  <2>1. k.state = "begin" /\ k.headers = {} /\ k.name = <<>>
    BY <1>4 DEF LineStart
  <2>2. OnHeaderField(k) = [k EXCEPT !.name = k.name \o k.run, !.state = "name"]
    BY <2>1 DEF OnHeaderField, Codec
  <2>3. k.name \o k.run = k.run
    BY <1>3, <1>4, <2>1, ConcatEmptySeq
  <2>4. HeadersTo(r, h - 1) = {}
    BY <1>4, HeadersToFacts
  <2> QED
    BY <1>2, <1>4, <2>1, <2>2, <2>3, <2>4 DEF Codec
<1>5. CASE LineStart(k, r, h) /\ k.run = Front("name", h, r, j) /\ h # 1
  <2>1. k.state = "value"
    BY <1>5 DEF LineStart
  <2>2. AddHeader(k).headers = HeadersTo(r, h - 1)
    <3>1. h - 1 \in 1..Headers /\ (h - 1) + 1 = h
      BY <1>0, <1>5
    <3>2. LineStart(k, r, (h - 1) + 1)
      BY <1>5, <3>1
    <3> QED
      BY <3>1, <3>2, LineAdded
  <2>3. OnHeaderField(k) = [AddHeader(k) EXCEPT !.name = k.run, !.state = "name"]
    BY <2>1, AddHeaderTyped DEF OnHeaderField, Codec
  <2>4. AddHeader(k) = [k EXCEPT !.headers = HeadersTo(r, h - 1)]
    BY <2>2, AddHeaderTyped
  <2> QED
    BY <1>2, <1>5, <2>3, <2>4 DEF Codec
<1>6. CASE k.state = "name" /\ k.headers = HeadersTo(r, h - 1)
           /\ k.name \o k.run = Front("name", h, r, j)
  <2>1. OnHeaderField(k) = [k EXCEPT !.name = k.name \o k.run, !.state = "name"]
    BY <1>6 DEF OnHeaderField, Codec
  <2> QED
    BY <1>2, <1>6, <2>1 DEF Codec
<1> QED
  BY <1>4, <1>5, <1>6 DEF InName

LEMMA ValueCall ==
  ASSUME NEW k \in Codec, NEW rest, NEW r, NEW kind,
         NEW h \in 1..Headers, NEW j \in 1..Size, InValue(k, rest, r, kind, h, j)
  PROVE  /\ Call(k).state = "value" /\ Call(k).headers = HeadersTo(r, h - 1)
         /\ Call(k).name = Bytes("name", h, r) /\ Call(k).value = Front("value", h, r, j)
         /\ Call(k).url = k.url
<1>1. k.part = "value"
  BY SizeAssumption DEF InValue, Position
<1>2. Call(k) = [OnHeaderValue(k) EXCEPT !.run = <<>>]
  BY <1>1, CallTyped
<1>3. k.name = Bytes("name", h, r) /\ k.headers = HeadersTo(r, h - 1)
  BY DEF InValue
<1>4. CASE k.state = "name" /\ k.run = Front("value", h, r, j)
  <2>1. OnHeaderValue(k) = [k EXCEPT !.value = k.run, !.state = "value"]
    BY <1>4 DEF OnHeaderValue, Codec
  <2> QED
    BY <1>2, <1>3, <1>4, <2>1 DEF Codec
<1>5. CASE k.state = "value" /\ k.value \o k.run = Front("value", h, r, j)
  <2>1. OnHeaderValue(k) = [k EXCEPT !.value = k.value \o k.run, !.state = "value"]
    BY <1>5 DEF OnHeaderValue, Codec
  <2> QED
    BY <1>2, <1>3, <1>5, <2>1 DEF Codec
<1> QED
  BY <1>4, <1>5 DEF InValue

\* At the end of a read the codec is where it was; of a URL and of a body it
\* may have a piece.
LEMMA CallPhase ==
  ASSUME NEW k, NEW rest, NEW r \in 0..MaxRequests, NEW kind, NEW cut \in BOOLEAN,
         Phase(k, rest, r, kind, cut)
  PROVE  Phase(Call(k), rest, r, kind, cut \/ Call(k).part \in {"url", "body"})
<1> DEFINE q == Call(k)
           cut2 == cut \/ q.part \in {"url", "body"}
<1>0. k \in Codec /\ rest \in Seq(Byte) /\ Size \in Nat /\ 0 \in 0..Size
  BY SizeAssumption DEF Phase
<1>1. /\ q \in Codec /\ q.run = <<>> /\ q.part = k.part
      /\ k.part = "stop" => q = [k EXCEPT !.run = <<>>]
      /\ k.part = "url" => q = [k EXCEPT !.url = k.run, !.run = <<>>]
      /\ k.part = "body" => q = [k EXCEPT !.body = k.run, !.run = <<>>]
  BY <1>0, CallTyped
<1>2. k.run = <<>> /\ k.part = "stop" => q = k
  BY <1>0, <1>1 DEF Codec
<1> HIDE DEF q
<1>3. ASSUME NEW j \in 0..Size, InUrl(k, rest, r, kind, cut, j)
      PROVE  InUrl(q, rest, r, kind, cut2, j)
  <2>1. CASE j = 0
    <3>1. q = k
      BY <1>2, <1>3, <2>1 DEF InUrl, Position
    <3> QED
      BY <1>3, <3>1 DEF InUrl
  <2>2. CASE j # 0
    <3>1. k.part = "url"
      BY <1>3, <2>2 DEF InUrl, Position
    <3>2. q = [k EXCEPT !.url = k.run, !.run = <<>>] /\ cut2
      BY <1>1, <3>1
    <3>3. q.part = k.part /\ q.headers = k.headers /\ q.name = k.name /\ q.state = k.state
      BY <1>0, <3>2 DEF Codec
    <3> QED
      BY <1>3, <2>2, <3>2, <3>3 DEF InUrl
  <2> QED
    BY <2>1, <2>2
<1>4. ASSUME NEW h \in 1..Headers, NEW j \in 0..Size, InName(k, rest, r, kind, h, j)
      PROVE  InName(q, rest, r, kind, h, j) /\ q.url = k.url /\ cut2 = cut
  <2>0. Source("name", h, r)
    BY SizeAssumption DEF Source, Text
  <2>1. Front("name", h, r, j) \in Seq(Byte) /\ Front("name", h, r, 0) = <<>>
    BY <2>0, FrontFacts
  <2>2. CASE j = 0
    <3>1. k.run = <<>> /\ k.part = "stop"
      BY <1>4, <2>1, <2>2 DEF InName, Position
    <3>2. q = k
      BY <1>2, <3>1
    <3> QED
      BY <1>4, <3>1, <3>2
  <2>3. CASE j # 0
    <3>1. j \in 1..Size /\ k.part = "name"
      BY <1>0, <1>4, <2>3 DEF InName, Position
    <3>2. /\ q.state = "name" /\ q.headers = HeadersTo(r, h - 1)
          /\ q.name = Front("name", h, r, j) /\ q.url = k.url
      BY <1>0, <1>4, <3>1, NameCall DEF q
    <3>3. q.name \o q.run = Front("name", h, r, j)
      BY <1>1, <2>1, <3>2, ConcatEmptySeq
    <3> QED
      BY <1>1, <1>4, <2>3, <3>1, <3>2, <3>3 DEF InName
  <2> QED
    BY <2>2, <2>3
<1>5. ASSUME NEW h \in 1..Headers, NEW j \in 0..Size, InValue(k, rest, r, kind, h, j)
      PROVE  InValue(q, rest, r, kind, h, j) /\ q.url = k.url /\ cut2 = cut
  <2>0. Source("value", h, r)
    BY SizeAssumption DEF Source, Text
  <2>1. Front("value", h, r, j) \in Seq(Byte) /\ Front("value", h, r, 0) = <<>>
    BY <2>0, FrontFacts
  <2>2. CASE j = 0
    <3>1. k.run = <<>> /\ k.part = "stop"
      BY <1>5, <2>1, <2>2 DEF InValue, Position
    <3>2. q = k
      BY <1>2, <3>1
    <3> QED
      BY <1>5, <3>1, <3>2
  <2>3. CASE j # 0
    <3>1. j \in 1..Size /\ k.part = "value"
      BY <1>0, <1>5, <2>3 DEF InValue, Position
    <3>2. /\ q.state = "value" /\ q.headers = HeadersTo(r, h - 1)
          /\ q.name = Bytes("name", h, r) /\ q.value = Front("value", h, r, j)
          /\ q.url = k.url
      BY <1>0, <1>5, <3>1, ValueCall DEF q
    <3>3. q.value \o q.run = Front("value", h, r, j)
      BY <1>1, <2>1, <3>2, ConcatEmptySeq
    <3> QED
      BY <1>1, <1>5, <2>3, <3>1, <3>2, <3>3 DEF InValue
  <2> QED
    BY <2>2, <2>3
<1>6. ASSUME AtEnd(k, rest, r, kind) PROVE q = k /\ cut2 = cut
  BY <1>1, <1>2, <1>6 DEF AtEnd
<1>7. ASSUME NEW j \in 0..Size, InBody(k, rest, r, kind, cut, j)
      PROVE  InBody(q, rest, r, kind, cut2, j) /\ q.url = k.url /\ (~cut2 => ~cut)
  <2>1. CASE j = 0
    <3>1. q = k
      BY <1>2, <1>7, <2>1 DEF InBody, Position
    <3> QED
      BY <1>7, <3>1 DEF InBody
  <2>2. CASE j # 0
    <3>1. k.part = "body"
      BY <1>7, <2>2 DEF InBody, Position
    <3>2. q = [k EXCEPT !.body = k.run, !.run = <<>>] /\ cut2
      BY <1>1, <3>1
    <3>3. q.part = k.part /\ q.headers = k.headers /\ q.url = k.url
      BY <1>0, <3>2 DEF Codec
    <3> QED
      BY <1>7, <2>2, <3>2, <3>3 DEF InBody
  <2> QED
    BY <2>1, <2>2
<1> HIDE DEF cut2
<1> SUFFICES Phase(q, rest, r, kind, cut2)
  BY DEF q, cut2
<1>8. CASE \E j \in 0..Size : InUrl(k, rest, r, kind, cut, j)
  BY <1>0, <1>1, <1>3, <1>8 DEF Phase
<1>9. CASE /\ ~cut => k.url = Bytes("url", 0, r)
           /\ \E h \in 1..Headers, j \in 0..Size :
                InName(k, rest, r, kind, h, j) \/ InValue(k, rest, r, kind, h, j)
  BY <1>0, <1>1, <1>4, <1>5, <1>9 DEF Phase
<1>10. CASE (~cut => k.url = Bytes("url", 0, r)) /\ AtEnd(k, rest, r, kind)
  BY <1>0, <1>1, <1>6, <1>10 DEF Phase
<1>11. CASE /\ ~cut => k.url = Bytes("url", 0, r)
            /\ \E j \in 0..Size : InBody(k, rest, r, kind, cut, j)
  BY <1>0, <1>1, <1>7, <1>11 DEF Phase
<1> QED
  BY <1>8, <1>9, <1>10, <1>11 DEF Phase

-----------------------------------------------------------------------------
(* A byte takes a codec one step through the text of a request.            *)

LEMMA ExecuteUrl ==
  ASSUME NEW k \in Codec, NEW rest, NEW r \in 0..MaxRequests, NEW kind,
         NEW cut \in BOOLEAN, NEW j \in 0..Size, InUrl(k, rest, r, kind, cut, j)
  PROVE  \E b, t : Leads(rest, b, t) /\ Phase(Execute(k, b), t, r, kind, cut)
<1> DEFINE tail == Lines(r, kind)[Headers]
           y == Mark("stop") \o tail
           b == ByteAt("url", 0, r, j + 1)
           t == Piece("url", 0, r, j + 1) \o y
           stop == ByteAt("stop", 0, 0, 0)
<1>0. Size \in Nat \ {0} /\ Headers \in Nat \ {0} /\ 0 \in 0..Size /\ 0 \in 0..Headers
      /\ Headers \in 0..Headers /\ j \in Nat
  BY SizeAssumption
<1>1. Source("url", 0, r)
  BY <1>0 DEF Source, Text
<1>2. tail \in Seq(Byte)
  BY <1>0, LinesFacts
<1> HIDE DEF tail
<1>3. y \in Seq(Byte) /\ Leads(y, stop, tail) /\ stop \in Byte /\ stop.part = "stop"
  BY <1>2, MarkFacts DEF Leads, ByteAt
<1> HIDE DEF y
<1>4. TextAt(rest, "url", 0, r, j, y)
  BY <1>1, <1>3 DEF TextAt, InUrl, y, tail
<1>5. CASE j # Size
  <2>1. j + 1 \in 0..Size /\ Leads(rest, b, t)
    BY <1>4, <1>5, TextRead
  <2>2. b \in Byte /\ t \in Seq(Byte)
    BY <2>1 DEF Leads
  <2> DEFINE q == Execute(k, b)
  <2>3. /\ q \in Codec
        /\ q = [k EXCEPT !.part = "url", !.run = Append(k.run, b),
                         !.state = IF j + 1 = 1 THEN "begin" ELSE k.state]
    BY <2>2, ExecuteText DEF Text, ByteAt
  <2> HIDE DEF q
  <2>4. q.part = "url" /\ q.headers = {} /\ q.name = <<>> /\ q.state = "begin"
        /\ q.run = Append(k.run, b)
    <3>1. k.headers = {} /\ k.name = <<>> /\ (j # 0 => k.state = "begin")
      BY DEF InUrl
    <3>2. j = 0 <=> j + 1 = 1
      BY <1>0
    <3> QED
      BY <2>3, <3>1, <3>2 DEF Codec
  <2>5. ~cut => q.run = Front("url", 0, r, j + 1)
    BY <1>1, <1>5, <2>4, FrontFacts DEF ByteAt, InUrl
  <2>6. j + 1 # 0
    BY <1>0
  <2>7. InUrl(q, t, r, kind, cut, j + 1)
    BY <2>1, <2>4, <2>5, <2>6 DEF InUrl, Position, y, tail
  <2>8. Phase(q, t, r, kind, cut)
    BY <2>1, <2>2, <2>3, <2>7 DEF Phase
  <2> QED
    BY <2>1, <2>8 DEF q
<1>6. CASE j = Size
  <2> DEFINE q == Execute(k, stop)
  <2>1. rest = y
    BY <1>4, <1>6, TextRead
  <2>2. k.part = "url" /\ k.state = "begin" /\ k.headers = {} /\ k.name = <<>>
    BY <1>0, <1>6 DEF InUrl, Position
  <2>3. q = [Call(k) EXCEPT !.part = "stop"] /\ q \in Codec
    BY <1>3, <2>1, ExecuteMark
  <2>4. Call(k) = [k EXCEPT !.url = k.run, !.run = <<>>]
    BY <2>2, CallTyped
  <2> HIDE DEF q
  <2>5. /\ q.part = "stop" /\ q.state = "begin" /\ q.headers = {} /\ q.name = <<>>
        /\ q.run = <<>> /\ q.url = k.run
    BY <2>2, <2>3, <2>4 DEF Codec
  <2>6. ~cut => q.url = Bytes("url", 0, r)
    BY <1>1, <1>6, <2>5, ByteFacts DEF InUrl
  <2>7. 1 \in 1..Headers /\ Headers - 1 + 1 = Headers /\ Source("name", 1, r)
    BY <1>0 DEF Source, Text
  <2>8. tail = Piece("name", 1, r, 0) \o (Mark("stop") \o (Bytes("value", 1, r)
                 \o (Mark("stop") \o Lines(r, kind)[Headers - 1])))
    <3>1. Bytes("name", 1, r) = Piece("name", 1, r, 0)
      BY <2>7, ByteFacts
    <3>2. Lines(r, kind)[Headers - 1 + 1] =
            Bytes("name", 1, r) \o (Mark("stop") \o (Bytes("value", 1, r)
              \o (Mark("stop") \o Lines(r, kind)[Headers - 1])))
      BY <2>7, LinesFacts
    <3> QED
      BY <2>7, <3>1, <3>2 DEF tail
  <2>9. InName(q, tail, r, kind, 1, 0)
    BY <2>5, <2>7, <2>8, <1>0, FrontFacts DEF InName, Position, LineStart
  <2>10. Phase(q, tail, r, kind, cut)
    BY <1>0, <1>2, <2>3, <2>6, <2>7, <2>9 DEF Phase
  <2> QED
    BY <1>3, <2>1, <2>10 DEF q
<1> QED
  BY <1>5, <1>6

LEMMA ExecuteName ==
  ASSUME NEW k \in Codec, NEW rest, NEW r \in 0..MaxRequests, NEW kind,
         NEW cut \in BOOLEAN, ~cut => k.url = Bytes("url", 0, r),
         NEW h \in 1..Headers, NEW j \in 0..Size, InName(k, rest, r, kind, h, j)
  PROVE  \E b, t : Leads(rest, b, t) /\ Phase(Execute(k, b), t, r, kind, cut)
<1> DEFINE last == Mark("stop") \o Lines(r, kind)[Headers - h]
           tail == Bytes("value", h, r) \o last
           y == Mark("stop") \o tail
           b == ByteAt("name", h, r, j + 1)
           t == Piece("name", h, r, j + 1) \o y
           stop == ByteAt("stop", 0, 0, 0)
<1>0. Size \in Nat \ {0} /\ Headers \in Nat \ {0} /\ 0 \in 0..Size /\ h \in 0..Headers
      /\ Headers - h \in 0..Headers /\ j \in Nat
  BY SizeAssumption
<1>1. Source("name", h, r) /\ Source("value", h, r)
  BY <1>0 DEF Source, Text
<1>2. Lines(r, kind)[Headers - h] \in Seq(Byte) /\ Bytes("value", h, r) \in Seq(Byte)
      /\ Bytes("value", h, r) = Piece("value", h, r, 0)
  BY <1>0, <1>1, LinesFacts, ByteFacts
<1>3. last \in Seq(Byte)
  BY <1>2, MarkFacts DEF Leads, ByteAt
<1>4. tail \in Seq(Byte)
  BY <1>2, <1>3, ConcatProperties
<1> HIDE DEF tail, last
<1>5. y \in Seq(Byte) /\ Leads(y, stop, tail) /\ stop \in Byte /\ stop.part = "stop"
  BY <1>4, MarkFacts DEF Leads, ByteAt
<1> HIDE DEF y
<1>6. TextAt(rest, "name", h, r, j, y)
  BY <1>1, <1>5 DEF TextAt, InName, y, tail, last
<1>7. CASE j # Size
  <2>1. j + 1 \in 0..Size /\ Leads(rest, b, t)
    BY <1>6, <1>7, TextRead
  <2>2. b \in Byte /\ t \in Seq(Byte)
    BY <2>1 DEF Leads
  <2> DEFINE q == Execute(k, b)
  <2>3. /\ q \in Codec
        /\ q = [k EXCEPT !.part = "name", !.run = Append(k.run, b), !.state = k.state]
    BY <2>2, ExecuteText DEF Text, ByteAt
  <2> HIDE DEF q
  <2>4. /\ q.part = "name" /\ q.headers = k.headers /\ q.name = k.name /\ q.state = k.state
        /\ q.run = Append(k.run, b) /\ q.url = k.url /\ q.value = k.value
    BY <2>3 DEF Codec
  <2>5. Append(Front("name", h, r, j), b) = Front("name", h, r, j + 1)
    BY <1>1, <1>7, FrontFacts DEF ByteAt
  <2>6. k.name \o Append(k.run, b) = Append(k.name \o k.run, b)
    <3>1. k.name \in Seq(Byte) /\ k.run \in Seq(Byte)
      BY DEF Codec
    <3> QED
      BY <2>2, <3>1, BytesAppendLast
  <2>7. j + 1 # 0
    BY <1>0
  <2>8. \/ LineStart(q, r, h) /\ q.run = Front("name", h, r, j + 1)
        \/ /\ q.state = "name" /\ q.headers = HeadersTo(r, h - 1)
           /\ q.name \o q.run = Front("name", h, r, j + 1)
    <3>1. CASE LineStart(k, r, h) /\ k.run = Front("name", h, r, j)
      BY <2>4, <2>5, <3>1 DEF LineStart
    <3>2. CASE /\ k.state = "name" /\ k.headers = HeadersTo(r, h - 1)
               /\ k.name \o k.run = Front("name", h, r, j)
      BY <2>4, <2>5, <2>6, <3>2
    <3> QED
      BY <3>1, <3>2 DEF InName
  <2>9. InName(q, t, r, kind, h, j + 1)
    BY <2>1, <2>4, <2>7, <2>8 DEF InName, Position, y, tail, last
  <2>10. Phase(q, t, r, kind, cut)
    BY <2>1, <2>2, <2>3, <2>4, <2>9 DEF Phase
  <2> QED
    BY <2>1, <2>10 DEF q
<1>8. CASE j = Size
  <2> DEFINE q == Execute(k, stop)
  <2>1. rest = y
    BY <1>6, <1>8, TextRead
  <2>2. /\ Call(k).state = "name" /\ Call(k).headers = HeadersTo(r, h - 1)
        /\ Call(k).name = Front("name", h, r, j) /\ Call(k).url = k.url
        /\ Call(k) \in Codec /\ Call(k).run = <<>>
    <3>1. j \in 1..Size
      BY <1>0, <1>8
    <3>2. Call(k) \in Codec /\ Call(k).run = <<>>
      BY CallTyped
    <3> QED
      BY <3>1, <3>2, NameCall
  <2>3. q = [Call(k) EXCEPT !.part = "stop"] /\ q \in Codec
    BY <1>5, <2>1, ExecuteMark
  <2> HIDE DEF q
  <2>4. /\ q.part = "stop" /\ q.state = "name" /\ q.headers = HeadersTo(r, h - 1)
        /\ q.name = Front("name", h, r, j) /\ q.url = k.url /\ q.run = <<>>
    BY <2>2, <2>3 DEF Codec
  <2>5. q.name = Bytes("name", h, r)
    BY <1>1, <1>8, <2>4, ByteFacts
  <2>6. Front("value", h, r, 0) = <<>>
    BY <1>0, <1>1, FrontFacts
  <2>7. InValue(q, tail, r, kind, h, 0)
    BY <1>2, <2>4, <2>5, <2>6 DEF InValue, Position, tail, last
  <2>8. Phase(q, tail, r, kind, cut)
    BY <1>0, <1>4, <2>3, <2>4, <2>7 DEF Phase
  <2> QED
    BY <1>5, <2>1, <2>8 DEF q
<1> QED
  BY <1>7, <1>8

LEMMA ExecuteValue ==
  ASSUME NEW k \in Codec, NEW rest, NEW r \in 0..MaxRequests, NEW kind,
         NEW cut \in BOOLEAN, ~cut => k.url = Bytes("url", 0, r),
         NEW h \in 1..Headers, NEW j \in 0..Size, InValue(k, rest, r, kind, h, j)
  PROVE  \E b, t : Leads(rest, b, t) /\ Phase(Execute(k, b), t, r, kind, cut)
<1> DEFINE tail == Lines(r, kind)[Headers - h]
           y == Mark("stop") \o tail
           b == ByteAt("value", h, r, j + 1)
           t == Piece("value", h, r, j + 1) \o y
           stop == ByteAt("stop", 0, 0, 0)
<1>0. Size \in Nat \ {0} /\ Headers \in Nat \ {0} /\ 0 \in 0..Size /\ h \in 0..Headers
      /\ Headers - h \in 0..Headers /\ j \in Nat /\ h \in Nat
  BY SizeAssumption
<1>1. Source("value", h, r)
  BY <1>0 DEF Source, Text
<1>2. tail \in Seq(Byte)
  BY <1>0, LinesFacts
<1> HIDE DEF tail
<1>3. y \in Seq(Byte) /\ Leads(y, stop, tail) /\ stop \in Byte /\ stop.part = "stop"
  BY <1>2, MarkFacts DEF Leads, ByteAt
<1> HIDE DEF y
<1>4. TextAt(rest, "value", h, r, j, y)
  BY <1>1, <1>3 DEF TextAt, InValue, y, tail
<1>5. k.name = Bytes("name", h, r) /\ k.headers = HeadersTo(r, h - 1)
  BY DEF InValue
<1>7. CASE j # Size
  <2>1. j + 1 \in 0..Size /\ Leads(rest, b, t)
    BY <1>4, <1>7, TextRead
  <2>2. b \in Byte /\ t \in Seq(Byte)
    BY <2>1 DEF Leads
  <2> DEFINE q == Execute(k, b)
  <2>3. /\ q \in Codec
        /\ q = [k EXCEPT !.part = "value", !.run = Append(k.run, b), !.state = k.state]
    BY <2>2, ExecuteText DEF Text, ByteAt
  <2> HIDE DEF q
  <2>4. /\ q.part = "value" /\ q.headers = k.headers /\ q.name = k.name /\ q.state = k.state
        /\ q.run = Append(k.run, b) /\ q.url = k.url /\ q.value = k.value
    BY <2>3 DEF Codec
  <2>5. Append(Front("value", h, r, j), b) = Front("value", h, r, j + 1)
    BY <1>1, <1>7, FrontFacts DEF ByteAt
  <2>6. k.value \o Append(k.run, b) = Append(k.value \o k.run, b)
    <3>1. k.value \in Seq(Byte) /\ k.run \in Seq(Byte)
      BY DEF Codec
    <3> QED
      BY <2>2, <3>1, BytesAppendLast
  <2>7. j + 1 # 0
    BY <1>0
  <2>8. \/ q.state = "name" /\ q.run = Front("value", h, r, j + 1)
        \/ q.state = "value" /\ q.value \o q.run = Front("value", h, r, j + 1)
    BY <2>4, <2>5, <2>6 DEF InValue
  <2>9. InValue(q, t, r, kind, h, j + 1)
    BY <1>5, <2>1, <2>4, <2>7, <2>8 DEF InValue, Position, y, tail
  <2>10. Phase(q, t, r, kind, cut)
    BY <2>1, <2>2, <2>3, <2>4, <2>9 DEF Phase
  <2> QED
    BY <2>1, <2>10 DEF q
<1>8. CASE j = Size
  <2> DEFINE q == Execute(k, stop)
  <2>1. rest = y
    BY <1>4, <1>8, TextRead
  <2>2. /\ Call(k).state = "value" /\ Call(k).headers = HeadersTo(r, h - 1)
        /\ Call(k).name = Bytes("name", h, r) /\ Call(k).value = Front("value", h, r, j)
        /\ Call(k).url = k.url /\ Call(k) \in Codec /\ Call(k).run = <<>>
    <3>1. j \in 1..Size
      BY <1>0, <1>8
    <3>2. Call(k) \in Codec /\ Call(k).run = <<>>
      BY CallTyped
    <3> QED
      BY <3>1, <3>2, ValueCall
  <2>3. q = [Call(k) EXCEPT !.part = "stop"] /\ q \in Codec
    BY <1>3, <2>1, ExecuteMark
  <2> HIDE DEF q
  <2>4. /\ q.part = "stop" /\ q.state = "value" /\ q.headers = HeadersTo(r, h - 1)
        /\ q.name = Bytes("name", h, r) /\ q.value = Front("value", h, r, j)
        /\ q.url = k.url /\ q.run = <<>>
    BY <2>2, <2>3 DEF Codec
  <2>5. q.value = Bytes("value", h, r)
    BY <1>1, <1>8, <2>4, ByteFacts
  <2>6. LineStart(q, r, h + 1)
    <3>1. h + 1 # 1 /\ (h + 1) - 2 = h - 1 /\ (h + 1) - 1 = h
      BY <1>0
    <3> QED
      BY <2>4, <2>5, <3>1 DEF LineStart
  <2>7. CASE h = Headers
    <3>1. AtEnd(q, tail, r, kind)
      <4>1. Headers - h = 0
        BY <1>0, <2>7
      <4> QED
        BY <2>4, <2>6, <2>7, <4>1 DEF AtEnd, tail
    <3>2. Phase(q, tail, r, kind, cut)
      BY <1>2, <2>3, <2>4, <3>1 DEF Phase
    <3> QED
      BY <1>3, <2>1, <3>2 DEF q
  <2>8. CASE h # Headers
    <3>1. h + 1 \in 1..Headers /\ Headers - (h + 1) + 1 = Headers - h
          /\ Source("name", h + 1, r)
      BY <1>0, <2>8 DEF Source, Text
    <3>2. tail = Piece("name", h + 1, r, 0) \o (Mark("stop") \o (Bytes("value", h + 1, r)
                   \o (Mark("stop") \o Lines(r, kind)[Headers - (h + 1)])))
      <4>1. Bytes("name", h + 1, r) = Piece("name", h + 1, r, 0)
        BY <3>1, ByteFacts
      <4>2. Lines(r, kind)[Headers - (h + 1) + 1] =
              Bytes("name", h + 1, r) \o (Mark("stop") \o (Bytes("value", h + 1, r)
                \o (Mark("stop") \o Lines(r, kind)[Headers - (h + 1)])))
        BY <3>1, LinesFacts
      <4> QED
        BY <3>1, <4>1, <4>2 DEF tail
    <3>3. Front("name", h + 1, r, 0) = <<>>
      BY <1>0, <3>1, FrontFacts
    <3>4. InName(q, tail, r, kind, h + 1, 0)
      BY <2>4, <2>6, <3>2, <3>3 DEF InName, Position
    <3>5. Phase(q, tail, r, kind, cut)
      BY <1>0, <1>2, <2>3, <2>4, <3>1, <3>4 DEF Phase
    <3> QED
      BY <1>3, <2>1, <3>5 DEF q
  <2> QED
    BY <2>7, <2>8
<1> QED
  BY <1>7, <1>8

LEMMA ExecuteEnd ==
  ASSUME NEW k \in Codec, NEW rest, NEW r \in 0..MaxRequests, NEW kind,
         NEW cut \in BOOLEAN, ~cut => k.url = Bytes("url", 0, r), AtEnd(k, rest, r, kind)
  PROVE  \E b, t : Leads(rest, b, t) /\ Phase(Execute(k, b), t, r, kind, cut)
<1> DEFINE b == ByteAt("end", 0, 0, 0)
           t == IF kind = "POST" THEN Bytes("body", 0, r) ELSE <<>>
           q == Execute(k, b)
<1>0. Size \in Nat /\ 0 \in 0..Size /\ Headers \in Nat \ {0} /\ Headers \in 1..Headers
      /\ 0 \in 0..Headers
  BY SizeAssumption
<1>1. Source("body", 0, r)
  BY <1>0 DEF Source, Text
<1>2. t \in Seq(Byte)
  BY <1>1, ByteFacts, EmptySeq
<1>3. rest = Mark("end") \o t
  BY <1>0, LinesFacts DEF AtEnd
<1> HIDE DEF t
<1>4. Leads(rest, b, t) /\ b \in Byte
  BY <1>2, <1>3, MarkFacts DEF Leads
<1>5. q = AddHeader(k) /\ q \in Codec
  BY <1>4, ExecuteMark DEF ByteAt
<1> HIDE DEF q
<1>6. q.headers = HeadersTo(r, Headers)
  BY <1>0, <1>5, LineAdded DEF AtEnd
<1>7. q.part = "stop" /\ q.run = <<>> /\ q.url = k.url
  <2>1. q = [k EXCEPT !.headers = q.headers]
    BY <1>5, AddHeaderTyped
  <2>2. q.part = k.part /\ q.run = k.run /\ q.url = k.url
    BY <2>1 DEF Codec
  <2> QED
    BY <2>2 DEF AtEnd
<1>8. t = IF kind = "POST" THEN Piece("body", 0, r, 0) ELSE <<>>
  BY <1>1, ByteFacts DEF t
<1>9. Front("body", 0, r, 0) = <<>>
  BY <1>0, <1>1, FrontFacts
<1>10. InBody(q, t, r, kind, cut, 0)
  BY <1>6, <1>7, <1>8, <1>9 DEF InBody, Position
<1>11. Phase(q, t, r, kind, cut)
  BY <1>0, <1>2, <1>5, <1>7, <1>10 DEF Phase
<1> QED
  BY <1>4, <1>11 DEF q

LEMMA ExecuteBody ==
  ASSUME NEW k \in Codec, NEW rest, rest # <<>>, NEW r \in 0..MaxRequests, NEW kind,
         NEW cut \in BOOLEAN, ~cut => k.url = Bytes("url", 0, r),
         NEW j \in 0..Size, InBody(k, rest, r, kind, cut, j)
  PROVE  \E b, t : Leads(rest, b, t) /\ Phase(Execute(k, b), t, r, kind, cut)
<1> DEFINE b == ByteAt("body", 0, r, j + 1)
           t == Piece("body", 0, r, j + 1) \o <<>>
           q == Execute(k, b)
<1>0. Size \in Nat /\ 0 \in 0..Headers /\ j \in Nat
  BY SizeAssumption
<1>1. Source("body", 0, r) /\ <<>> \in Seq(Byte)
  BY <1>0, EmptySeq DEF Source, Text
<1>2. \A i \in 0..Size : Piece("body", 0, r, i) \o <<>> = Piece("body", 0, r, i)
  <2> TAKE i \in 0..Size
  <2>1. Piece("body", 0, r, i) \in Seq(Byte)
    <3>1. Size - i \in Nat /\ \A m \in 1..Size - i : m + i \in 1..Size
      BY <1>0
    <3>2. Piece("body", 0, r, i) \in [1..Size - i -> Byte]
      BY <1>1, <3>1, ByteFacts DEF Piece
    <3> QED
      BY <3>1, <3>2
  <2> QED
    BY <2>1, ConcatEmptySeq
<1>3. kind = "POST" /\ rest = Piece("body", 0, r, j) \o <<>>
  BY <1>2 DEF InBody
<1>4. TextAt(rest, "body", 0, r, j, <<>>)
  BY <1>1, <1>3 DEF TextAt
<1>5. j # Size
  BY <1>4, TextRead
<1>6. j + 1 \in 0..Size /\ Leads(rest, b, t)
  BY <1>4, <1>5, TextRead
<1>7. b \in Byte /\ t \in Seq(Byte)
  BY <1>6 DEF Leads
<1>8. q \in Codec /\ q = [k EXCEPT !.part = "body", !.run = Append(k.run, b), !.state = k.state]
  BY <1>7, ExecuteText DEF Text, ByteAt
<1> HIDE DEF q
<1>9. /\ q.part = "body" /\ q.run = Append(k.run, b) /\ q.url = k.url
      /\ q.headers = HeadersTo(r, Headers)
  BY <1>8 DEF Codec, InBody
<1>10. ~cut => q.run = Front("body", 0, r, j + 1)
  BY <1>1, <1>5, <1>9, FrontFacts DEF ByteAt, InBody
<1>11. j + 1 # 0 /\ t = Piece("body", 0, r, j + 1)
  BY <1>0, <1>2, <1>6
<1>12. InBody(q, t, r, kind, cut, j + 1)
  BY <1>3, <1>9, <1>10, <1>11 DEF InBody, Position
<1>13. Phase(q, t, r, kind, cut)
  BY <1>6, <1>7, <1>8, <1>9, <1>12 DEF Phase
<1> QED
  BY <1>6, <1>13 DEF q

\* Wherever it is, the codec takes the next byte as the next of the request.
LEMMA ExecutePhase ==
  ASSUME NEW k, NEW rest, rest # <<>>, NEW r \in 0..MaxRequests, NEW kind,
         NEW cut \in BOOLEAN, Phase(k, rest, r, kind, cut)
  PROVE  \E b, t : Leads(rest, b, t) /\ Phase(Execute(k, b), t, r, kind, cut)
<1>1. k \in Codec
  BY DEF Phase
<1>2. CASE \E j \in 0..Size : InUrl(k, rest, r, kind, cut, j)
  BY <1>1, <1>2, ExecuteUrl
<1>3. ASSUME ~cut => k.url = Bytes("url", 0, r),
             NEW h \in 1..Headers, NEW j \in 0..Size, InName(k, rest, r, kind, h, j)
      PROVE  \E b, t : Leads(rest, b, t) /\ Phase(Execute(k, b), t, r, kind, cut)
  BY <1>1, <1>3, ExecuteName
<1>4. ASSUME ~cut => k.url = Bytes("url", 0, r),
             NEW h \in 1..Headers, NEW j \in 0..Size, InValue(k, rest, r, kind, h, j)
      PROVE  \E b, t : Leads(rest, b, t) /\ Phase(Execute(k, b), t, r, kind, cut)
  BY <1>1, <1>4, ExecuteValue
<1>5. ASSUME ~cut => k.url = Bytes("url", 0, r), AtEnd(k, rest, r, kind)
      PROVE  \E b, t : Leads(rest, b, t) /\ Phase(Execute(k, b), t, r, kind, cut)
  BY <1>1, <1>5, ExecuteEnd
<1>6. ASSUME ~cut => k.url = Bytes("url", 0, r),
             NEW j \in 0..Size, InBody(k, rest, r, kind, cut, j)
      PROVE  \E b, t : Leads(rest, b, t) /\ Phase(Execute(k, b), t, r, kind, cut)
  BY <1>1, <1>6, ExecuteBody
<1> QED
  BY <1>2, <1>3, <1>4, <1>5, <1>6 DEF Phase

-----------------------------------------------------------------------------
(* A read.                                                                 *)

Executing(F, k, data) ==
  F = [i \in 0..Len(data) |-> IF i = 0 THEN k ELSE Execute(F[i - 1], data[i])]

LEMMA ParseIs ==
  ASSUME NEW k, NEW data
  PROVE  Parse(k, data) = Call((CHOOSE F : Executing(F, k, data))[Len(data)])
BY DEF Parse, Executing

\* The codec after each byte of a read.
LEMMA ExecutingStages ==
  ASSUME NEW k \in Codec, NEW data \in Seq(Byte)
  PROVE  \E F : /\ F = CHOOSE G : Executing(G, k, data)
                /\ F[0] = k
                /\ \A i \in 1..Len(data) : F[i] = Execute(F[i - 1], data[i])
<1> DEFINE n == Len(data)
           st == [i \in 1..n |-> [v \in Codec |-> Execute(v, data[i])]]
           G == CHOOSE F : Executing(F, k, data)
<1>1. n \in Nat /\ \A i \in 1..n : data[i] \in Byte
  BY LenProperties, ElementOfSeq
<1>2. st \in [1..n -> [Codec -> Codec]]
  BY <1>1, ExecuteTyped
<1>3. \A i \in 1..n : \A v \in Codec : st[i][v] = Execute(v, data[i])
  OBVIOUS
<1> HIDE DEF st, n
<1>4. PICK H : Stages(H, Codec, k, n, st)
  <2>1. n \in Nat
    BY <1>1
  <2> QED
    BY <1>2, <2>1, Recursion
<1>5. /\ H \in [0..n -> Codec] /\ H[0] = k
      /\ \A i \in 1..n : H[i] = Execute(H[i - 1], data[i])
  <2>1. H \in [0..n -> Codec] /\ H[0] = k /\ \A i \in 1..n : H[i] = st[i][H[i - 1]]
    BY <1>4 DEF Stages
  <2>2. \A i \in 1..n : i - 1 \in 0..n
    BY <1>1
  <2> QED
    BY <1>3, <2>1, <2>2
<1>6. Executing(H, k, data)
  <2>1. \A i \in 0..n : i = 0 \/ i \in 1..n
    BY <1>1
  <2>2. \A i \in 0..n : H[i] = IF i = 0 THEN k ELSE Execute(H[i - 1], data[i])
    BY <1>5, <2>1
  <2>3. H = [i \in 0..n |-> H[i]]
    BY <1>5
  <2> QED
    BY <2>2, <2>3 DEF Executing, n
<1>7. Executing(G, k, data)
  BY <1>6
<1> HIDE DEF G
<1>8. G = [i \in 0..n |-> IF i = 0 THEN k ELSE Execute(G[i - 1], data[i])]
  BY <1>7 DEF Executing, n
<1>9. G[0] = k /\ \A i \in 1..n : G[i] = Execute(G[i - 1], data[i])
  <2>1. 0 \in 0..n /\ \A i \in 1..n : i \in 0..n /\ i # 0
    BY <1>1
  <2> QED
    BY <1>8, <2>1
<1> QED
  BY <1>9 DEF G, n

\* Codec q is in front of the rest of stream s, when the first m bytes of it were
\* parsed by codec k, but for the call at the end of the read.
Parsed(q, k, s, m, r, kind, cut) ==
  /\ Phase(q, SubSeq(s, m + 1, Len(s)), r, kind, cut)
  /\ Parse(k, SubSeq(s, 1, m)) = Call(q)

\* After the bytes of a read the codec is in front of the rest of the stream.
LEMMA ParsePhase ==
  ASSUME NEW k, NEW s, NEW r \in 0..MaxRequests, NEW kind, NEW cut \in BOOLEAN,
         Phase(k, s, r, kind, cut), NEW m \in 0..Len(s)
  PROVE  \E q : Parsed(q, k, s, m, r, kind, cut)
<1> DEFINE data == SubSeq(s, 1, m)
           Left(i) == SubSeq(s, i + 1, Len(s))
<1>1. k \in Codec /\ s \in Seq(Byte) /\ Len(s) \in Nat /\ m \in Nat /\ m <= Len(s)
  <2>1. s \in Seq(Byte) /\ k \in Codec
    BY DEF Phase
  <2> QED
    BY <2>1, LenProperties
<1>2. /\ data \in Seq(Byte) /\ Len(data) = m
      /\ \A i \in 1..m : data[i] = s[i]
  <2>1. \A i \in 1..m : s[i] \in Byte
    BY <1>1, ElementOfSeq
  <2> QED
    BY <1>1, <2>1, SubSeqProperties
<1>3. Left(0) = s
  BY <1>1, SubSeqFull
<1>3a. ASSUME NEW i \in 0..Len(s), i # Len(s)
       PROVE  /\ Left(i) # <<>> /\ Head(Left(i)) = s[i + 1] /\ Tail(Left(i)) = Left(i + 1)
  <2>1. i + 1 \in 1..Len(s) /\ Len(s) \in i + 1..Len(s) /\ (i + 1) + 1 = i + 2
    BY <1>1, <1>3a
  <2>2. Head(Left(i)) = s[i + 1] /\ Tail(Left(i)) = Left(i + 1)
    BY <1>1, <2>1, HeadTailOfSubSeq
  <2>3. \A j \in i + 1..Len(s) : s[j] \in Byte
    BY <1>1, <2>1, ElementOfSeq
  <2>4. Len(Left(i)) = Len(s) - (i + 1) + 1
    BY <1>1, <2>1, <2>3, SubSeqProperties
  <2> HIDE DEF Left
  <2>5. Len(Left(i)) # 0
    BY <1>1, <2>1, <2>4
  <2> QED
    BY <2>2, <2>5
<1> HIDE DEF data, Left
<1>4. PICK F : /\ F = CHOOSE G : Executing(G, k, data)
               /\ F[0] = k
               /\ \A i \in 1..Len(data) : F[i] = Execute(F[i - 1], data[i])
  BY <1>1, <1>2, ExecutingStages
<1> DEFINE T == {i \in Nat : i <= m => Phase(F[i], Left(i), r, kind, cut)}
<1>5. 0 \in T
  BY <1>3, <1>4
<1>6. ASSUME NEW i \in T PROVE i + 1 \in T
  <2> SUFFICES ASSUME i + 1 <= m PROVE Phase(F[i + 1], Left(i + 1), r, kind, cut)
    OBVIOUS
  <2>1. /\ i \in Nat /\ i <= m /\ i \in 0..Len(s) /\ i # Len(s) /\ i + 1 \in 1..m
        /\ (i + 1) - 1 = i
    BY <1>1
  <2>2. Phase(F[i], Left(i), r, kind, cut)
    BY <2>1
  <2>3. Left(i) # <<>> /\ Head(Left(i)) = s[i + 1] /\ Tail(Left(i)) = Left(i + 1)
    BY <1>3a, <2>1
  <2>4. PICK b, t : Leads(Left(i), b, t) /\ Phase(Execute(F[i], b), t, r, kind, cut)
    BY <2>2, <2>3, ExecutePhase
  <2>5. b = data[i + 1] /\ t = Left(i + 1)
    BY <1>2, <2>1, <2>3, <2>4 DEF Leads
  <2>8. F[i + 1] = Execute(F[i], data[i + 1])
    BY <1>2, <1>4, <2>1
  <2> QED
    BY <2>4, <2>5, <2>8
<1> HIDE DEF T
<1>7. T = Nat
  <2>1. T \in SUBSET Nat
    BY DEF T
  <2> QED
    BY <1>5, <1>6, <2>1, NumberInduction
<1>8. Phase(F[m], Left(m), r, kind, cut)
  <2>1. m \in T
    BY <1>1, <1>7
  <2> QED
    BY <1>1, <2>1 DEF T
<1>9. Parse(k, data) = Call(F[m])
  BY <1>2, <1>4, ParseIs
<1> QED
  BY <1>8, <1>9 DEF data, Left, Parsed

LEMMA ParseAll ==
  ASSUME NEW k, NEW s, NEW r \in 0..MaxRequests, NEW kind, NEW cut \in BOOLEAN,
         Phase(k, s, r, kind, cut)
  PROVE  \E q : Phase(q, <<>>, r, kind, cut) /\ Parse(k, s) = Call(q)
<1>1. s \in Seq(Byte) /\ Len(s) \in Nat
  <2>1. s \in Seq(Byte)
    BY DEF Phase
  <2> QED
    BY <2>1, LenProperties
<1>2. SubSeq(s, 1, Len(s)) = s
  BY <1>1, SubSeqFull
<1>3. SubSeq(s, Len(s) + 1, Len(s)) = <<>>
  <2>1. Len(s) < Len(s) + 1 /\ Len(s) + 1 \in Int /\ Len(s) \in Int
    BY <1>1
  <2> QED
    BY <2>1, SubSeqEmpty
<1>4. PICK m \in 0..Len(s) : m = Len(s)
  BY <1>1
<1>5. PICK q : Parsed(q, k, s, m, r, kind, cut)
  BY ParsePhase
<1> QED
  BY <1>2, <1>3, <1>4, <1>5 DEF Parsed

\* A codec that has read a request has its headers, and its URL and its body if
\* no read ended in them.
LEMMA AtLast ==
  ASSUME NEW q, NEW r \in 0..MaxRequests, NEW kind, NEW cut \in BOOLEAN,
         Phase(q, <<>>, r, kind, cut)
  PROVE  LET k == Call(q) IN
         /\ k \in Codec /\ k.run = <<>> /\ k.headers = HeadersTo(r, Headers)
         /\ ~cut => /\ k.url = Bytes("url", 0, r)
                    /\ kind = "POST" => k.body = Bytes("body", 0, r)
<1> DEFINE k == Call(q)
<1>0. q \in Codec /\ Size \in Nat \ {0} /\ Headers \in Nat
  BY SizeAssumption DEF Phase
<1>1. ~\E j \in 0..Size : InUrl(q, <<>>, r, kind, cut, j)
  <2> SUFFICES ASSUME NEW j \in 0..Size, InUrl(q, <<>>, r, kind, cut, j) PROVE FALSE
    OBVIOUS
  <2>1. PICK b, t : Leads(<<>>, b, t)
    BY <1>0, ExecuteUrl
  <2> QED
    BY <2>1 DEF Leads
<1>2. /\ ~cut => q.url = Bytes("url", 0, r)
      /\ ~\E h \in 1..Headers, j \in 0..Size :
            InName(q, <<>>, r, kind, h, j) \/ InValue(q, <<>>, r, kind, h, j)
      /\ ~AtEnd(q, <<>>, r, kind)
  <2>1. ~cut => q.url = Bytes("url", 0, r)
    BY <1>1 DEF Phase
  <2>2. \A b, t : ~Leads(<<>>, b, t)
    BY DEF Leads
  <2>3. ASSUME NEW h \in 1..Headers, NEW j \in 0..Size, InName(q, <<>>, r, kind, h, j)
        PROVE  FALSE
    BY <1>0, <2>1, <2>2, <2>3, ExecuteName
  <2>4. ASSUME NEW h \in 1..Headers, NEW j \in 0..Size, InValue(q, <<>>, r, kind, h, j)
        PROVE  FALSE
    BY <1>0, <2>1, <2>2, <2>4, ExecuteValue
  <2>5. ASSUME AtEnd(q, <<>>, r, kind) PROVE FALSE
    BY <1>0, <2>1, <2>2, <2>5, ExecuteEnd
  <2> QED
    BY <2>1, <2>3, <2>4, <2>5
<1>3. PICK j \in 0..Size : InBody(q, <<>>, r, kind, cut, j)
  BY <1>1, <1>2 DEF Phase
<1>4. kind = "POST" => j = Size
  <2> SUFFICES ASSUME kind = "POST", j # Size PROVE FALSE
    OBVIOUS
  <2>1. Piece("body", 0, r, j) = <<>>
    BY <1>3 DEF InBody
  <2>2. Source("body", 0, r)
    BY <1>0 DEF Source, Text
  <2>3. <<>> \in Seq(Byte) /\ <<>> \o <<>> = <<>>
    OBVIOUS
  <2>4. TextAt(<<>>, "body", 0, r, j, <<>>)
    BY <2>1, <2>2, <2>3 DEF TextAt
  <2>5. Leads(<<>>, ByteAt("body", 0, r, j + 1), Piece("body", 0, r, j + 1) \o <<>>)
    BY <2>4, TextRead
  <2> QED
    BY <2>5 DEF Leads
<1>5. k \in Codec /\ k.run = <<>>
  BY <1>0, CallTyped
<1>6. CASE kind = "POST"
  <2>1. q.part = "body"
    BY <1>0, <1>3, <1>4, <1>6 DEF InBody, Position
  <2>2. k = [q EXCEPT !.body = q.run, !.run = <<>>]
    BY <1>0, <2>1, CallTyped
  <2>3. k.headers = q.headers /\ k.url = q.url /\ k.body = q.run
    BY <1>0, <2>2 DEF Codec
  <2>4. Front("body", 0, r, Size) = Bytes("body", 0, r)
    <3>1. Source("body", 0, r)
      BY <1>0 DEF Source, Text
    <3> QED
      BY <3>1, ByteFacts
  <2>5. q.headers = HeadersTo(r, Headers) /\ (~cut => q.run = Bytes("body", 0, r))
    BY <1>3, <1>4, <1>6, <2>4 DEF InBody
  <2> HIDE DEF k
  <2> QED
    BY <1>2, <1>5, <2>3, <2>5 DEF k
<1>7. CASE kind # "POST"
  <2>1. q.part = "stop" /\ q.headers = HeadersTo(r, Headers)
    BY <1>3, <1>7 DEF InBody, Position
  <2>2. k = [q EXCEPT !.run = <<>>]
    BY <1>0, <2>1, CallTyped
  <2>3. k.headers = q.headers /\ k.url = q.url
    BY <1>0, <2>2 DEF Codec
  <2> HIDE DEF k
  <2> QED
    BY <1>2, <1>5, <1>7, <2>1, <2>3 DEF k
<1> QED
  BY <1>6, <1>7

-----------------------------------------------------------------------------
(* The steps of a connection.                                              *)

LEMMA InitReading == Init => AllReading
<1> SUFFICES ASSUME Init PROVE AllReading
  OBVIOUS
<1>1. <<>> \in Seq(Byte) /\ <<>> \in Seq(Given) /\ Len(<<>>) = 0
  BY EmptySeq
<1>2. NewCodec \in Codec
  BY <1>1 DEF NewCodec, Codec
<1>3. NewConnection \in Connection /\ NewConnection.codec = NewCodec
  BY <1>1, <1>2 DEF NewConnection, Connection, Kind
<1>4. Idle(NewCodec)
  BY <1>2 DEF Idle, NewCodec
<1>5. Reading(NewConnection, <<>>)
  <2>1. /\ NewConnection.count = 0 /\ NewConnection.held = FALSE
        /\ NewConnection.stream = <<>>
    BY DEF NewConnection
  <2>2. 0 \in 0..MaxRequests /\ 0 <= 0 /\ \A i \in 1..0 : FALSE
    BY SizeAssumption
  <2> QED
    BY <1>1, <1>3, <1>4, <2>1, <2>2 DEF Reading
<1> QED
  BY <1>5 DEF Init, AllReading

\* A connection that is accepted, or closed.
LEMMA StatusReading ==
  ASSUME NEW n, NEW hs, Reading(n, hs)
  PROVE  /\ n.status # "closed" => Reading([n EXCEPT !.status = "open"], hs)
         /\ Reading([n EXCEPT !.status = "closed", !.stream = <<>>], hs)
<1>1. n \in Connection /\ <<>> \in Seq(Byte)
  BY EmptySeq DEF Reading
<1>2. ASSUME n.status # "closed" PROVE Reading([n EXCEPT !.status = "open"], hs)
  <2> DEFINE m == [n EXCEPT !.status = "open"]
  <2>1. /\ m \in Connection /\ m.count = n.count /\ m.held = n.held /\ m.waiting = n.waiting
        /\ m.stream = n.stream /\ m.codec = n.codec /\ m.kind = n.kind /\ m.cut = n.cut
    BY <1>1 DEF Connection
  <2> HIDE DEF m
  <2>2. Reading(m, hs)
    BY <1>2, <2>1 DEF Reading
  <2> QED
    BY <2>2 DEF m
<1>3. Reading([n EXCEPT !.status = "closed", !.stream = <<>>], hs)
  <2> DEFINE m == [n EXCEPT !.status = "closed", !.stream = <<>>]
  <2>1. /\ m \in Connection /\ m.count = n.count /\ m.held = n.held /\ m.waiting = n.waiting
        /\ m.stream = <<>> /\ m.status = "closed"
    BY <1>1 DEF Connection
  <2> HIDE DEF m
  <2>2. Reading(m, hs)
    BY <2>1 DEF Reading
  <2> QED
    BY <2>2 DEF m
<1> QED
  BY <1>2, <1>3

LEMMA EndReading ==
  ASSUME NEW n, NEW hs, Reading(n, hs), n.held
  PROVE  Reading([n EXCEPT !.held = FALSE, !.waiting = FALSE], hs)
<1> DEFINE m == [n EXCEPT !.held = FALSE, !.waiting = FALSE]
<1>1. n \in Connection /\ n.stream = <<>>
  BY DEF Reading
<1>2. /\ m \in Connection /\ m.count = n.count /\ m.held = FALSE
      /\ m.stream = n.stream /\ m.codec = n.codec /\ m.status = n.status
  BY <1>1 DEF Connection
<1> HIDE DEF m
<1>3. Reading(m, hs)
  BY <1>1, <1>2 DEF Reading
<1> QED
  BY <1>3 DEF m

\* A request is written to a codec that is between two.
LEMMA RequestReading ==
  ASSUME NEW n, NEW hs, NEW kind \in Kind, Reading(n, hs),
         n.status = "open", ~n.waiting, n.count < MaxRequests
  PROVE  Reading([n EXCEPT !.count = @ + 1, !.kind = kind, !.cut = FALSE, !.waiting = TRUE,
                           !.stream = Written(n.count + 1, kind)], hs)
<1> DEFINE r == n.count + 1
           s == Written(r, kind)
           m == [n EXCEPT !.count = @ + 1, !.kind = kind, !.cut = FALSE, !.waiting = TRUE,
                          !.stream = s]
<1>1. n \in Connection /\ n.stream = <<>> /\ Idle(n.codec) /\ ~n.held
  BY DEF Reading
<1>2. r \in 0..MaxRequests /\ r \in Nat /\ n.count \in Nat /\ 0 \in 0..Size /\ Len(hs) \in Nat
      /\ Len(hs) <= n.count
  <2>1. hs \in Seq(Given)
    BY DEF Reading
  <2> QED
    BY <2>1, LenProperties, SizeAssumption DEF Reading
<1>3. s \in Seq(Byte) /\ s = Piece("url", 0, r, 0) \o (Mark("stop") \o Lines(r, kind)[Headers])
  BY <1>2, WrittenFacts
<1> HIDE DEF s
<1>4. s # <<>>
  <2>1. Source("url", 0, r) /\ 0 # Size
    BY <1>2, SizeAssumption DEF Source, Text
  <2>2. Lines(r, kind)[Headers] \in Seq(Byte)
    BY <1>2, LinesFacts, SizeAssumption
  <2>3. Mark("stop") \o Lines(r, kind)[Headers] \in Seq(Byte)
    BY <2>2, MarkFacts
  <2>4. TextAt(s, "url", 0, r, 0, Mark("stop") \o Lines(r, kind)[Headers])
    BY <1>3, <2>1, <2>3 DEF TextAt
  <2>5. Leads(s, ByteAt("url", 0, r, 0 + 1),
              Piece("url", 0, r, 0 + 1) \o (Mark("stop") \o Lines(r, kind)[Headers]))
    BY <1>2, <2>1, <2>4, TextRead
  <2> QED
    BY <2>5 DEF Leads
<1>5. InUrl(n.codec, s, r, kind, FALSE, 0)
  <2>1. Front("url", 0, r, 0) = <<>>
    <3>1. Source("url", 0, r)
      BY <1>2, SizeAssumption DEF Source, Text
    <3> QED
      BY <1>2, <3>1, FrontFacts
  <2> QED
    BY <1>1, <1>3, <2>1 DEF InUrl, Idle, Position
<1>6. Phase(n.codec, s, r, kind, FALSE)
  BY <1>1, <1>2, <1>3, <1>5 DEF Phase, Idle
<1>7. /\ m \in Connection /\ m.count = r /\ m.held = n.held /\ m.waiting = TRUE
      /\ m.stream = s /\ m.codec = n.codec /\ m.kind = kind /\ m.cut = FALSE
  BY <1>1, <1>2, <1>3 DEF Connection
<1> HIDE DEF m
<1>8. Len(hs) < r /\ Len(hs) <= r
  BY <1>2
<1> HIDE DEF r
<1>9. Reading(m, hs)
  BY <1>1, <1>2, <1>4, <1>6, <1>7, <1>8 DEF Reading
<1> QED
  BY <1>9 DEF m, s, r

LEMMA PartReading ==
  ASSUME NEW n, NEW hs, Reading(n, hs), n.status = "open",
         NEW i \in 1..Len(n.stream) - 1,
         NEW k, k = Parse(n.codec, SubSeq(n.stream, 1, i))
  PROVE  Reading([n EXCEPT !.stream = SubSeq(@, i + 1, Len(@)), !.codec = k,
                           !.cut = @ \/ k.part \in {"url", "body"}], hs)
<1> DEFINE s == SubSeq(n.stream, i + 1, Len(n.stream))
           cut == n.cut \/ k.part \in {"url", "body"}
           m == [n EXCEPT !.stream = SubSeq(@, i + 1, Len(@)), !.codec = k,
                          !.cut = @ \/ k.part \in {"url", "body"}]
<1>1. n \in Connection /\ n.count \in 0..MaxRequests /\ n.stream \in Seq(Byte)
      /\ n.cut \in BOOLEAN /\ Len(n.stream) \in Nat
  <2>1. n \in Connection /\ n.count \in 0..MaxRequests
    BY DEF Reading
  <2>2. n.stream \in Seq(Byte) /\ n.cut \in BOOLEAN
    BY <2>1 DEF Connection
  <2> QED
    BY <2>1, <2>2, LenProperties
<1>2. n.stream # <<>> /\ i \in 0..Len(n.stream)
  BY <1>1, EmptySeq
<1>3. Phase(n.codec, n.stream, n.count, n.kind, n.cut) /\ n.waiting /\ ~n.held /\ Len(hs) < n.count
  BY <1>2 DEF Reading
<1>4. PICK q : Phase(q, s, n.count, n.kind, n.cut) /\ k = Call(q)
  <2>1. PICK q : Parsed(q, n.codec, n.stream, i, n.count, n.kind, n.cut)
    BY <1>1, <1>2, <1>3, ParsePhase
  <2> QED
    BY <2>1 DEF Parsed
<1>5. Phase(k, s, n.count, n.kind, cut)
  BY <1>1, <1>4, CallPhase
<1>6. s # <<>>
  <2>1. \A j \in i + 1..Len(n.stream) : n.stream[j] \in Byte
    BY <1>1, ElementOfSeq
  <2>2. Len(s) = Len(n.stream) - (i + 1) + 1
    BY <1>1, <2>1, SubSeqProperties
  <2> HIDE DEF s
  <2>3. Len(s) # 0
    BY <1>1, <2>2
  <2> QED
    BY <2>3
<1>7. s \in Seq(Byte) /\ k \in Codec
  BY <1>5 DEF Phase
<1> HIDE DEF s
<1>8. m = [n EXCEPT !.stream = s, !.codec = k, !.cut = cut]
  BY <1>1 DEF s, Connection
<1>9. /\ m \in Connection /\ m.count = n.count /\ m.held = n.held /\ m.waiting = n.waiting
      /\ m.stream = s /\ m.codec = k /\ m.kind = n.kind /\ m.cut = cut
  BY <1>1, <1>7, <1>8 DEF Connection
<1> HIDE DEF m, cut
<1>10. Reading(m, hs)
  BY <1>3, <1>5, <1>6, <1>9 DEF Reading
<1> QED
  BY <1>10 DEF m

\* The last byte of a request: what the application is given, and the codec
\* that is cleaned up.
LEMMA LastReading ==
  ASSUME NEW n, NEW hs, Reading(n, hs), n.status = "open", n.stream # <<>>,
         NEW k, k = Parse(n.codec, n.stream),
         NEW found \in BOOLEAN, NEW waiting \in BOOLEAN, NEW held \in BOOLEAN,
         NEW upgraded \in BOOLEAN, held => waiting
  PROVE  Reading([n EXCEPT !.stream = <<>>, !.codec = [CleanUp(k) EXCEPT !.part = "stop"],
                           !.waiting = waiting, !.held = held, !.upgraded = upgraded],
                 IF found
                   THEN Append(hs, [url |-> k.url, headers |-> k.headers, body |-> k.body,
                                    kind |-> n.kind, cut |-> n.cut, number |-> n.count])
                   ELSE hs)
<1> DEFINE codec == [CleanUp(k) EXCEPT !.part = "stop"]
           m == [n EXCEPT !.stream = <<>>, !.codec = codec, !.waiting = waiting,
                          !.held = held, !.upgraded = upgraded]
           g == [url |-> k.url, headers |-> k.headers, body |-> k.body,
                 kind |-> n.kind, cut |-> n.cut, number |-> n.count]
           gs == IF found THEN Append(hs, g) ELSE hs
<1>1. /\ n \in Connection /\ n.count \in 0..MaxRequests /\ n.count \in Nat
      /\ n.stream \in Seq(Byte) /\ n.cut \in BOOLEAN /\ n.kind \in Kind
      /\ Len(n.stream) \in Nat /\ Len(n.stream) \in 0..Len(n.stream) /\ <<>> \in Seq(Byte)
  <2>1. n \in Connection /\ n.count \in 0..MaxRequests
    BY DEF Reading
  <2>2. n.stream \in Seq(Byte) /\ n.cut \in BOOLEAN /\ n.kind \in Kind /\ n.count \in Nat
    BY <2>1 DEF Connection
  <2>3. Len(n.stream) \in Nat
    BY <2>2, LenProperties
  <2> QED
    BY <2>1, <2>2, <2>3, EmptySeq
<1>2. Phase(n.codec, n.stream, n.count, n.kind, n.cut) /\ Len(hs) < n.count /\ hs \in Seq(Given)
      /\ \A i \in 1..Len(hs) : Whole(hs[i])
  BY DEF Reading
<1>3. /\ k \in Codec /\ k.run = <<>> /\ k.headers = HeadersTo(n.count, Headers)
      /\ ~n.cut => /\ k.url = Bytes("url", 0, n.count)
                   /\ n.kind = "POST" => k.body = Bytes("body", 0, n.count)
  <2>1. Phase(n.codec, n.stream, n.count, n.kind, n.cut)
    BY <1>2
  <2>2. n.count \in 0..MaxRequests /\ n.cut \in BOOLEAN
    BY <1>1
  <2>3. PICK q : Phase(q, <<>>, n.count, n.kind, n.cut) /\ Parse(n.codec, n.stream) = Call(q)
    BY <2>1, <2>2, ParseAll
  <2> QED
    BY <1>1, <2>3, AtLast
<1>4. codec \in Codec /\ Idle(codec)
  <2>1. codec = [k EXCEPT !.name = <<>>, !.value = <<>>, !.url = <<>>, !.headers = {},
                          !.part = "stop"]
    BY <1>3 DEF CleanUp, Codec
  <2>2. codec \in Codec
    BY <1>1, <1>3, <2>1 DEF Codec
  <2>3. codec.part = "stop" /\ codec.run = <<>> /\ codec.name = <<>> /\ codec.headers = {}
    BY <1>3, <2>1 DEF Codec
  <2> HIDE DEF codec
  <2> QED
    BY <2>2, <2>3 DEF Idle
<1> HIDE DEF codec
<1>5. /\ m \in Connection /\ m.count = n.count /\ m.held = held /\ m.waiting = waiting
      /\ m.stream = <<>> /\ m.codec = codec
  BY <1>1, <1>4 DEF Connection
<1> HIDE DEF m
<1>6. g \in Given /\ Whole(g)
  <2>1. /\ k.url \in Seq(Byte) /\ k.headers \in SUBSET (Seq(Byte) \X Seq(Byte))
        /\ k.body \in Seq(Byte)
    BY <1>3 DEF Codec
  <2>2. g \in Given
    BY <1>1, <2>1 DEF Given
  <2>3. /\ g.headers = k.headers /\ g.number = n.count /\ g.cut = n.cut /\ g.url = k.url
        /\ g.kind = n.kind /\ g.body = k.body
    OBVIOUS
  <2> HIDE DEF g
  <2>4. Whole(g)
    BY <1>3, <2>3 DEF Whole
  <2> QED
    BY <2>2, <2>4
<1> HIDE DEF g
<1>7. /\ gs \in Seq(Given) /\ Len(gs) <= n.count
      /\ \A i \in 1..Len(gs) : Whole(gs[i])
  <2>1. Len(hs) \in Nat
    BY <1>2, LenProperties
  <2>2. CASE ~found
    BY <1>1, <1>2, <2>1, <2>2
  <2>3. CASE found
    <3> DEFINE a == Append(hs, g)
    <3>1. /\ a \in Seq(Given) /\ Len(a) = Len(hs) + 1 /\ a[Len(hs) + 1] = g
          /\ \A i \in 1..Len(hs) : a[i] = hs[i]
      BY <1>2, <1>6, AppendProperties
    <3> HIDE DEF a
    <3>2. Len(a) <= n.count
      BY <1>1, <1>2, <2>1, <3>1
    <3>3. \A i \in 1..Len(a) : i = Len(hs) + 1 \/ i \in 1..Len(hs)
      BY <2>1, <3>1
    <3>4. \A i \in 1..Len(a) : Whole(a[i])
      BY <1>2, <1>6, <3>1, <3>3
    <3>5. gs = a
      BY <2>3 DEF a
    <3> QED
      BY <3>1, <3>2, <3>4, <3>5
  <2> QED
    BY <2>2, <2>3
<1> HIDE DEF gs
<1>8. Reading(m, gs)
  BY <1>1, <1>4, <1>5, <1>7 DEF Reading
<1> QED
  BY <1>8 DEF m, gs, g, codec

\* A step of one connection.
LEMMA OneReading ==
  ASSUME AllReading, NEW c \in Conn, NEW n, NEW hs, Reading(n, hs),
         conns' = [conns EXCEPT ![c] = n], handled' = [handled EXCEPT ![c] = hs],
         handlers' \subseteq Conn
  PROVE  AllReading'
<1>1. /\ DOMAIN conns = Conn /\ conns = [d \in Conn |-> conns[d]]
      /\ DOMAIN handled = Conn /\ handled = [d \in Conn |-> handled[d]]
      /\ \A d \in Conn : Reading(conns[d], handled[d])
  BY DEF AllReading
<1>2. /\ DOMAIN conns' = Conn /\ conns' = [d \in Conn |-> conns'[d]]
      /\ conns'[c] = n /\ \A d \in Conn \ {c} : conns'[d] = conns[d]
  BY <1>1
<1>3. /\ DOMAIN handled' = Conn /\ handled' = [d \in Conn |-> handled'[d]]
      /\ handled'[c] = hs /\ \A d \in Conn \ {c} : handled'[d] = handled[d]
  BY <1>1
<1>4. \A d \in Conn : Reading(conns'[d], handled'[d])
  <2> TAKE d \in Conn
  <2>1. CASE d = c
    BY <1>2, <1>3, <2>1
  <2>2. CASE d # c
    BY <1>1, <1>2, <1>3, <2>2
  <2> QED
    BY <2>1, <2>2
<1> QED
  BY <1>2, <1>3, <1>4 DEF AllReading

LEMMA NextReading == AllReading /\ [Next]_vars => AllReading'
<1> SUFFICES ASSUME AllReading, [Next]_vars PROVE AllReading'
  OBVIOUS
<1>0. /\ handlers \subseteq Conn
      /\ \A c \in Conn : Reading(conns[c], handled[c])
      /\ \A c \in Conn : handled = [handled EXCEPT ![c] = handled[c]]
  <2>1. handled = [d \in Conn |-> handled[d]]
    BY DEF AllReading
  <2>2. \A c \in Conn : handled = [handled EXCEPT ![c] = handled[c]]
    BY <2>1
  <2> QED
    BY <2>2 DEF AllReading
<1>1. ASSUME NEW c \in Conn, OnConnection(c) PROVE AllReading'
  <2> DEFINE n == [conns[c] EXCEPT !.status = "open"]
  <2>1. /\ conns' = [conns EXCEPT ![c] = n] /\ handlers' = handlers \cup {c}
        /\ handled' = handled /\ conns[c].status # "closed"
    BY <1>1 DEF OnConnection
  <2>2. Reading(n, handled[c])
    BY <1>0, <2>1, StatusReading
  <2> HIDE DEF n
  <2> QED
    BY <1>0, <2>1, <2>2, OneReading
<1>2. ASSUME NEW c \in Conn, OnDataPart(c) PROVE AllReading'
  <2>1. PICK i \in 1..Len(conns[c].stream) - 1 :
          LET k == Parse(conns[c].codec, SubSeq(conns[c].stream, 1, i)) IN
          /\ conns[c].status = "open"
          /\ conns' = [conns EXCEPT
               ![c].stream = SubSeq(@, i + 1, Len(@)),
               ![c].codec = k,
               ![c].cut = @ \/ k.part \in {"url", "body"}]
          /\ handlers' = handlers /\ handled' = handled
    BY <1>2 DEF OnDataPart
  <2> DEFINE k == Parse(conns[c].codec, SubSeq(conns[c].stream, 1, i))
             n == [conns[c] EXCEPT
                     !.stream = SubSeq(@, i + 1, Len(@)), !.codec = k,
                     !.cut = @ \/ k.part \in {"url", "body"}]
  <2>2. /\ conns' = [conns EXCEPT ![c] = n] /\ conns[c].status = "open"
        /\ handlers' = handlers /\ handled' = handled
    BY <2>1
  <2>3. Reading(n, handled[c])
    BY <1>0, <2>2, PartReading
  <2> HIDE DEF n, k
  <2> QED
    BY <1>0, <2>2, <2>3, OneReading
<1>3. ASSUME NEW c \in Conn, OnDataLast(c) PROVE AllReading'
  <2> DEFINE o == conns[c]
             k == Parse(o.codec, o.stream)
             found == Found(k.url)
             g == [url |-> k.url, headers |-> k.headers, body |-> k.body,
                   kind |-> o.kind, cut |-> o.cut, number |-> o.count]
             hs == IF found THEN Append(handled[c], g) ELSE handled[c]
  <2>1. PICK outcome \in Outcome(conns[c].kind) :
          /\ o.status = "open" /\ o.stream # <<>>
          /\ handled' = IF found THEN [handled EXCEPT ![c] = Append(@, g)] ELSE handled
          /\ conns' = [conns EXCEPT ![c] =
               [o EXCEPT !.stream = <<>>,
                         !.codec = [CleanUp(k) EXCEPT !.part = "stop"],
                         !.waiting = ~found \/ outcome = "hold",
                         !.held = found /\ outcome = "hold",
                         !.upgraded = found /\ outcome = "upgrade"]]
          /\ handlers' = Dying(c, found /\ outcome = "upgrade")
    BY <1>3 DEF OnDataLast
  <2> DEFINE n == [o EXCEPT !.stream = <<>>,
                            !.codec = [CleanUp(k) EXCEPT !.part = "stop"],
                            !.waiting = ~found \/ outcome = "hold",
                            !.held = found /\ outcome = "hold",
                            !.upgraded = found /\ outcome = "upgrade"]
  <2>2. handlers' \subseteq Conn
    BY <1>0, <2>1 DEF Dying, OnHandlerClose
  <2>3. conns' = [conns EXCEPT ![c] = n]
    BY <2>1
  <2>4. handled' = [handled EXCEPT ![c] = hs]
    <3> HIDE DEF found, g
    <3>1. CASE found
      BY <2>1, <3>1
    <3>2. CASE ~found
      BY <1>0, <2>1, <3>2
    <3> QED
      BY <3>1, <3>2
  <2>5. Reading(n, hs)
    <3>1. found \in BOOLEAN
      BY DEF Found
    <3>2. Reading(o, handled[c]) /\ o.status = "open" /\ o.stream # <<>>
      BY <1>0, <2>1
    <3> DEFINE w == ~found \/ outcome = "hold"
               h == found /\ outcome = "hold"
               u == found /\ outcome = "upgrade"
    <3>3. w \in BOOLEAN /\ h \in BOOLEAN /\ u \in BOOLEAN /\ (h => w)
      BY <3>1
    <3> HIDE DEF w, h, u, k, o, found
    <3>4. k = Parse(o.codec, o.stream)
      BY DEF k
    <3>5. Reading([o EXCEPT !.stream = <<>>, !.codec = [CleanUp(k) EXCEPT !.part = "stop"],
                            !.waiting = w, !.held = h, !.upgraded = u], hs)
      BY <3>1, <3>2, <3>3, <3>4, LastReading
    <3> QED
      BY <3>5 DEF w, h, u
  <2> HIDE DEF n, hs
  <2> QED
    BY <2>2, <2>3, <2>4, <2>5, OneReading
<1>4. ASSUME NEW c \in Conn, End(c) PROVE AllReading'
  <2> DEFINE n == [conns[c] EXCEPT !.held = FALSE, !.waiting = FALSE]
  <2>1. /\ conns' = [conns EXCEPT ![c] = n] /\ handlers' = handlers
        /\ handled' = handled /\ conns[c].held
    BY <1>4 DEF End
  <2>2. Reading(n, handled[c])
    BY <1>0, <2>1, EndReading
  <2> HIDE DEF n
  <2> QED
    BY <1>0, <2>1, <2>2, OneReading
<1>5. ASSUME NEW c \in Conn, OnClose(c) PROVE AllReading'
  <2> DEFINE n == [conns[c] EXCEPT !.status = "closed", !.stream = <<>>]
  <2>1. /\ conns' = [conns EXCEPT ![c] = n] /\ handled' = handled
        /\ handlers' = handlers \/ handlers' = handlers \ {c}
    BY <1>5 DEF OnClose, OnHandlerClose
  <2>2. Reading(n, handled[c])
    BY <1>0, StatusReading
  <2> HIDE DEF n
  <2> QED
    BY <1>0, <2>1, <2>2, OneReading
<1>6. ASSUME NEW c \in Conn, NEW kind \in Kind, Request(c, kind) PROVE AllReading'
  <2> DEFINE n == [conns[c] EXCEPT !.count = @ + 1, !.kind = kind, !.cut = FALSE,
                     !.waiting = TRUE, !.stream = Written(conns[c].count + 1, kind)]
  <2>1. /\ conns' = [conns EXCEPT ![c] = n] /\ handlers' = handlers /\ handled' = handled
        /\ conns[c].status = "open" /\ ~conns[c].waiting /\ conns[c].count < MaxRequests
    BY <1>6 DEF Request
  <2>2. Reading(n, handled[c])
    BY <1>0, <2>1, RequestReading
  <2> HIDE DEF n
  <2> QED
    BY <1>0, <2>1, <2>2, OneReading
<1>7. CASE UNCHANGED vars
  BY <1>7 DEF vars, AllReading
<1> QED
  BY <1>1, <1>2, <1>3, <1>4, <1>5, <1>6, <1>7 DEF Next, OnData

LEMMA ReadingWhole == AllReading => RequestsWhole
<1> SUFFICES ASSUME AllReading PROVE RequestsWhole
  OBVIOUS
<1>1. \A c \in Conn : conns[c] \in Connection /\ Len(handled[c]) <= conns[c].count
                      /\ (conns[c].held => conns[c].waiting)
  BY DEF AllReading, Reading
<1>2. conns \in [Conn -> Connection] /\ handlers \subseteq Conn
  BY <1>1 DEF AllReading
<1>3. TypeOK
  BY <1>1, <1>2 DEF TypeOK
<1>4. ASSUME NEW c \in Conn, NEW i \in 1..Len(handled[c]) PROVE Whole(handled[c][i])
  BY DEF AllReading, Reading
<1> QED
  BY <1>3, <1>4 DEF RequestsWhole, Whole, HeadersTo

\* However TCP cuts the requests of a connection, and whatever the connection
\* carried before, an application is given the headers that were written; and
\* the URL and the body, when no read ended in them (HTTPHandler::OnData,
\* HTTPCodec, HTTPRequest).
THEOREM RequestsAreWhole == Spec => []RequestsWhole
BY InitReading, NextReading, ReadingWhole, PTL DEF Spec
=============================================================================
