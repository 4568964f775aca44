--------------------------- MODULE HttpConnection ---------------------------
(***************************************************************************)
(* HTTP connections (lib/woody/http): HTTPServer with its table of         *)
(* handlers, HTTPHandler::OnData, HTTPCodec under the callbacks of         *)
(* http_parser, and the one HTTPRequest a codec reuses for every request   *)
(* of its connection.                                                      *)
(*                                                                         *)
(* The client keeps its connection open and sends the next request when it *)
(* has the answer to the last.  TCP cuts the bytes into reads wherever it  *)
(* likes; one read is one step.  A byte stands for a piece of the text     *)
(* that is not worth cutting further.                                      *)
(***************************************************************************)
EXTENDS Naturals, Sequences

CONSTANTS Conn,          \* connections
          MaxRequests,   \* bound: requests on one connection
          Headers,       \* headers of a request
          Size           \* bytes of a URL, a name, a value and a body

ASSUME SizeAssumption ==
  MaxRequests \in Nat /\ Headers \in Nat \ {0} /\ Size \in Nat \ {0}

Text == {"url", "name", "value", "body"}
Kind == {"GET", "POST", "upgrade"}

\* A byte: what it is part of, of which header, of which request, and where.
\* "stop" is what ends a URL, a name or a value, and "end" the empty line.
Byte == [part : Text \cup {"stop", "end"}, header : 0..Headers,
         request : 0..MaxRequests, at : 0..Size]
Bytes(part, h, r) ==
  [i \in 1..Size |-> [part |-> part, header |-> h, request |-> r, at |-> i]]
Mark(part) == <<[part |-> part, header |-> 0, request |-> 0, at |-> 0]>>

\* The text of request r, and from its last n headers on.
Lines(r, kind) ==
  LET f[n \in 0..Headers] ==
        IF n = 0 THEN Mark("end") \o IF kind = "POST" THEN Bytes("body", 0, r) ELSE <<>>
        ELSE Bytes("name", Headers + 1 - n, r) \o (Mark("stop")
               \o (Bytes("value", Headers + 1 - n, r) \o (Mark("stop") \o f[n - 1])))
  IN  f
Written(r, kind) == Bytes("url", 0, r) \o (Mark("stop") \o Lines(r, kind)[Headers])

VARIABLES
  handlers,   \* the connections in HTTPServer::handler_map_
  conns,      \* each connection with its codec, a record
  handled     \* what applications were given on each connection, oldest first

vars == <<handlers, conns, handled>>

\* state: HTTPCodec::parseState_; name and value: cur_header_name_ and
\* cur_header_value_; url, headers and body are the HTTPRequest's.  part and run
\* are http_parser's: the text it is in the middle of ("stop" if none), and the
\* bytes of it since its mark.
Codec == [state : {"nothing", "begin", "name", "value"},
          name : Seq(Byte), value : Seq(Byte), url : Seq(Byte),
          headers : SUBSET (Seq(Byte) \X Seq(Byte)), body : Seq(Byte),
          part : Text \cup {"stop"}, run : Seq(Byte)]

NewCodec == [state |-> "nothing", name |-> <<>>, value |-> <<>>, url |-> <<>>,
             headers |-> {}, body |-> <<>>, part |-> "stop", run |-> <<>>]

\* stream: written by the client and not read; cut: a read of this request
\* ended inside its URL or its body; waiting: the client has no answer yet;
\* held: the application has the request and owes the answer; upgraded:
\* WebsocketHandler::SetCallback has replaced the connection's callbacks.
Connection ==
  [status : {"new", "open", "closed"}, upgraded : BOOLEAN, count : Nat,
   kind : Kind, stream : Seq(Byte), cut : BOOLEAN,
   waiting : BOOLEAN, held : BOOLEAN, codec : Codec]

NewConnection ==
  [status |-> "new", upgraded |-> FALSE, count |-> 0, kind |-> "GET",
   stream |-> <<>>, cut |-> FALSE, waiting |-> FALSE, held |-> FALSE,
   codec |-> NewCodec]

Init ==
  /\ handlers = {}
  /\ conns = [c \in Conn |-> NewConnection]
  /\ handled = [c \in Conn |-> <<>>]

-----------------------------------------------------------------------------
(* HTTPCodec: the callbacks of http_parser.                                *)

\* HTTPRequest::AddHeader: std::map::insert keeps what is there.
AddHeader(k) ==
  IF \E p \in k.headers : p[1] = k.name THEN k
  ELSE [k EXCEPT !.headers = @ \cup {<<k.name, k.value>>}]

OnMessageBegin(k) == [k EXCEPT !.state = "begin"]

\* SetUrl replaces what an earlier call has set.
OnUrl(k) == [k EXCEPT !.url = k.run]

OnHeaderField(k) ==
  [IF k.state = "value" THEN [AddHeader(k) EXCEPT !.name = k.run]
                        ELSE [k EXCEPT !.name = @ \o k.run]
     EXCEPT !.state = "name"]

\* Mutant of OnHeaderValue: a value that comes in pieces keeps the last one.
OnHeaderValueLast(k) == [k EXCEPT !.value = k.run, !.state = "value"]

OnHeaderValue(k) ==
  [k EXCEPT !.value = IF k.state = "name" THEN k.run ELSE @ \o k.run,
            !.state = "value"]

OnHeadersComplete(k) == AddHeader(k)

\* Mutant of OnBody: the pieces are joined, and joined to the body before.
OnBodyAppended(k) == [k EXCEPT !.body = @ \o k.run]

\* SetBody replaces what an earlier call has set.
OnBody(k) == [k EXCEPT !.body = k.run]

\* HTTPCodec::CleanUp with HTTPRequest::CleanUp, which leaves body_ alone.
CleanUp(k) ==
  [k EXCEPT !.name = <<>>, !.value = <<>>, !.url = <<>>, !.headers = {}]

\* http_parser gives the codec the bytes since its mark: at the end of a text,
\* though the last of its bytes came with an earlier read, and of a read.
Call(k) ==
  [CASE k.part = "url" -> OnUrl(k)
     [] k.part = "name" -> OnHeaderField(k)
     [] k.part = "value" -> OnHeaderValue(k)
     [] k.part = "body" -> OnBody(k)
     [] k.part = "stop" -> k
   EXCEPT !.run = <<>>]

\* http_parser_execute takes one byte.
Execute(k, b) ==
  CASE b.part = "stop" -> [Call(k) EXCEPT !.part = "stop"]
    [] b.part = "end" -> OnHeadersComplete(k)
    [] b.part \in Text ->
         [IF b.part = "url" /\ b.at = 1 THEN OnMessageBegin(k) ELSE k
            EXCEPT !.part = b.part, !.run = Append(@, b)]

\* HTTPCodec::OnData.
Parse(k, data) ==
  LET f[i \in 0..Len(data)] == IF i = 0 THEN k ELSE Execute(f[i - 1], data[i])
  IN  Call(f[Len(data)])

-----------------------------------------------------------------------------
(* The client.                                                             *)

Request(c, kind) ==
  LET n == conns[c] IN
  /\ n.status = "open" /\ ~n.upgraded /\ ~n.waiting /\ n.count < MaxRequests
  /\ conns' = [conns EXCEPT ![c] =
                 [n EXCEPT !.count = @ + 1, !.kind = kind, !.cut = FALSE,
                           !.waiting = TRUE,
                           !.stream = Written(n.count + 1, kind)]]
  /\ UNCHANGED <<handlers, handled>>

-----------------------------------------------------------------------------
(* HTTPServer and HTTPHandler.                                             *)

\* OnConnection.
OnConnection(c) ==
  /\ conns[c].status = "new"
  /\ conns' = [conns EXCEPT ![c].status = "open"]
  /\ handlers' = handlers \cup {c}
  /\ UNCHANGED handled

\* A read that is not the end of the request: HTTPHandler::OnData parses it.
OnDataPart(c) ==
  \E n \in 1..Len(conns[c].stream) - 1 :
    LET k == Parse(conns[c].codec, SubSeq(conns[c].stream, 1, n)) IN
    /\ conns[c].status = "open"
    /\ conns' = [conns EXCEPT
         ![c].stream = SubSeq(@, n + 1, Len(@)),
         ![c].codec = k,
         ![c].cut = @ \/ k.part \in {"url", "body"}]
    /\ UNCHANGED <<handlers, handled>>

\* Mutant of Found: the URL must be the prefix, and not begin with it.
FoundWhole(url) == Len(url) = 1

\* HTTPServer::OnRequest: the applications' prefixes are the beginning of the
\* URL of every request.
Found(url) == url # <<>> /\ url[1].at = 1

\* What the application may do with a request before it returns: answer, keep
\* the response for later (a poll), or upgrade.
Outcome(kind) ==
  CASE kind = "GET" -> {"answer", "hold"}
    [] kind = "POST" -> {"answer"}
    [] kind = "upgrade" -> {"answer", "upgrade"}

\* HTTPServer::OnHandlerClose.
OnHandlerClose(c) == handlers \ {c}

\* Mutant of Dying: the handler of an upgraded connection is not closed.
DyingStays(c, upgraded) == handlers

\* The end of HTTPHandler::OnData: a handler whose connection was upgraded is
\* dying and closes itself.
Dying(c, upgraded) == IF upgraded THEN OnHandlerClose(c) ELSE handlers

\* The read with the last byte of the request: OnMessageComplete runs the
\* application and cleans the codec up.
OnDataLast(c) ==
  \E outcome \in Outcome(conns[c].kind) :
    LET n == conns[c]
        k == Parse(n.codec, n.stream)
        found == Found(k.url)
        request == [url |-> k.url, headers |-> k.headers, body |-> k.body,
                    kind |-> n.kind, cut |-> n.cut, number |-> n.count]
    IN  /\ n.status = "open" /\ n.stream # <<>>
        /\ handled' = IF found THEN [handled EXCEPT ![c] = Append(@, request)]
                               ELSE handled
        /\ conns' = [conns EXCEPT ![c] =
             [n EXCEPT !.stream = <<>>,
                       !.codec = [CleanUp(k) EXCEPT !.part = "stop"],
                       !.waiting = ~found \/ outcome = "hold",
                       !.held = found /\ outcome = "hold",
                       !.upgraded = found /\ outcome = "upgrade"]]
        /\ handlers' = Dying(c, found /\ outcome = "upgrade")

\* HTTPResponse::End, some time later.  A connection that is closed drops it.
End(c) ==
  /\ conns[c].held
  /\ conns' = [conns EXCEPT ![c].held = FALSE, ![c].waiting = FALSE]
  /\ UNCHANGED <<handlers, handled>>

\* The connection is closed: TcpConnection::handleClose runs the close
\* callback, HTTPHandler's or the one that WebsocketHandler put in its place.
OnClose(c) ==
  /\ conns[c].status = "open"
  /\ conns' = [conns EXCEPT ![c].status = "closed", ![c].stream = <<>>]
  /\ handlers' = IF conns[c].upgraded THEN handlers ELSE OnHandlerClose(c)
  /\ UNCHANGED handled

-----------------------------------------------------------------------------
OnData(c) == OnDataPart(c) \/ OnDataLast(c)

Next ==
  \E c \in Conn :
    \/ OnConnection(c) \/ OnData(c) \/ End(c) \/ OnClose(c)
    \/ \E kind \in Kind : Request(c, kind)

Spec == Init /\ [][Next]_vars

\* What was written arrives, and the event loop reads it.
FairSpec == Spec /\ \A c \in Conn : WF_vars(OnData(c))

-----------------------------------------------------------------------------
TypeOK ==
  /\ handlers \subseteq Conn
  /\ conns \in [Conn -> Connection]
  /\ \A c \in Conn : /\ Len(handled[c]) <= conns[c].count
                     /\ conns[c].held => conns[c].waiting

\* However the bytes were cut, a request reaches its application with exactly
\* the headers that were written, and none of an earlier request's on the same
\* connection; and with its own URL and body when no read ended inside them
\* (in a state of the right type).
RequestsWhole ==
  /\ TypeOK
  /\ \A c \in Conn : \A i \in 1..Len(handled[c]) :
       LET q == handled[c][i] IN
       /\ q.headers = {<<Bytes("name", h, q.number), Bytes("value", h, q.number)>> :
                         h \in 1..Headers}
       /\ ~q.cut => /\ q.url = Bytes("url", 0, q.number)
                    /\ q.kind = "POST" => q.body = Bytes("body", 0, q.number)

\* The server's table holds the handlers of the open connections that are
\* still HTTP, and no other.
HandlersOpen ==
  handlers = {c \in Conn : conns[c].status = "open" /\ ~conns[c].upgraded}

\* The request of a client that stays is answered or held by an application,
\* unless a read ended inside its URL (or its body).
Served ==
  \A c \in Conn :
    conns[c].waiting ~> \/ ~conns[c].waiting \/ conns[c].held
                        \/ conns[c].status = "closed" \/ conns[c].cut
=============================================================================
