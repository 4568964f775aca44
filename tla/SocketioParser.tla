--------------------------- MODULE SocketioParser ---------------------------
(***************************************************************************)
(* The text of socket.io packets: socketio::Parser and the parser of the   *)
(* client the repository ships (socket.io.js, socket.io-parser), each      *)
(* reading what the other writes.  A text is a sequence of one-character   *)
(* strings.  Of a body only what the parsers look at matters: whether it   *)
(* is there, and whether it is JSON.  Packets with attachments are left    *)
(* out: EncodeAsBinary and the reading of attachments are not implemented. *)
(***************************************************************************)
EXTENDS Integers, Texts, Numerals

CONSTANTS Names,      \* the namespaces other than "/", as texts
          Ids,        \* acknowledgement ids, and -1 for none
          Json,       \* bodies that are JSON arrays or strings
          Plain       \* bodies that are not JSON

Root == <<"/">>
Connect == 0
Error == 4
Digit == <<"0", "1", "2", "3", "4", "5", "6", "7", "8", "9">>

Packet == [type : {0, 1, 2, 3, 4}, nsp : Names \cup {Root}, id : Ids,
           body : Json \cup Plain \cup {<<>>}]

VARIABLE packet         \* the packet that is written and read

\* The first packet of a connection, and then any.
Init == packet = [type |-> Connect, nsp |-> Root, id |-> -1, body |-> <<>>]
Another == packet' \in Packet
Spec == Init /\ [][Another]_packet

-----------------------------------------------------------------------------
IsDigit(c) == c \in Range(Digit)
Value(c) == SelectInSeq(Digit, LAMBDA d : d = c) - 1

IntToString(n) ==
  LET digits == InBase(n, 10) IN [i \in DOMAIN digits |-> Digit[digits[i] + 1]]
StringToInt(s) == NumberOf([i \in DOMAIN s |-> Value(s[i])], 10)

\* s without its first k characters.
From(s, k) == SubSeq(s, k + 1, Len(s))
\* s up to the first c, or all of s.
UpTo(s, c) ==
  IF c \in Range(s) THEN SubSeq(s, 1, SelectInSeq(s, LAMBDA x : x = c) - 1) ELSE s

\* The digits that s starts with.
Number(s) ==
  LET k == SelectInSeq(s, LAMBDA x : ~IsDigit(x))
  IN  IF k = 0 THEN s ELSE SubSeq(s, 1, k - 1)

\* Mutant of ReadRest: the id 0 counts as none, as it does in the encoder.
ReadRestPositive(rest) ==
  LET number == Number(rest) IN
  [id |-> IF number = <<>> \/ StringToInt(number) = 0 THEN -1
          ELSE StringToInt(number),
   body |-> From(rest, Len(number))]

\* The id, if there is one, and the body.
ReadRest(rest) ==
  LET number == Number(rest) IN
  [id |-> IF number = <<>> THEN -1 ELSE StringToInt(number),
   body |-> From(rest, Len(number))]

\* Mutant of WriteRest: no comma after the namespace.
WriteRestUnseparated(p, hasId) ==
  (IF p.nsp = Root THEN <<>> ELSE p.nsp)
    \o (IF hasId THEN IntToString(p.id) ELSE <<>>) \o p.body

\* What both sides write after the type; hasId says whether the id counts.
WriteRest(p, hasId) ==
  LET nsp == IF p.nsp = Root THEN <<>> ELSE p.nsp
      text == (IF hasId THEN IntToString(p.id) ELSE <<>>) \o p.body
  IN  nsp \o (IF nsp # <<>> /\ text # <<>> THEN <<",">> ELSE <<>>) \o text

-----------------------------------------------------------------------------
(* The server.                                                             *)

\* Parser::EncodeAsString.
Encode(p) == <<Digit[p.type + 1]>> \o WriteRest(p, p.id > 0)

\* Parser::DecodeString: what follows a namespace starts at the comma.
Decode(data) ==
  LET rest == Tail(data)
      nsp == IF rest # <<>> /\ Head(rest) = "/" THEN UpTo(rest, ",") ELSE <<>>
      r == ReadRest(From(rest, Len(nsp)))
  IN  [type |-> Value(Head(data)), nsp |-> IF nsp = <<>> THEN Root ELSE nsp,
       id |-> r.id, body |-> r.body]

-----------------------------------------------------------------------------
(* The client.                                                             *)

\* encodeAsString.
ClientEncode(p) == <<Digit[p.type + 1]>> \o WriteRest(p, p.id # -1)

\* error() of the client's parser: a packet without a namespace.
ParserError == [type |-> Error, nsp |-> <<>>, id |-> -1, body |-> <<"parser error">>]

\* decodeString: the comma after a namespace is passed over.
ClientDecode(data) ==
  LET rest == Tail(data)
      nsp == IF rest # <<>> /\ Head(rest) = "/" THEN UpTo(rest, ",") ELSE <<>>
      passed == Len(nsp) + (IF nsp # <<>> /\ Len(nsp) < Len(rest) THEN 1 ELSE 0)
      r == ReadRest(From(rest, passed))
  IN  IF r.body \in Plain THEN ParserError
      ELSE [type |-> Value(Head(data)), nsp |-> IF nsp = <<>> THEN Root ELSE nsp,
            id |-> r.id, body |-> r.body]

-----------------------------------------------------------------------------
\* What the client sends in the root namespace reaches the server whole: the
\* type, the id (zero as well) and the body.
RootReadByServer ==
  packet.nsp = Root /\ packet.body \notin Plain =>
    Decode(ClientEncode(packet)) = packet

\* Whatever the namespace, the id and the body, a packet of the client is
\* routed right: Client::OnData goes by the type and the namespace.
RoutedByServer ==
  LET read == Decode(ClientEncode(packet)) IN
  read.type = packet.type /\ read.nsp = packet.nsp

\* What the server writes is what the client reads, in every namespace,
\* except that the server never writes the id 0 and that bodies must be JSON.
ReadByClient ==
  packet.id # 0 /\ packet.body \notin Plain =>
    ClientDecode(Encode(packet)) = packet
=============================================================================
