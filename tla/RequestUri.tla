----------------------------- MODULE RequestUri -----------------------------
(***************************************************************************)
(* The requests of a session and how the server tells whose they are: the  *)
(* query that the client writes (socket.io.js: Socket.createTransport, uri *)
(* of both transports, parseqs, yeast), the query that HTTPRequest reads,  *)
(* and the session id that the server makes and the client sends back.     *)
(* The client escapes what it writes; the server does not undo it.         *)
(*                                                                         *)
(* A text is a sequence of characters.  Left out: texts other than ASCII,  *)
(* options that switch timestamps off, the `j' of JSONP.                   *)
(***************************************************************************)
EXTENDS Integers, Texts, Numerals

CONSTANTS Queries,     \* the query option: sequences of pairs of texts; none of
                       \* its keys is one of the protocol's
          Randoms,     \* the 15 bytes that an id is made of
          Times,       \* the milliseconds of the client's clock
          MaxStamps    \* bound: requests of the polling transport

VARIABLE requests

\* option: the query option; binary: whether the transports can have binary
\* contents; polling: the query of the polling transport, once it is created;
\* id: that of the session, when there is one; prev, seed: yeast's; stamps: what
\* yeast has returned; back: whether the clock was put back; uri, transport,
\* method: of the last request.  The answer to the handshake ends that one.
Init ==
  requests = [option |-> <<>>, binary |-> TRUE, polling |-> <<>>, id |-> <<>>,
              prev |-> -1, seed |-> 0, stamps |-> <<>>, back |-> FALSE,
              uri |-> <<>>, transport |-> "polling", method |-> "GET"]

-----------------------------------------------------------------------------
(* Characters.                                                             *)

Upper == <<"A", "B", "C", "D", "E", "F", "G", "H", "I", "J", "K", "L", "M",
           "N", "O", "P", "Q", "R", "S", "T", "U", "V", "W", "X", "Y", "Z">>
Lower == <<"a", "b", "c", "d", "e", "f", "g", "h", "i", "j", "k", "l", "m",
           "n", "o", "p", "q", "r", "s", "t", "u", "v", "w", "x", "y", "z">>
Numeral == <<"0", "1", "2", "3", "4", "5", "6", "7", "8", "9">>
Unreserved ==
  Range(Upper) \cup Range(Lower) \cup Range(Numeral) \cup {"-", "_", ".", "!", "~", "*"}
Reserved == {"=", "&", " ", "%", "+", "/"}
Writable == Unreserved \cup Reserved

Key == [EIO |-> <<"E", "I", "O">>,
        transport |-> <<"t", "r", "a", "n", "s", "p", "o", "r", "t">>,
        sid |-> <<"s", "i", "d">>, t |-> <<"t">>, b64 |-> <<"b", "6", "4">>]
Name == [polling |-> <<"p", "o", "l", "l", "i", "n", "g">>,
         websocket |-> <<"w", "e", "b", "s", "o", "c", "k", "e", "t">>]
Index(s, c) == SelectInSeq(s, LAMBDA x : x = c)

-----------------------------------------------------------------------------
(* The session id.                                                         *)

base64_chars == Upper \o Lower \o Numeral \o <<"+", "/">>

\* The four sixes of bits of three bytes.
Sixes(a, b, c) ==
  <<a \div 4, (a % 4) * 16 + (b \div 16), (b % 16) * 4 + (c \div 64), c % 64>>

\* bytree::Base64Encode.
Base64Encode(s) ==
  LET pad == (3 - (Len(s) % 3)) % 3
      t == s \o [i \in 1..pad |-> 0]
      sixes == FlattenSeq([i \in 1..Len(t) \div 3 |->
                             Sixes(t[3 * i - 2], t[3 * i - 1], t[3 * i])])
  IN  [i \in DOMAIN sixes |->
         IF i > Len(sixes) - pad THEN "=" ELSE base64_chars[sixes[i] + 1]]

\* Mutant of Safe: the two characters are left, as the comment has it.
SafeLeft(s) == s

\* GenerateBase64ID: the characters of base64 that a URL cannot have.
Safe(s) ==
  [i \in DOMAIN s |-> CASE s[i] = "/" -> "_" [] s[i] = "+" -> "-" [] OTHER -> s[i]]

GenerateBase64ID(bytes) == Safe(Base64Encode(bytes))

-----------------------------------------------------------------------------
(* The client writes.                                                      *)

\* encodeURIComponent of JavaScript, for the characters that occur.
Escape(c) ==
  CASE c = "=" -> <<"%", "3", "D">> [] c = "&" -> <<"%", "2", "6">>
    [] c = " " -> <<"%", "2", "0">> [] c = "%" -> <<"%", "2", "5">>
    [] c = "+" -> <<"%", "2", "B">> [] c = "/" -> <<"%", "2", "F">>
encodeURIComponent(s) ==
  FlattenSeq([i \in DOMAIN s |-> IF s[i] \in Unreserved THEN <<s[i]>> ELSE Escape(s[i])])

\* A property of an object, which keeps its place when it is set again.
Put(q, k, v) ==
  IF \E i \in DOMAIN q : q[i][1] = k
  THEN [i \in DOMAIN q |-> IF q[i][1] = k THEN <<k, v>> ELSE q[i]]
  ELSE Append(q, <<k, v>>)

\* parseqs.encode.
Compile(q) ==
  FlattenSeq([i \in DOMAIN q |->
    (IF i = 1 THEN <<>> ELSE <<"&">>)
      \o encodeURIComponent(q[i][1]) \o <<"=">> \o encodeURIComponent(q[i][2])])

alphabet == Numeral \o Upper \o Lower \o <<"-", "_">>

\* yeast's encode.
encode(num) ==
  LET digits == InBase(num, 64) IN [i \in DOMAIN digits |-> alphabet[digits[i] + 1]]

\* Mutant of Seeded: all requests of a millisecond look the same.
SeededNot(now, seed) == encode(now)

\* yeast: the second and later ids of a millisecond.
Seeded(now, seed) == encode(now) \o <<".">> \o encode(seed)

\* Socket.createTransport: the query of a transport.
createTransport(option, transport, id) ==
  LET named == Put(Put(option, Key.EIO, <<"3">>), Key.transport, Name[transport])
  IN  IF id = <<>> THEN named ELSE Put(named, Key.sid, id)

\* The path and the query; the scheme, host and port do not reach the server.
Uri(query) == <<"/", "?">> \o Compile(query)

-----------------------------------------------------------------------------
(* The server reads.                                                       *)

UpTo(s, cs) == LET i == SelectInSeq(s, LAMBDA c : c \in cs) IN
               IF i = 0 THEN s ELSE SubSeq(s, 1, i - 1)
After(s, n) == SubSeq(s, n + 2, Len(s))

\* HTTPRequest::ParseUrl, the loop: pairs, a later one over an earlier.
Params(s) ==
  LET params[r \in Seq(STRING)] ==
        IF "=" \notin Range(r) THEN <<>>
        ELSE LET key == UpTo(r, {"="})
                 rest == After(r, Len(key))
                 value == UpTo(rest, {"&", " "})
             IN  <<<<key, value>>>> \o params[After(rest, Len(value))]
  IN  params[s]

ParseUrl(url) ==
  IF "?" \notin Range(url) THEN <<>> ELSE Params(SubSeq(url, Index(url, "?") + 1, Len(url)))

\* HTTPRequest::GetGETParams; no text stands for a parameter that is missing.
GetGETParams(params, k) ==
  LET i == SelectLastInSeq(params, LAMBDA p : p[1] = k) IN
  IF i = 0 THEN <<>> ELSE params[i][2]

\* Server::VerifyRequest while sid, which is on polling, is the one session.
VerifyRequest(params, method, upgrade, sid) ==
  LET transport == GetGETParams(params, Key.transport)
      known == GetGETParams(params, Key.sid)
  IN  /\ transport \in Range(Name)
      /\ \/ known = <<>> /\ method = "GET"
         \/ known # <<>> /\ known = sid /\ (upgrade \/ transport = Name.polling)

-----------------------------------------------------------------------------
\* The application makes a socket, and that its first transport.
Open ==
  /\ requests.polling = <<>>
  /\ \E option \in Queries, binary \in BOOLEAN :
       requests' = [requests EXCEPT
                      !.option = option, !.binary = binary,
                      !.polling = createTransport(option, "polling", <<>>)]

\* A request of the polling transport: Polling.uri, with yeast.  The query is the
\* transport's own: what is put into it stays.
Poll(method) ==
  /\ requests.polling # <<>>
  /\ IF requests.id = <<>> THEN requests.stamps = <<>> /\ method = "GET"
     ELSE Len(requests.stamps) < MaxStamps
  /\ \E now \in Times :
       LET again == now = requests.prev
           stamp == IF again THEN Seeded(now, requests.seed) ELSE encode(now)
           stamped == Put(requests.polling, Key.t, stamp)
           query == IF ~requests.binary /\ requests.id = <<>>
                    THEN Put(stamped, Key.b64, <<"1">>) ELSE stamped
       IN  requests' = [requests EXCEPT
                          !.prev = now, !.seed = IF again THEN @ + 1 ELSE 0,
                          !.stamps = Append(@, stamp),
                          !.back = @ \/ now < requests.prev,
                          !.polling = query, !.uri = Uri(query),
                          !.transport = "polling", !.method = method]

\* The answer to the handshake: onHandshake.
Handshake ==
  /\ requests.id = <<>> /\ requests.stamps # <<>>
  /\ \E bytes \in Randoms :
       LET sid == GenerateBase64ID(bytes) IN
       requests' = [requests EXCEPT
                      !.id = sid, !.polling = Put(@, Key.sid, sid), !.uri = <<>>]

\* A probe: WS.uri, without a timestamp.
Probe ==
  /\ requests.id # <<>> /\ requests.transport = "polling"
  /\ LET query == createTransport(requests.option, "websocket", requests.id)
     IN  requests' = [requests EXCEPT
                        !.uri = Uri(IF requests.binary THEN query
                                    ELSE Put(query, Key.b64, <<"1">>)),
                        !.transport = "websocket", !.method = "GET"]

Next == Open \/ Handshake \/ Probe \/ \E method \in {"GET", "POST"} : Poll(method)

Spec == Init /\ [][Next]_requests

-----------------------------------------------------------------------------
\* Whatever the id of its session, its timestamp and the application's query, the
\* server finds in a request what the client has put there, though it does not
\* undo escapes: nothing of the protocol's own needs one.  So it accepts the
\* request for the session it belongs to, and knows whether the client can have
\* binary contents; the application's parameters arrive escaped, and whole.
UrisRead ==
  requests.uri # <<>> =>
    LET params == ParseUrl(requests.uri) IN
    /\ VerifyRequest(params, requests.method, requests.transport = "websocket",
                     requests.id)
    /\ GetGETParams(params, Key.sid) = requests.id
    /\ GetGETParams(params, Key.b64) = <<>> <=> requests.binary
    /\ \A i \in DOMAIN requests.option :
         LET p == requests.option[i] IN
         GetGETParams(params, encodeURIComponent(p[1])) = encodeURIComponent(p[2])

\* No two polling requests of a page have the same URI, so none is answered from
\* a cache, unless the clock was put back in between.
UrisDistinct == requests.back \/ IsInjective(requests.stamps)
=============================================================================
