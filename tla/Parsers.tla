------------------------------ MODULE Parsers ------------------------------
(***************************************************************************)
(* The formats on the way of a message, side by side and one inside the    *)
(* other: events with binary arguments, socket.io packets, engine.io       *)
(* payloads, the characters in them, websocket frames, URIs.  Each has inputs of *)
(* its own; the others stay at their first one meanwhile.                  *)
(***************************************************************************)
EXTENDS Integers, Texts

CONSTANTS Types, Texts, Blobs, MaxPackets,        \* of EngineParser
          Names, Ids, Json, Plain,                \* of SocketioParser
          Lengths, Keys, MaxFrames,               \* of WebsocketFrame
          Units, Octets, MaxUnits, MaxOctets,     \* of Utf8
          Shapes, MaxEvents, MaxOpened,           \* of BinaryEvents
          Queries, Randoms, Times, MaxStamps      \* of RequestUri

Figures == {"0", "1", "2", "3", "4", "5", "6", "7", "8", "9"}

\* What is written in quotes is text.
ASSUME LiteralsAssumption == Figures \cup {"/", ","} \subseteq STRING

\* A packet has one of the types that the server knows; its body is bytes, or
\* characters by their numbers.
ASSUME PayloadsAssumption ==
  Types \subseteq 1..6 /\ Texts \subseteq Seq(Nat) /\ Blobs \subseteq Seq(Nat)

\* Lengths that fit a signed int; keys of four bytes.
ASSUME FramesAssumption ==
  /\ \A k \in Lengths : k \in Nat /\ k \div 65536 < 32768
  /\ Keys \subseteq [1..4 -> 0..255]

\* The code units of JavaScript, and bytes.
ASSUME CharactersAssumption ==
  /\ \A u \in Units : u \in Nat /\ u < 65536
  /\ \A b \in Octets : b \in Nat /\ b < 256

\* The arguments of an event that are no JSON: Blob and File, or buffers.
ASSUME ShapesAssumption == Shapes \subseteq Seq({"blob", "buffer"})

\* Milliseconds since 1970: +new Date().
ASSUME TimesAssumption == Times \subseteq Nat

\* A namespace starts with a slash, which alone names the root, and has no comma.
\* No body starts with a slash, and JSON not with a digit; -1 is no id.
ASSUME PacketsAssumption ==
  /\ Names \cup Json \cup Plain \subseteq Seq(STRING) \ {<<>>}
  /\ \A n \in Names : Len(n) > 1 /\ n[1] = "/" /\ \A i \in 1..Len(n) : n[i] # ","
  /\ \A b \in Json \cup Plain : b[1] # "/"
  /\ \A b \in Json : b[1] \notin Figures
  /\ Ids \subseteq Nat \cup {-1}

VARIABLES packets, packet, frame, key, before, count, text, octets,
          manager, jobs, wire, reconstructor, decoded, history, requests

Payloads == INSTANCE EngineParser
Socketio == INSTANCE SocketioParser
Frames == INSTANCE WebsocketFrame
Characters == INSTANCE Utf8
Binary == INSTANCE BinaryEvents
Requests == INSTANCE RequestUri

\* The application's query has each key once, and none of the protocol's.
ASSUME UrisAssumption ==
  /\ Requests!Writable \cup {"?"} \subseteq STRING
  /\ \A q \in Queries :
       /\ q \in Seq(Seq(Requests!Writable) \X Seq(Requests!Writable))
       /\ \A i, j \in DOMAIN q : q[i][1] = q[j][1] => i = j
       /\ \A i \in DOMAIN q : q[i][1] \notin Range(Requests!Key)
  /\ Randoms \subseteq [1..15 -> 0..255]

framing == <<frame, key, before, count>>
strings == <<text, octets>>
binary == <<manager, jobs, wire, reconstructor, decoded, history>>
vars == <<packets, packet, framing, strings, binary, requests>>

Init ==
  /\ Payloads!Init /\ Socketio!Init /\ Frames!Init
  /\ Characters!Init /\ Binary!Init /\ Requests!Init

\* What stays at its first input.
PayloadsRest == Payloads!Init /\ UNCHANGED packets
SocketioRest == Socketio!Init /\ UNCHANGED packet
FramesRest == count = 0 /\ key = Frames!NoKey /\ UNCHANGED framing
CharactersRest == Characters!Init /\ UNCHANGED strings
BinaryRest == Binary!Init /\ UNCHANGED binary
RequestsRest == Requests!Init /\ UNCHANGED requests

Next ==
  \/ /\ Payloads!Write
     /\ SocketioRest /\ FramesRest /\ CharactersRest /\ BinaryRest /\ RequestsRest
  \/ /\ Socketio!Another
     /\ PayloadsRest /\ FramesRest /\ CharactersRest /\ BinaryRest /\ RequestsRest
  \/ /\ Frames!Read
     /\ PayloadsRest /\ SocketioRest /\ CharactersRest /\ BinaryRest /\ RequestsRest
  \/ /\ Characters!Next
     /\ PayloadsRest /\ SocketioRest /\ FramesRest /\ BinaryRest /\ RequestsRest
  \/ /\ Binary!Next
     /\ PayloadsRest /\ SocketioRest /\ FramesRest /\ CharactersRest /\ RequestsRest
  \/ /\ Requests!Next
     /\ PayloadsRest /\ SocketioRest /\ FramesRest /\ CharactersRest /\ BinaryRest

Spec == Init /\ [][Next]_vars

-----------------------------------------------------------------------------
(* Texts as bytes: SocketioParser has characters, EngineParser their codes. *)

Ascii ==
  LET char == <<"quote", ",", "/", "0", "1", "2", "3", "4", "5", "6", "7", "8",
                "9", "I", "[", "]", "a", "n", "v">>
      code == <<34, 44, 47, 48, 49, 50, 51, 52, 53, 54, 55, 56,
                57, 73, 91, 93, 97, 110, 118>>
  IN  [char |-> char, code |-> code]

\* What there is a code for is all that these texts are written in.
ASSUME AsciiAssumption == Names \cup Json \subseteq Seq(Range(Ascii.char))

BytesOf(s) ==
  [i \in DOMAIN s |-> Ascii.code[SelectInSeq(Ascii.char, LAMBDA c : c = s[i])]]
TextOf(bytes) ==
  [i \in DOMAIN bytes |-> Ascii.char[SelectInSeq(Ascii.code, LAMBDA c : c = bytes[i])]]

\* The engine.io message that carries a socket.io packet of the server.
Carried(p) == [type |-> 4, body |-> BytesOf(Socketio!Encode(p)), raw |-> FALSE]

-----------------------------------------------------------------------------
\* Each side reads the payloads of the other: textual ones of the server and
\* binary ones of the client packet by packet, whatever separators, digits and
\* types the bodies hold; of a binary payload of the server its last packet;
\* and no packet is made up of a textual payload of the client that the server
\* does not understand.
PayloadsRead ==
  /\ Payloads!TextReadByClient /\ Payloads!BinaryReadByServer
  /\ Payloads!LastReadByClient /\ Payloads!ShortTextRefused

\* The server routes every packet of the client right, and reads those of the
\* root namespace whole.
PacketsRead == Socketio!RoutedByServer /\ Socketio!RootReadByServer

\* Packets of the server that wait for one poll, each a text inside the text
\* of the payload, come out of the client's two parsers as they went in: the
\* commas, slashes and digits of one format do not disturb the other.
PathFaithful ==
  packet.id # 0 /\ packet.body \notin Plain =>
    LET sent == <<Carried(packet),
                  Carried([packet EXCEPT !.nsp = Socketio!Root, !.id = -1])>>
        read == Payloads!ClientReads(Payloads!EncodePayloadAsText(sent))
    IN  /\ Len(read) = 2
        /\ Socketio!ClientDecode(TextOf(read[1].body)) = packet

\* The header of a frame is read back as it was written, and a client's body
\* is unmasked with the key it was masked with.
FramesRead == Frames!HeaderReadBack /\ Frames!ClientUnmasked

\* The characters of texts.  The server keeps the bytes of a text; it writes
\* them as they are, and so do binary payloads.
Sent(bytes) == [type |-> 4, body |-> bytes, raw |-> FALSE]
Blob == [type |-> 4, body |-> <<255>>, raw |-> TRUE]
Bodies(read) == [i \in DOMAIN read |-> Characters!utf8decode(read[i].body)]

\* What a page has of a textual answer is the characters of its bytes.
ResponseText(bytes) == Characters!utf8decode(bytes)

\* A text arrives as it was written, in both directions of binary payloads.
\* A textual payload of the server, whose lengths count bytes, is read if all
\* its texts are ASCII, and then only: the client counts characters.
CharactersRead ==
  /\ Characters!EncodedOnce
  /\ ~Characters!Lone(text) =>
       LET bytes == Characters!utf8encode(text)
           two == <<Sent(bytes), Sent(<<97>>)>>
       IN  /\ Payloads!DecodePayload(Payloads!ClientBinary(<<Blob, Sent(bytes)>>))[2].body
                = bytes
           /\ Bodies(Payloads!ClientReadsBinary(Payloads!EncodePayloadAsBinary(<<two[1]>>)))
                = <<text>>
           /\ Bodies(Payloads!ClientReads(
                ResponseText(Payloads!EncodePayloadAsText(two)))) = <<text, <<97>>>>
                <=> \A i \in DOMAIN text : text[i] < 128

\* A packet that is put together has its own binary arguments, whatever is
\* encoded side by side and wherever it ends up.
ArgumentsWhole == Binary!ArgumentsWhole

\* Packets arrive in the order of their emits, though some wait for blobs and
\* connections are lost meanwhile, unless one of an earlier connection is
\* written on a later one; and the queue never waits for nobody.
EmittedInOrder == Binary!EmittedInOrder

\* The server finds in the URI of a request what the client has put there, and
\* knows the session it belongs to, though it does not undo escapes.
UrisRead == Requests!UrisRead

\* No two polling requests of a page have the same URI while its clock goes on.
UrisDistinct == Requests!UrisDistinct

\* The server reads the textual payloads of the client.
TextReadByServer == Payloads!TextReadByServer
=============================================================================
