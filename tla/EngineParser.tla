---------------------------- MODULE EngineParser ----------------------------
(***************************************************************************)
(* Payloads of the polling transport: engineio::Parser (lib/engineio), and *)
(* the parser of the client (example/chat/static/socket.io.js) that reads  *)
(* what it writes and writes what it reads.  A byte or a character is its  *)
(* number; the text is ASCII.  The queue `packets' grows by one packet a   *)
(* step, and the properties are about the payload made of it.              *)
(*                                                                         *)
(* Left out: base64 packets, empty payloads, lengths too long for an int.  *)
(***************************************************************************)
EXTENDS Integers, Texts, Numerals

CONSTANTS Types,        \* packet types in use, 1..6
          Texts,        \* the bodies of packets with textual contents
          Blobs,        \* the bodies of packets with binary contents
          MaxPackets    \* bound: packets in a payload

VARIABLE packets

\* raw: the client has binary contents for the packet (an ArrayBuffer).
Packet == [type : Types, body : Texts, raw : {FALSE}]
            \cup [type : {4}, body : Blobs, raw : {TRUE}]

Init == packets = <<>>

\* Queue a packet.
Write ==
  /\ Len(packets) < MaxPackets
  /\ \E p \in Packet : packets' = Append(packets, p)

Spec == Init /\ [][Write]_packets

-----------------------------------------------------------------------------
Colon == 58
Zero == 48

\* The decimal digits of n, as numbers and as characters.
Digits(n) == InBase(n, 10)
IntToString(n) == [i \in DOMAIN Digits(n) |-> Zero + Digits(n)[i]]

After(s, i) == SubSeq(s, i + 1, Len(s))

\* string(s, i, n), or what there is of it.
Slice(s, i, n) == SubSeq(s, i + 1, IF i + n > Len(s) THEN Len(s) ELSE i + n)
Index(s, c) == SelectInSeq(s, LAMBDA x : x = c)
Strings(q) == \A i \in 1..Len(q) : ~q[i].raw
Stripped(q) == [i \in 1..Len(q) |-> [type |-> q[i].type, body |-> q[i].body]]

-----------------------------------------------------------------------------
(* The server writes.                                                      *)

EncodePacket(p) == IntToString(p.type) \o p.body

EncodePayloadAsText(q) ==
  FlattenSeq([i \in 1..Len(q) |->
    LET r == EncodePacket(q[i]) IN IntToString(Len(r)) \o <<Colon>> \o r])

\* `result = buf + d' in the loop: the last packet is what is left.
EncodePayloadAsBinary(q) ==
  LET d == EncodePacket(q[Len(q)]) IN <<0>> \o Digits(Len(d)) \o <<255>> \o d

(* The server reads.                                                       *)

BinaryStringToInt(s) == NumberOf(s, 10)

\* Mutant of DecodePacket: the type is always a character.
DecodePacketAsText(s) == [type |-> s[1] - Zero, body |-> Tail(s)]

DecodePacket(s) ==
  [type |-> IF s[1] > Zero THEN s[1] - Zero ELSE s[1], body |-> Tail(s)]

\* A message without a single byte is passed over.
Packets(msg) == IF msg = <<>> THEN <<>> ELSE <<DecodePacket(msg)>>

\* The packets decoded before the payload ends or an error is found; the
\* transport handles them, whatever DecodePayload returns.
DecodeFrom(data, skipped, separator) ==
  LET decoded[d \in Seq(Nat)] ==
        LET i == Index(d, separator)
            len == BinaryStringToInt(SubSeq(d, skipped + 1, i - 1))
        IN  IF i <= skipped + 1 \/ i + len > Len(d) THEN <<>>
            ELSE Packets(Slice(d, i, len)) \o decoded[After(d, i + len)]
  IN  decoded[data]

DecodePayloadAsBinary(data) == DecodeFrom(data, 1, 255)

DecodePayload(data) ==
  IF data[1] > Zero THEN DecodeFrom(data, 0, Colon)
                    ELSE DecodePayloadAsBinary(data)

-----------------------------------------------------------------------------
(* The client (socket.io.js, engine.io-parser).                            *)

\* encodePacket: a string, or bytes with the type as a number.
ClientPacket(p) == (IF p.raw THEN <<p.type>> ELSE IntToString(p.type)) \o p.body

\* encodePayloadAsArrayBuffer and encodePayloadAsBlob.
ClientBinary(q) ==
  FlattenSeq([i \in 1..Len(q) |->
    LET d == ClientPacket(q[i]) IN
    <<IF q[i].raw THEN 1 ELSE 0>> \o Digits(Len(d)) \o <<255>> \o d])

\* encodePayload: binary only when some packet has binary contents.
ClientPayload(q) == IF Strings(q) THEN EncodePayloadAsText(q) ELSE ClientBinary(q)

ClientNumber(s) == NumberOf(s, 10)

\* decodePayload: a length that is not a number, or does not fit, is an error.
ClientReads(data) ==
  LET reads[d \in Seq(Nat)] ==
        LET i == Index(d, Colon)
            length == [k \in 1..i - 1 |-> d[k] - Zero]
            n == ClientNumber(length)
        IN  IF i <= 1 \/ ~(Range(length) \subseteq 0..9) \/ i + n > Len(d) THEN <<>>
            ELSE Packets(Slice(d, i, n)) \o reads[After(d, i + n)]
  IN  reads[data]

\* decodePayloadAsBinary.  What has no separator has no length either.
ClientReadsBinary(data) ==
  LET reads[d \in Seq(Nat)] ==
        LET i == Index(d, 255)
            n == ClientNumber(SubSeq(d, 2, i - 1))
        IN  IF i = 0 THEN <<>>
            ELSE Packets(Slice(d, i, n)) \o reads[After(d, i + n)]
  IN  reads[data]

-----------------------------------------------------------------------------
\* A textual payload of the server is read by the client packet by packet,
\* whatever colons and digits the bodies hold.
TextReadByClient ==
  Strings(packets) => ClientReads(EncodePayloadAsText(packets)) = Stripped(packets)

\* A binary payload of the client is read by the server packet by packet,
\* though separator bytes and numeric types are among its contents.
BinaryReadByServer ==
  ~Strings(packets) => DecodePayload(ClientPayload(packets)) = Stripped(packets)

\* A binary payload of the server holds its last packet, and that one whole.
LastReadByClient ==
  packets # <<>> /\ Strings(packets) =>
    ClientReadsBinary(EncodePayloadAsBinary(packets))
      = Stripped(<<packets[Len(packets)]>>)

\* No packet is made up out of a textual payload that is shorter than the
\* least length the server reads from it (the character code of a digit).
ShortTextRefused ==
  packets # <<>> /\ Strings(packets) =>
    LET data == ClientPayload(packets) IN
    Len(data) < Zero => DecodePayload(data) = <<>>

\* The server reads the textual payloads of the client ("<length>:data").
TextReadByServer ==
  packets # <<>> /\ Strings(packets) =>
    DecodePayload(ClientPayload(packets)) = Stripped(packets)
=============================================================================
