--------------------------- MODULE WebsocketFrame ---------------------------
(***************************************************************************)
(* The header of a websocket frame byte by byte: how WebsocketCodec writes *)
(* it (ConvertMessageToFrame, ConvertFrameToString) and how                *)
(* WebsocketParser reads it back, with what HandleFrameBody makes of the   *)
(* masking key.  A connection reads one frame after the other with the     *)
(* same parser, whose masking_key_ outlives the frame.                     *)
(*                                                                         *)
(* A body is its length; a key is four bytes.  Lengths are below 2^31,     *)
(* which leaves out the frame that is too large to be written.             *)
(***************************************************************************)
EXTENDS Integers, Texts, Numerals

CONSTANTS Lengths,    \* the lengths of bodies
          Keys,       \* masking keys, sequences of four bytes
          MaxFrames   \* bound: frames on one connection

\* 0: continuation, 1: text, 2: binary, 8: close, 9: ping, 10: pong.
Opcodes == {0, 1, 2, 8, 9, 10}
NoKey == <<0, 0, 0, 0>>

VARIABLES
  frame,      \* the latest frame
  key,        \* masking_key_ of the parser that has read it
  before,     \* masking_key_ before that: of an earlier frame, or never set
  count       \* frames so far

\* What the server writes, and what the client does.
ServerFrame == [fin : {1}, opcode : {1, 2, 8, 9, 10}, mask : {0},
                length : Lengths, key : {NoKey}]
ClientFrame == [fin : {0, 1}, opcode : {0, 1, 2}, mask : {1},
                length : Lengths, key : Keys]

Init ==
  /\ frame = [fin |-> 1, opcode |-> 1, mask |-> 0, length |-> 0, key |-> NoKey]
  /\ key \in Keys /\ before = key /\ count = 0

-----------------------------------------------------------------------------
\* The n bytes of a number, most significant first (HostToNetwork64).
Weight == <<1, 256, 65536, 256 * 65536>>
BigEndian(k, n) ==
  [i \in 1..n |-> IF n - i > 3 THEN 0 ELSE (k \div Weight[n - i + 1]) % 256]
Number(bytes) == NumberOf(bytes, 256)

\* Mutant of LengthField: the length in the byte order of the host.
LittleEndian(k, n) == [i \in 1..n |-> BigEndian(k, n)[n - i + 1]]
LengthFieldHost(k) ==
  IF k <= 125 THEN <<k>>
  ELSE IF k <= 255 THEN <<126>> \o LittleEndian(k, 2)
  ELSE <<127>> \o LittleEndian(k, 8)

\* ConvertFrameToString: the two-byte form ends at 0xff, not at 0xffff.
LengthField(k) ==
  IF k <= 125 THEN <<k>>
  ELSE IF k <= 255 THEN <<126>> \o BigEndian(k, 2)
  ELSE <<127>> \o BigEndian(k, 8)

\* ConvertFrameToString, up to the body.
ConvertFrameToString(f) ==
  LET field == LengthField(f.length) IN
  <<f.fin * 128 + f.opcode, f.mask * 128 + Head(field)>> \o Tail(field)
    \o (IF f.mask = 1 THEN f.key ELSE <<>>)

\* WebsocketParser::Parse on a header that is there to its last byte; `used'
\* counts the bytes.
Parse(bytes, old) ==
  LET short == bytes[2] % 128
      ext == CASE short = 127 -> 8 [] short = 126 -> 2 [] OTHER -> 0
      mask == bytes[2] \div 128
  IN  [fin |-> bytes[1] \div 128, opcode |-> bytes[1] % 16, mask |-> mask,
       length |-> IF ext = 0 THEN short ELSE Number(SubSeq(bytes, 3, 2 + ext)),
       key |-> IF mask = 1 THEN SubSeq(bytes, 3 + ext, 6 + ext) ELSE old,
       used |-> 2 + ext + 4 * mask]

\* HandleFrameBody of a server: the body is unmasked if there is a key, and
\* refused if the key is zero; an empty body is left alone.
HandleFrameBody(f) ==
  CASE f.length = 0 -> "empty"
    [] f.length # 0 /\ f.key # NoKey -> "unmasked"
    [] f.length # 0 /\ f.key = NoKey -> "Missing mask."

-----------------------------------------------------------------------------
Header(f) == ConvertFrameToString(f)

\* The next frame of the connection is read.
Read ==
  /\ count < MaxFrames
  /\ \E f \in ServerFrame \cup ClientFrame :
       /\ frame' = f
       /\ key' = Parse(Header(f), key).key
  /\ before' = key /\ count' = count + 1

Spec == Init /\ [][Read]_<<frame, key, before, count>>

-----------------------------------------------------------------------------
\* The parser reads what the codec writes: the flags, the length in each of
\* its three forms, and the key, to the last byte of the header and no
\* further, whatever the frame before has left behind.
HeaderReadBack ==
  LET read == Parse(Header(frame), before) IN
  /\ read.used = Len(Header(frame))
  /\ \A field \in {"fin", "opcode", "mask", "length"} : read[field] = frame[field]
  /\ frame.mask = 1 => read.key = frame.key

\* A client's body is unmasked with its own key; it is refused when that key
\* happens to be zero, and then only.
ClientUnmasked ==
  frame \in ClientFrame /\ frame.length # 0 =>
    LET read == Parse(Header(frame), before) IN
    HandleFrameBody(read) = IF frame.key = NoKey THEN "Missing mask." ELSE "unmasked"
=============================================================================
