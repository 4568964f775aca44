--------------------------- MODULE WebsocketCodec ---------------------------
(***************************************************************************)
(* The receiving side of a websocket connection (lib/woody/websocket):     *)
(* WebsocketHandler::OnData, WebsocketParser::Parse and WebsocketCodec,    *)
(* fed by a client that follows the protocol, over a TCP stream that cuts  *)
(* the bytes wherever it likes.                                            *)
(*                                                                         *)
(* A frame is its opcode, its fin bit, the sizes of its length field and   *)
(* of its body, and what the body says: which part it is of which message. *)
(* Bytes are counted, not spelled out.  OnData is a loop; one iteration is *)
(* one step, and nothing else runs on the connection until it breaks.      *)
(***************************************************************************)
EXTENDS Naturals, Sequences

CONSTANTS MaxFrames,      \* bound: frames the client sends
          MaxFragments,   \* bound: frames of one message
          Bodies,         \* sizes of bodies, in bytes
          LengthBytes,    \* sizes of the extended length field
          CutsHeader      \* the stream may end between the first two bytes

ASSUME ByteAssumption == Bodies \subseteq Nat /\ LengthBytes \subseteq Nat
ASSUME BoundAssumption ==
  MaxFrames \in Nat /\ MaxFragments \in Nat /\ CutsHeader \in BOOLEAN

Kind == {"text", "binary"}
Part == Nat \X Nat
Frame == [op : Kind \cup {"continuation", "ping"}, fin : BOOLEAN,
          ext : LengthBytes, size : Bodies, says : Part]
Message == [kind : Kind, body : Seq(Part)]
Errors == {"none", "Parser error", "Message not started yet.",
           "Received a new message before completing previous"}

VARIABLES
  frames,      \* frames not yet parsed to their end, oldest first
  wire,        \* bytes sent and not yet in the connection's input buffer
  input,       \* readable bytes of the input buffer
  taken,       \* bytes of the first frame the parser has taken
  running,     \* OnData is in its loop
  codec,       \* the members of WebsocketCodec, a record
  connected,   \* the TCP connection is up
  writing,     \* the message the client is in the middle of
  said,        \* the messages the client has finished
  count        \* frames sent so far

vars == <<frames, wire, input, taken, running, codec, connected,
          writing, said, count>>

\* current: cur_message_type_; text and binary: what the messages being
\* assembled hold; delivered: the messages given to the callbacks; error: the
\* reason of the first OnCodecError, after which the handler has called
\* forceClose, which takes effect in a later turn of the event loop.
CodecState ==
  [current : Kind \cup {"none"}, text : Seq(Part), binary : Seq(Part),
   delivered : Seq(Message), error : Errors]

Nothing == [kind |-> "text", body |-> <<>>]

Init ==
  /\ frames = <<>> /\ wire = 0 /\ input = 0 /\ taken = 0
  /\ running = FALSE /\ connected = TRUE
  /\ codec = [current |-> "none", text |-> <<>>, binary |-> <<>>,
              delivered |-> <<>>, error |-> "none"]
  /\ writing = Nothing /\ said = <<>> /\ count = 0

-----------------------------------------------------------------------------
(* Frames on the wire.                                                     *)

\* Two bytes, the extended length, and the masking key every client frame has.
HeaderSize(f) == 2 + f.ext + 4
FrameSize(f) == HeaderSize(f) + f.size

\* The bytes of the first k frames that are left.
Bytes(k) ==
  LET Sum[i \in 0..k] == IF i = 0 THEN 0 ELSE Sum[i - 1] + FrameSize(frames[i])
  IN  Sum[k]

Transmit(op, fin, part) ==
  \E ext \in LengthBytes, size \in Bodies :
    LET f == [op |-> op, fin |-> fin, ext |-> ext, size |-> size,
              says |-> part]
    IN  /\ count < MaxFrames
        /\ count' = count + 1
        /\ frames' = Append(frames, f)
        /\ wire' = wire + FrameSize(f)
        /\ UNCHANGED <<input, taken, running, codec, connected>>

\* What the next fragment says.
NextPart == <<Len(said) + 1, Len(writing.body) + 1>>

\* The first frame of a message, or all of it.
SendFirst(kind, fin) ==
  /\ connected /\ writing.body = <<>>
  /\ MaxFragments = 1 => fin
  /\ Transmit(kind, fin, NextPart)
  /\ LET m == [kind |-> kind, body |-> <<NextPart>>] IN
     /\ writing' = IF fin THEN Nothing ELSE m
     /\ said' = IF fin THEN Append(said, m) ELSE said

\* A continuation frame.
SendNext(fin) ==
  /\ connected /\ writing.body # <<>>
  /\ Len(writing.body) + 1 = MaxFragments => fin
  /\ Transmit("continuation", fin, NextPart)
  /\ LET m == [writing EXCEPT !.body = Append(@, NextPart)] IN
     /\ writing' = IF fin THEN Nothing ELSE m
     /\ said' = IF fin THEN Append(said, m) ELSE said

\* Control frames may come between the fragments of a message.
SendPing ==
  /\ connected
  /\ Transmit("ping", TRUE, <<0, 0>>)
  /\ UNCHANGED <<writing, said>>

\* Bytes arrive and the event loop calls WebsocketHandler::OnData.
Arrive ==
  \E n \in 1..wire :
    /\ connected /\ ~running
    /\ ~CutsHeader =>
         \A k \in 0..Len(frames) - 1 : taken + input + n # Bytes(k) + 1
    /\ wire' = wire - n
    /\ input' = input + n
    /\ running' = TRUE
    /\ UNCHANGED <<frames, taken, codec, connected, writing, said, count>>

-----------------------------------------------------------------------------
(* WebsocketCodec.                                                         *)

\* OnCodecError, which makes the handler call ForceClose.
CodecError(c, reason) ==
  IF c.error = "none" THEN [c EXCEPT !.error = reason] ELSE c

Assembled(c, kind) == IF kind = "text" THEN c.text ELSE c.binary

\* Mutant of Assemble: the message is not cleared after it is handed over.
AssembleUncleared(c, kind, f) ==
  LET body == Append(Assembled(c, kind), f.says)
      added == IF kind = "text" THEN [c EXCEPT !.text = body]
                                ELSE [c EXCEPT !.binary = body]
  IN  IF f.fin
      THEN [added EXCEPT !.delivered = Append(@, [kind |-> kind, body |-> body])]
      ELSE added

\* The bodies assembled so far, with f's; a final frame hands them over.
Assemble(c, kind, f) ==
  LET body == Append(Assembled(c, kind), f.says)
      kept == IF f.fin THEN <<>> ELSE body
      added == IF kind = "text" THEN [c EXCEPT !.text = kept]
                                ELSE [c EXCEPT !.binary = kept]
  IN  IF f.fin
      THEN [added EXCEPT !.delivered = Append(@, [kind |-> kind, body |-> body])]
      ELSE added

\* Mutant of OnFirstFrame: a whole message leaves cur_message_type_ set.
OnFirstFrameStaysOpen(c, f) ==
  IF c.current # "none"
  THEN CodecError(c, "Received a new message before completing previous")
  ELSE [Assemble(c, f.op, f) EXCEPT !.current = f.op]

\* OnTextFrame and OnBinaryFrame.
OnFirstFrame(c, f) ==
  IF c.current # "none"
  THEN CodecError(c, "Received a new message before completing previous")
  ELSE [Assemble(c, f.op, f) EXCEPT !.current = IF f.fin THEN "none" ELSE f.op]

\* OnContinuationFrame: the message counts as ended with any continuation.
OnContinuationFrame(c, f) ==
  IF c.current = "none"
  THEN CodecError(c, "Message not started yet.")
  ELSE [Assemble(c, c.current, f) EXCEPT !.current = "none"]

\* OnParsedFrame.  A ping reaches a callback that does nothing.
OnParsedFrame(c, f) ==
  CASE f.op \in Kind -> OnFirstFrame(c, f)
    [] f.op = "continuation" -> OnContinuationFrame(c, f)
    [] f.op = "ping" -> c

-----------------------------------------------------------------------------
(* WebsocketHandler::OnData and WebsocketParser::Parse.                    *)

\* A header that is not complete leaves the input as it is, and the loop
\* waits for more; one byte alone makes Parse return 0, which is false.
HeaderIncomplete ==
  /\ running /\ input > 0 /\ taken = 0 /\ input < HeaderSize(Head(frames))
  /\ codec' = IF input = 1 THEN CodecError(codec, "Parser error") ELSE codec
  /\ running' = FALSE
  /\ UNCHANGED <<frames, wire, input, taken, connected, writing, said, count>>

\* Mutant of ParseFrame: remain_body_len_ is not reduced by the part of the
\* body taken.
ParseFrameRestarts ==
  LET f == Head(frames) IN
  /\ running /\ input > 0
  /\ taken = 0 => input >= HeaderSize(f)
  /\ IF FrameSize(f) <= input
     THEN /\ codec' = OnParsedFrame(codec, f)
          /\ frames' = Tail(frames)
          /\ taken' = 0
          /\ input' = input - FrameSize(f)
     ELSE /\ taken' = taken + input
          /\ input' = 0
          /\ UNCHANGED <<codec, frames>>
  /\ UNCHANGED <<wire, running, connected, writing, said, count>>

\* The header, unless it was taken before, and what there is of the body.
ParseFrame ==
  LET f == Head(frames)
      need == FrameSize(f) - taken
  IN  /\ running /\ input > 0
      /\ taken = 0 => input >= HeaderSize(f)
      /\ IF need <= input
         THEN /\ codec' = OnParsedFrame(codec, f)
              /\ frames' = Tail(frames)
              /\ taken' = 0
              /\ input' = input - need
         ELSE /\ taken' = taken + input
              /\ input' = 0
              /\ UNCHANGED <<codec, frames>>
      /\ UNCHANGED <<wire, running, connected, writing, said, count>>

\* `while (buf->readableBytes() > 0)' ends.
InputEmpty ==
  /\ running /\ input = 0
  /\ running' = FALSE
  /\ UNCHANGED <<frames, wire, input, taken, codec, connected, writing, said,
                 count>>

\* TcpConnection::forceCloseInLoop.
ForceClose ==
  /\ connected /\ ~running /\ codec.error # "none"
  /\ connected' = FALSE
  /\ UNCHANGED <<frames, wire, input, taken, running, codec, writing, said,
                 count>>

-----------------------------------------------------------------------------
OnData == HeaderIncomplete \/ ParseFrame \/ InputEmpty

Next ==
  \/ \E kind \in Kind, fin \in BOOLEAN : SendFirst(kind, fin)
  \/ \E fin \in BOOLEAN : SendNext(fin)
  \/ SendPing \/ Arrive \/ OnData \/ ForceClose

Spec == Init /\ [][Next]_vars

\* Bytes that were sent arrive, and the loop runs on.
FairSpec == Spec /\ WF_vars(Arrive) /\ WF_vars(OnData)

-----------------------------------------------------------------------------
TypeOK ==
  /\ frames \in Seq(Frame)
  /\ wire \in Nat /\ input \in Nat /\ taken \in Nat
  /\ running \in BOOLEAN /\ connected \in BOOLEAN
  /\ codec \in CodecState
  /\ writing \in Message /\ said \in Seq(Message)
  /\ count \in 0..MaxFrames

\* The parser never loses its place: what it has taken of a frame is at least
\* the header and less than the frame, and the bytes in the buffer and on the
\* wire are exactly the rest of the frames that are left (in a state of the
\* right type).
InStep ==
  /\ TypeOK
  /\ input + wire + taken = Bytes(Len(frames))
  /\ taken # 0 => /\ HeaderSize(frames[1]) <= taken
                  /\ taken < FrameSize(frames[1])

\* The callbacks are given the client's messages whole and in order, however
\* the stream was cut, whatever control frames came between the fragments, and
\* up to the end of a connection that is being closed for an error.
DeliveredWhole ==
  /\ Len(codec.delivered) <= Len(said)
  /\ codec.delivered = SubSeq(said, 1, Len(codec.delivered))

\* Every message of a client that follows the protocol is delivered, unless a
\* read ended after the first byte of a frame, which closes the connection.
AllDelivered ==
  \A n \in 1..MaxFrames :
    (Len(said) >= n) ~> \/ Len(codec.delivered) >= n
                        \/ codec.error = "Parser error"

\* A continuation frame is refused as not started only when none was started.
RefusedOnlyIfNotStarted == codec.error # "Message not started yet."
=============================================================================
