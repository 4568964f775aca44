------------------------ MODULE WebsocketCodecProofs ------------------------
(***************************************************************************)
(* For any number of frames of any size, however the stream is cut: the    *)
(* parser keeps its place, and what it hands over are the client's         *)
(* messages (of two fragments at most).                                    *)
(***************************************************************************)
EXTENDS WebsocketCodec, SequenceTheorems, TLAPS

-----------------------------------------------------------------------------
(* Types.                                                                  *)

LEMMA SizesTyped ==
  ASSUME NEW f \in Frame
  PROVE  /\ HeaderSize(f) \in Nat /\ FrameSize(f) \in Nat
         /\ 6 <= HeaderSize(f) /\ HeaderSize(f) <= FrameSize(f)
<1>1. f.ext \in LengthBytes /\ f.size \in Bodies
  BY DEF Frame
<1>2. f.ext \in Nat /\ f.size \in Nat
  BY <1>1, ByteAssumption
<1> QED
  BY <1>2 DEF HeaderSize, FrameSize

\* The codec's callbacks keep its members' types.
LEMMA CodecTyped ==
  ASSUME NEW c \in CodecState, NEW f \in Frame
  PROVE  OnParsedFrame(c, f) \in CodecState
<1>1. ASSUME NEW reason \in Errors PROVE CodecError(c, reason) \in CodecState
  BY DEF CodecError, CodecState
<1>2. ASSUME NEW kind \in Kind PROVE Assemble(c, kind, f) \in CodecState
  <2> DEFINE body == Append(Assembled(c, kind), f.says)
             kept == IF f.fin THEN <<>> ELSE body
             m == [kind |-> kind, body |-> body]
  <2>1. body \in Seq(Part) /\ kept \in Seq(Part)
    BY DEF Assembled, CodecState, Frame
  <2>2. m \in Message
    BY <2>1 DEF Message
  <2>3. Append(c.delivered, m) \in Seq(Message)
    BY <2>2 DEF CodecState
  <2> HIDE DEF body, kept, m
  <2>4. /\ [c EXCEPT !.text = kept] \in CodecState
        /\ [c EXCEPT !.binary = kept] \in CodecState
        /\ [c EXCEPT !.text = kept].delivered = c.delivered
        /\ [c EXCEPT !.binary = kept].delivered = c.delivered
    BY <2>1 DEF CodecState
  <2>5. ASSUME NEW d \in CodecState, d.delivered = c.delivered
        PROVE  [d EXCEPT !.delivered = Append(@, m)] \in CodecState
    BY <2>3, <2>5 DEF CodecState
  <2> QED
    BY <2>4, <2>5 DEF Assemble, body, kept, m
<1>3. ASSUME NEW d \in CodecState, NEW k \in Kind \cup {"none"}
      PROVE  [d EXCEPT !.current = k] \in CodecState
  BY DEF CodecState
<1>4. /\ "Message not started yet." \in Errors
      /\ "Received a new message before completing previous" \in Errors
  BY DEF Errors
<1>5. CASE f.op \in Kind
  <2>1. OnFirstFrame(c, f) \in CodecState
    BY <1>1, <1>2, <1>3, <1>4, <1>5 DEF OnFirstFrame
  <2> QED
    BY <1>5, <2>1 DEF OnParsedFrame, Kind
<1>6. CASE f.op = "continuation"
  <2>1. c.current # "none" => c.current \in Kind
    BY DEF CodecState
  <2>2. OnContinuationFrame(c, f) \in CodecState
    BY <1>1, <1>2, <1>3, <1>4, <2>1 DEF OnContinuationFrame
  <2> QED
    BY <1>6, <2>2 DEF OnParsedFrame, Kind
<1>7. CASE f.op = "ping"
  BY <1>7 DEF OnParsedFrame, Kind
<1> QED
  BY <1>5, <1>6, <1>7 DEF Frame

-----------------------------------------------------------------------------
(* The bytes of the frames that are left.  The sums are a recursive        *)
(* function of the frames; that it exists and is the only one is carried   *)
(* from state to state, for the frames that are left after any of them.    *)

IsSum(T, fs, j) ==
  T = [i \in 0..Len(fs) - j |-> IF i = 0 THEN 0 ELSE T[i - 1] + FrameSize(fs[i + j])]

IsOnlySum(S, fs, j) == IsSum(S, fs, j) /\ \A T : IsSum(T, fs, j) => T = S

Summed(fs) ==
  \A j \in 0..Len(fs) : \E S \in [0..Len(fs) - j -> Nat] : IsOnlySum(S, fs, j)

Total(fs) == (CHOOSE T : IsSum(T, fs, 0))[Len(fs)]

LEMMA BytesTotal == frames \in Seq(Frame) => Bytes(Len(frames)) = Total(frames)
<1> SUFFICES ASSUME frames \in Seq(Frame) PROVE Bytes(Len(frames)) = Total(frames)
  OBVIOUS
<1>1. ASSUME NEW T
      PROVE  IsSum(T, frames, 0) <=>
               T = [i \in 0..Len(frames) |->
                      IF i = 0 THEN 0 ELSE T[i - 1] + FrameSize(frames[i])]
  BY DEF IsSum
<1> QED
  BY <1>1 DEF Total, Bytes

LEMMA OnlySumTotal ==
  ASSUME NEW fs, NEW S, IsOnlySum(S, fs, 0)
  PROVE  Total(fs) = S[Len(fs)]
BY DEF IsOnlySum, Total

LEMMA EmptySummed == Summed(<<>>) /\ Total(<<>>) = 0
<1> DEFINE S == [i \in 0..0 |-> 0]
<1>1. \A T : IsSum(T, <<>>, 0) <=> T = S
  <2> SUFFICES ASSUME NEW T
               PROVE  IsSum(T, <<>>, 0) <=> T = S
    OBVIOUS
  <2>1. [i \in 0..Len(<<>>) - 0 |-> IF i = 0 THEN 0 ELSE T[i - 1] + FrameSize(<<>>[i + 0])] = S
    OBVIOUS
  <2> QED
    BY <2>1 DEF IsSum
<1>2. IsOnlySum(S, <<>>, 0)
  BY <1>1 DEF IsOnlySum
<1>3. S \in [0..Len(<<>>) - 0 -> Nat] /\ S[Len(<<>>)] = 0 /\ 0..Len(<<>>) = {0}
  OBVIOUS
<1>4. Summed(<<>>)
  BY <1>2, <1>3 DEF Summed
<1> QED
  BY <1>2, <1>3, <1>4, OnlySumTotal

LEMMA AppendSummed ==
  ASSUME NEW fs \in Seq(Frame), NEW f \in Frame, Summed(fs)
  PROVE  /\ Summed(Append(fs, f))
         /\ Total(Append(fs, f)) = Total(fs) + FrameSize(f)
         /\ Total(fs) \in Nat
<1> DEFINE gs == Append(fs, f)
           n == Len(fs)
<1>1. /\ n \in Nat /\ Len(gs) = n + 1 /\ gs[n + 1] = f
      /\ \A i \in 1..n : gs[i] = fs[i]
      /\ gs \in Seq(Frame)
  OBVIOUS
<1>2. FrameSize(f) \in Nat
  BY SizesTyped
<1> HIDE DEF gs
<1>3. ASSUME NEW j \in 0..n, NEW S \in [0..n - j -> Nat], IsOnlySum(S, fs, j)
      PROVE  \E R \in [0..Len(gs) - j -> Nat] :
               IsOnlySum(R, gs, j) /\ R[n + 1 - j] = S[n - j] + FrameSize(f)
  <2> DEFINE R == [i \in 0..n + 1 - j |-> IF i <= n - j THEN S[i] ELSE S[n - j] + FrameSize(f)]
  <2>1. R \in [0..Len(gs) - j -> Nat] /\ R[n + 1 - j] = S[n - j] + FrameSize(f)
    BY <1>1, <1>2
  <2>2. S = [i \in 0..n - j |-> IF i = 0 THEN 0 ELSE S[i - 1] + FrameSize(fs[i + j])]
    BY <1>3 DEF IsOnlySum, IsSum
  <2>3. ASSUME NEW i \in 0..n + 1 - j
        PROVE  R[i] = IF i = 0 THEN 0 ELSE R[i - 1] + FrameSize(gs[i + j])
    <3>1. CASE i = 0
      BY <3>1, <2>2
    <3>2. CASE i # 0 /\ i <= n - j
      <4>1. R[i] = S[i] /\ R[i - 1] = S[i - 1] /\ gs[i + j] = fs[i + j]
        BY <3>2, <1>1
      <4>2. S[i] = S[i - 1] + FrameSize(fs[i + j])
        BY <3>2, <2>2
      <4> QED
        BY <4>1, <4>2, <3>2
    <3>3. CASE i = n + 1 - j
      <4>1. R[i - 1] = S[n - j] /\ gs[i + j] = f /\ i # 0
        BY <3>3, <1>1
      <4> QED
        BY <4>1, <3>3, <2>1
    <3> QED
      BY <3>1, <3>2, <3>3, <1>1
  <2>4. IsSum(R, gs, j)
    <3>1. R = [i \in 0..n + 1 - j |-> R[i]] /\ Len(gs) - j = n + 1 - j
      BY <1>1
    <3> HIDE DEF R
    <3> QED
      BY <2>3, <3>1 DEF IsSum
  <2>5. ASSUME NEW T, IsSum(T, gs, j) PROVE T = R
    <3>1. T = [i \in 0..n + 1 - j |-> IF i = 0 THEN 0 ELSE T[i - 1] + FrameSize(gs[i + j])]
      <4>1. Len(gs) - j = n + 1 - j
        BY <1>1
      <4> QED
        BY <2>5, <4>1, Zenon DEF IsSum
    <3> DEFINE Q == [i \in 0..n - j |-> T[i]]
    <3>2. ASSUME NEW i \in 0..n - j
          PROVE  Q[i] = IF i = 0 THEN 0 ELSE Q[i - 1] + FrameSize(fs[i + j])
      <4>1. CASE i = 0
        BY <4>1, <3>1
      <4>2. CASE i # 0
        <5>0. i \in 0..n + 1 - j /\ i - 1 \in 0..n - j /\ i + j \in 1..n
          BY <4>2, <1>1
        <5>1. Q[i] = T[i] /\ Q[i - 1] = T[i - 1] /\ gs[i + j] = fs[i + j]
          BY <5>0, <1>1
        <5>2. T[i] = T[i - 1] + FrameSize(gs[i + j])
          BY <4>2, <5>0, <3>1
        <5> QED
          BY <5>1, <5>2, <4>2
      <4> QED
        BY <4>1, <4>2
    <3>3. IsSum(Q, fs, j)
      BY <3>2 DEF IsSum
    <3>4. Q = S
      BY <3>3, <1>3 DEF IsOnlySum
    <3>5. ASSUME NEW i \in 0..n - j PROVE T[i] = S[i]
      BY <3>4
    <3>6. T[n + 1 - j] = S[n - j] + FrameSize(f)
      <4>1. T[n + 1 - j] = T[n - j] + FrameSize(f)
        BY <3>1, <1>1
      <4> QED
        BY <4>1, <3>5
    <3>7. ASSUME NEW i \in 0..n + 1 - j PROVE T[i] = R[i]
      BY <3>5, <3>6
    <3>8. T = [i \in 0..n + 1 - j |-> T[i]]
      BY <3>1
    <3> QED
      BY <3>7, <3>8
  <2> QED
    BY <2>1, <2>4, <2>5 DEF IsOnlySum
<1>4. \E R \in [0..Len(gs) - (n + 1) -> Nat] : IsOnlySum(R, gs, n + 1)
  <2> DEFINE R == [i \in 0..0 |-> 0]
  <2>1. R \in [0..Len(gs) - (n + 1) -> Nat]
    BY <1>1
  <2>2. ASSUME NEW T PROVE IsSum(T, gs, n + 1) <=> T = R
    <3>1. [i \in 0..Len(gs) - (n + 1) |->
             IF i = 0 THEN 0 ELSE T[i - 1] + FrameSize(gs[i + (n + 1)])] = R
      BY <1>1
    <3> QED
      BY <3>1 DEF IsSum
  <2> QED
    BY <2>1, <2>2 DEF IsOnlySum
<1>5. Summed(gs)
  <2> SUFFICES ASSUME NEW j \in 0..Len(gs)
               PROVE  \E R \in [0..Len(gs) - j -> Nat] : IsOnlySum(R, gs, j)
    BY DEF Summed
  <2>1. CASE j \in 0..n
    BY <2>1, <1>3 DEF Summed
  <2>2. CASE j = n + 1
    BY <2>2, <1>4
  <2> QED
    BY <2>1, <2>2, <1>1
<1>6. PICK S \in [0..n - 0 -> Nat] : IsOnlySum(S, fs, 0)
  BY <1>1 DEF Summed
<1>7. PICK R \in [0..Len(gs) - 0 -> Nat] :
        IsOnlySum(R, gs, 0) /\ R[n + 1 - 0] = S[n - 0] + FrameSize(f)
  BY <1>1, <1>3, <1>6
<1>8. Total(fs) = S[n] /\ Total(gs) = R[n + 1]
  BY <1>1, <1>6, <1>7, OnlySumTotal
<1>9. S[n] \in Nat /\ R[n + 1] = S[n] + FrameSize(f)
  BY <1>1, <1>6, <1>7
<1> QED
  BY <1>5, <1>8, <1>9 DEF gs

LEMMA TailSummed ==
  ASSUME NEW fs \in Seq(Frame), fs # <<>>, Summed(fs)
  PROVE  /\ Summed(Tail(fs))
         /\ Total(fs) = FrameSize(Head(fs)) + Total(Tail(fs))
         /\ Total(Tail(fs)) \in Nat
<1> DEFINE gs == Tail(fs)
           n == Len(fs)
<1>1. /\ n \in Nat \ {0} /\ Len(gs) = n - 1 /\ Head(fs) = fs[1] /\ fs[1] \in Frame
      /\ \A i \in 1..n - 1 : gs[i] = fs[i + 1]
      /\ gs \in Seq(Frame) /\ \A i \in 1..n : fs[i] \in Frame
  OBVIOUS
<1> HIDE DEF gs
<1>2. ASSUME NEW T, NEW j \in 0..n - 1
      PROVE  IsSum(T, gs, j) <=> IsSum(T, fs, j + 1)
  <2>1. \A i \in 0..n - 1 - j : i # 0 => gs[i + j] = fs[i + (j + 1)]
    BY <1>1
  <2>2. [i \in 0..Len(gs) - j |-> IF i = 0 THEN 0 ELSE T[i - 1] + FrameSize(gs[i + j])]
        = [i \in 0..n - (j + 1) |-> IF i = 0 THEN 0 ELSE T[i - 1] + FrameSize(fs[i + (j + 1)])]
    BY <1>1, <2>1
  <2> QED
    BY <2>2 DEF IsSum
<1>3. Summed(gs)
  <2> SUFFICES ASSUME NEW j \in 0..n - 1
               PROVE  \E S \in [0..n - 1 - j -> Nat] : IsOnlySum(S, gs, j)
    BY <1>1 DEF Summed
  <2>1. PICK S \in [0..n - (j + 1) -> Nat] : IsOnlySum(S, fs, j + 1)
    BY <1>1 DEF Summed
  <2>2. n - (j + 1) = n - 1 - j
    BY <1>1
  <2> QED
    BY <2>1, <2>2, <1>2 DEF IsOnlySum
<1>4. PICK S \in [0..n - 0 -> Nat] : IsOnlySum(S, fs, 0)
  BY <1>1 DEF Summed
<1>5. PICK R \in [0..n - 1 - 0 -> Nat] : IsOnlySum(R, gs, 0)
  BY <1>1, <1>3 DEF Summed
<1>6. FrameSize(fs[1]) \in Nat
  BY <1>1, SizesTyped
<1> DEFINE Q == [i \in 0..n |-> IF i = 0 THEN 0 ELSE R[i - 1] + FrameSize(fs[1])]
<1>7. ASSUME NEW i \in 0..n
      PROVE  Q[i] = IF i = 0 THEN 0 ELSE Q[i - 1] + FrameSize(fs[i + 0])
  <2>1. R = [k \in 0..n - 1 |-> IF k = 0 THEN 0 ELSE R[k - 1] + FrameSize(gs[k + 0])]
    BY <1>5, <1>1 DEF IsOnlySum, IsSum
  <2>2. CASE i = 0
    BY <2>2
  <2>3. CASE i = 1
    BY <2>3, <2>1, <1>1, <1>6
  <2>4. CASE i > 1
    <3>1. R[i - 1] = R[i - 2] + FrameSize(fs[i])
      <4>1. i - 1 \in 0..n - 1 /\ i - 1 # 0 /\ (i - 1) - 1 = i - 2 /\ (i - 1) + 0 = i - 1
        BY <2>4, <1>1
      <4>2. R[i - 1] = R[(i - 1) - 1] + FrameSize(gs[(i - 1) + 0])
        BY <4>1, <2>1
      <4>3. gs[i - 1] = fs[i]
        BY <4>1, <1>1
      <4> QED
        BY <4>1, <4>2, <4>3
    <3>2. Q[i] = R[i - 1] + FrameSize(fs[1]) /\ Q[i - 1] = R[i - 2] + FrameSize(fs[1])
      BY <2>4, <1>1
    <3>3. R[i - 2] \in Nat /\ FrameSize(fs[i]) \in Nat /\ fs[i + 0] = fs[i]
      <4>1. i - 2 \in 0..n - 1 - 0 /\ i \in 1..n /\ i + 0 = i
        BY <2>4, <1>1
      <4>2. fs[i] \in Frame
        BY <4>1, <1>1
      <4> QED
        BY <4>1, <4>2, <1>5, SizesTyped
    <3> HIDE DEF Q
    <3> QED
      BY <3>1, <3>2, <3>3, <1>6, <2>4
  <2> QED
    BY <2>2, <2>3, <2>4
<1>8. IsSum(Q, fs, 0)
  <2>1. Q = [i \in 0..n |-> Q[i]] /\ n - 0 = n
    BY <1>1
  <2> HIDE DEF Q
  <2> QED
    BY <1>7, <2>1 DEF IsSum
<1>9. Q = S
  BY <1>8, <1>4 DEF IsOnlySum
<1>10. Total(fs) = S[n] /\ Total(gs) = R[n - 1]
  BY <1>1, <1>4, <1>5, OnlySumTotal
<1>11. S[n] = R[n - 1] + FrameSize(fs[1]) /\ R[n - 1] \in Nat
  <2>1. n \in 0..n /\ n # 0 /\ n - 1 \in 0..n - 1 - 0
    BY <1>1
  <2>2. Q[n] = R[n - 1] + FrameSize(fs[1])
    BY <2>1
  <2>3. R[n - 1] \in Nat
    BY <2>1
  <2> QED
    BY <2>2, <2>3, <1>9
<1> QED
  BY <1>1, <1>3, <1>6, <1>10, <1>11 DEF gs

-----------------------------------------------------------------------------
(* The parser's place.                                                     *)

\* InStep, with the sums it speaks of.
Placed ==
  /\ TypeOK
  /\ Summed(frames)
  /\ input + wire + taken = Total(frames)
  /\ taken # 0 => /\ HeaderSize(frames[1]) <= taken
                  /\ taken < FrameSize(frames[1])

LEMMA PlacedInStep == Placed => InStep
BY BytesTotal DEF Placed, InStep, TypeOK

LEMMA InitPlaced == Init => Placed
<1> SUFFICES ASSUME Init PROVE Placed
  OBVIOUS
<1>1. /\ frames = <<>> /\ wire = 0 /\ input = 0 /\ taken = 0
      /\ running = FALSE /\ connected = TRUE /\ said = <<>> /\ count = 0
      /\ frames \in Seq(Frame) /\ said \in Seq(Message)
  BY DEF Init
<1>2. codec \in CodecState
  BY DEF Init, CodecState, Errors
<1>3. writing \in Message
  BY DEF Init, Nothing, Message, Kind
<1>4. count \in 0..MaxFrames /\ running \in BOOLEAN /\ connected \in BOOLEAN
      /\ wire \in Nat /\ input \in Nat /\ taken \in Nat
  <2>1. running \in BOOLEAN /\ connected \in BOOLEAN
    BY <1>1, Zenon
  <2>2. count \in 0..MaxFrames
    BY <1>1, BoundAssumption
  <2> QED
    BY <1>1, <2>1, <2>2
<1>5. TypeOK
  BY <1>1, <1>2, <1>3, <1>4 DEF TypeOK
<1> QED
  BY <1>1, <1>5, EmptySummed DEF Placed

\* Bytes there are belong to frames there are.
LEMMA SomeFrame ==
  ASSUME Placed, input + wire + taken # 0
  PROVE  frames # <<>> /\ Head(frames) = frames[1] /\ Head(frames) \in Frame
<1>1. frames # <<>>
  BY EmptySummed DEF Placed
<1> QED
  BY <1>1 DEF Placed, TypeOK

\* What the steps of the client have in common.
LEMMA TransmitPlaced ==
  ASSUME Placed, NEW op \in Kind \cup {"continuation", "ping"}, NEW fin \in BOOLEAN,
         NEW part \in Part, Transmit(op, fin, part),
         writing' \in Message, said' \in Seq(Message)
  PROVE  Placed'
<1>1. PICK ext \in LengthBytes, size \in Bodies :
        LET f == [op |-> op, fin |-> fin, ext |-> ext, size |-> size, says |-> part]
        IN  /\ count < MaxFrames
            /\ count' = count + 1
            /\ frames' = Append(frames, f)
            /\ wire' = wire + FrameSize(f)
            /\ UNCHANGED <<input, taken, running, codec, connected>>
  BY DEF Transmit
<1> DEFINE f == [op |-> op, fin |-> fin, ext |-> ext, size |-> size, says |-> part]
<1>2. f \in Frame
  BY DEF Frame
<1>3. /\ count < MaxFrames /\ count' = count + 1
      /\ frames' = Append(frames, f) /\ wire' = wire + FrameSize(f)
      /\ UNCHANGED <<input, taken, running, codec, connected>>
  BY <1>1
<1> HIDE DEF f
<1>4. /\ frames \in Seq(Frame) /\ wire \in Nat /\ input \in Nat /\ taken \in Nat
      /\ count \in 0..MaxFrames
  BY DEF Placed, TypeOK
<1>5. FrameSize(f) \in Nat /\ frames' \in Seq(Frame)
  BY <1>2, <1>3, <1>4, SizesTyped
<1>6. Summed(frames') /\ Total(frames') = Total(frames) + FrameSize(f)
  BY <1>2, <1>3, <1>4, AppendSummed DEF Placed
<1>7. TypeOK'
  BY <1>3, <1>4, <1>5, BoundAssumption DEF Placed, TypeOK
<1>8. input' + wire' + taken' = Total(frames')
  BY <1>3, <1>4, <1>5, <1>6 DEF Placed
<1>9. taken' # 0 => HeaderSize(frames'[1]) <= taken' /\ taken' < FrameSize(frames'[1])
  <2> SUFFICES ASSUME taken # 0
               PROVE  HeaderSize(frames'[1]) <= taken' /\ taken' < FrameSize(frames'[1])
    BY <1>3
  <2>1. frames # <<>>
    BY <1>4, SomeFrame
  <2>2. frames'[1] = frames[1]
    BY <2>1, <1>3, <1>4, <1>2
  <2> QED
    BY <2>2, <1>3 DEF Placed
<1> QED
  BY <1>6, <1>7, <1>8, <1>9 DEF Placed

\* The client's messages have their type.
LEMMA WriterTyped ==
  ASSUME TypeOK
  PROVE  /\ NextPart \in Part
         /\ \A kind \in Kind : [kind |-> kind, body |-> <<NextPart>>] \in Message
         /\ [writing EXCEPT !.body = Append(@, NextPart)] \in Message
         /\ Nothing \in Message
         /\ \A m \in Message : Append(said, m) \in Seq(Message)
<1>1. /\ writing \in Message /\ said \in Seq(Message) /\ writing.body \in Seq(Part)
  BY DEF TypeOK, Message
<1>2. NextPart \in Part
  BY <1>1 DEF NextPart, Part
<1>3. <<NextPart>> \in Seq(Part) /\ Append(writing.body, NextPart) \in Seq(Part)
  BY <1>1, <1>2
<1>4. \A m \in Message : Append(said, m) \in Seq(Message)
  BY <1>1
<1>5. Nothing \in Message
  BY DEF Nothing, Message, Kind
<1> HIDE DEF NextPart
<1>6. [writing EXCEPT !.body = Append(@, NextPart)] \in Message
  BY <1>1, <1>3 DEF Message
<1> QED
  BY <1>2, <1>3, <1>4, <1>5, <1>6 DEF Message

LEMMA ParsePlaced == Placed /\ ParseFrame => Placed'
<1> SUFFICES ASSUME Placed, ParseFrame PROVE Placed'
  OBVIOUS
<1> DEFINE f == Head(frames)
<1>1. /\ input > 0
      /\ taken = 0 => input >= HeaderSize(f)
      /\ UNCHANGED <<wire, running, connected, writing, said, count>>
  BY DEF ParseFrame
<1>2. /\ frames \in Seq(Frame) /\ wire \in Nat /\ input \in Nat /\ taken \in Nat
      /\ codec \in CodecState
  BY DEF Placed, TypeOK
<1>3. frames # <<>> /\ f = frames[1] /\ f \in Frame
  <2>1. input + wire + taken # 0
    BY <1>1, <1>2
  <2> QED
    BY <2>1, SomeFrame
<1>4. HeaderSize(f) \in Nat /\ FrameSize(f) \in Nat /\ 6 <= HeaderSize(f)
  BY <1>3, SizesTyped
<1>5. Total(frames) = FrameSize(f) + Total(Tail(frames)) /\ Total(Tail(frames)) \in Nat
      /\ Summed(Tail(frames)) /\ Tail(frames) \in Seq(Frame)
  BY <1>2, <1>3, TailSummed DEF Placed
<1>6. taken < FrameSize(f)
  BY <1>2, <1>3, <1>4, SizesTyped DEF Placed
<1>7. CASE FrameSize(f) - taken <= input
  <2>1. /\ codec' = OnParsedFrame(codec, f) /\ frames' = Tail(frames)
        /\ taken' = 0 /\ input' = input - (FrameSize(f) - taken)
    BY <1>7 DEF ParseFrame
  <2> HIDE DEF f
  <2>2. codec' \in CodecState
    BY <2>1, <1>2, <1>3, CodecTyped
  <2>3. TypeOK'
    BY <2>1, <2>2, <1>1, <1>2, <1>4, <1>5, <1>6, <1>7 DEF Placed, TypeOK
  <2>4. Summed(frames') /\ input' + wire' + taken' = Total(frames')
    BY <2>1, <1>1, <1>2, <1>4, <1>5 DEF Placed
  <2> QED
    BY <2>1, <2>3, <2>4 DEF Placed
<1>8. CASE ~(FrameSize(f) - taken <= input)
  <2>1. taken' = taken + input /\ input' = 0 /\ UNCHANGED <<codec, frames>>
    BY <1>8 DEF ParseFrame
  <2> HIDE DEF f
  <2>2. HeaderSize(f) <= taken' /\ taken' < FrameSize(f)
    <3>1. taken # 0 => HeaderSize(f) <= taken
      BY <1>3 DEF Placed
    <3>2. input \in Nat /\ taken \in Nat /\ HeaderSize(f) \in Nat /\ FrameSize(f) \in Nat
      BY <1>2, <1>4
    <3>3. taken = 0 => input >= HeaderSize(f)
      BY <1>1
    <3> QED
      BY <3>1, <3>2, <3>3, <2>1, <1>6, <1>8
  <2>3. TypeOK'
    BY <2>1, <1>1, <1>2 DEF Placed, TypeOK
  <2>4. Summed(frames') /\ input' + wire' + taken' = Total(frames')
    BY <2>1, <1>1, <1>2 DEF Placed
  <2> QED
    BY <2>1, <2>2, <2>3, <2>4, <1>3 DEF Placed
<1> QED
  BY <1>7, <1>8

LEMMA NextPlaced == Placed /\ [Next]_vars => Placed'
<1> SUFFICES ASSUME Placed, [Next]_vars PROVE Placed'
  OBVIOUS
<1>0. TypeOK
  BY DEF Placed
<1>1. ASSUME NEW kind \in Kind, NEW fin \in BOOLEAN, SendFirst(kind, fin) PROVE Placed'
  <2>1. writing' \in Message /\ said' \in Seq(Message)
    BY <1>0, <1>1, WriterTyped DEF SendFirst, TypeOK
  <2>2. Transmit(kind, fin, NextPart) /\ NextPart \in Part
    BY <1>0, <1>1, WriterTyped DEF SendFirst
  <2> QED
    BY <2>1, <2>2, TransmitPlaced
<1>2. ASSUME NEW fin \in BOOLEAN, SendNext(fin) PROVE Placed'
  <2>1. writing' \in Message /\ said' \in Seq(Message)
    BY <1>0, <1>2, WriterTyped DEF SendNext, TypeOK
  <2>2. Transmit("continuation", fin, NextPart) /\ NextPart \in Part
    BY <1>0, <1>2, WriterTyped DEF SendNext
  <2> QED
    BY <2>1, <2>2, TransmitPlaced
<1>3. ASSUME SendPing PROVE Placed'
  <2>1. writing' \in Message /\ said' \in Seq(Message) /\ <<0, 0>> \in Part
    BY <1>0, <1>3 DEF SendPing, TypeOK, Part
  <2>2. Transmit("ping", TRUE, <<0, 0>>)
    BY <1>3 DEF SendPing
  <2> QED
    BY <2>1, <2>2, TransmitPlaced
<1>4. ASSUME Arrive PROVE Placed'
  <2>1. PICK n \in 1..wire :
          /\ wire' = wire - n /\ input' = input + n /\ running' = TRUE
          /\ UNCHANGED <<frames, taken, codec, connected, writing, said, count>>
    BY <1>4 DEF Arrive
  <2>2. wire \in Nat /\ input \in Nat /\ taken \in Nat /\ n \in Nat /\ n <= wire
    BY <1>0 DEF TypeOK
  <2>3. /\ wire' \in Nat /\ input' \in Nat /\ running' \in BOOLEAN
        /\ input' + wire' + taken' = input + wire + taken
    BY <2>1, <2>2
  <2>4. TypeOK'
    BY <2>1, <2>3, <1>0 DEF TypeOK
  <2> QED
    BY <2>1, <2>3, <2>4 DEF Placed
<1>5. ASSUME HeaderIncomplete PROVE Placed'
  <2>1. codec' \in CodecState
    BY <1>0, <1>5 DEF HeaderIncomplete, TypeOK, CodecError, CodecState, Errors
  <2> QED
    BY <1>0, <1>5, <2>1 DEF HeaderIncomplete, Placed, TypeOK
<1>6. ASSUME ParseFrame PROVE Placed'
  BY <1>6, ParsePlaced
<1>7. ASSUME InputEmpty PROVE Placed'
  BY <1>0, <1>7 DEF InputEmpty, Placed, TypeOK
<1>8. ASSUME ForceClose PROVE Placed'
  BY <1>0, <1>8 DEF ForceClose, Placed, TypeOK
<1>9. CASE UNCHANGED vars
  BY <1>0, <1>9 DEF vars, Placed, TypeOK
<1> QED
  BY <1>1, <1>2, <1>3, <1>4, <1>5, <1>6, <1>7, <1>8, <1>9 DEF Next, OnData

\* For frames of any size and however the stream is cut: the parser keeps its
\* place in the stream (WebsocketParser::Parse).
THEOREM ParserInStep == Spec => []InStep
BY InitPlaced, NextPlaced, PlacedInStep, PTL DEF Spec

-----------------------------------------------------------------------------
(* What is handed over.  A message is followed from the client's frames to *)
(* the codec: the operators below are about the frames that are left (fs), *)
(* what the client has said (s) and is in the middle of (w), and the codec *)
(* (c).                                                                    *)

IsData(f) == f.op # "ping"
First(c) == Len(c.delivered) + 1
Queued(fs, p) == \E j \in 1..Len(fs) : IsData(fs[j]) /\ fs[j].says = p
Before(p, q) == p[1] < q[1] \/ (p[1] = q[1] /\ p[2] < q[2])

\* Messages have two parts at most.
Told(s) ==
  \A m \in 1..Len(s) : \/ s[m].body = << <<m, 1>> >>
                       \/ s[m].body = << <<m, 1>>, <<m, 2>> >>
Writes(s, w) ==
  \/ w.body = <<>>
  \/ w.body = << <<Len(s) + 1, 1>> >> /\ MaxFragments = 2

\* A frame that is left is a part of a message not handed over, or of the one
\* that is being written.
OfSaid(f, s, c) ==
  LET m == f.says[1] IN
  LET k == f.says[2] IN
  /\ m \in First(c)..Len(s) /\ k \in 1..Len(s[m].body)
  /\ f.fin <=> k = Len(s[m].body)
  /\ f.op = IF k = 1 THEN s[m].kind ELSE "continuation"
OfWriting(f, s, w) ==
  /\ f.says = <<Len(s) + 1, 1>>
  /\ w.body # <<>> /\ ~f.fin /\ f.op = w.kind
Sourced(fs, s, w, c) ==
  \A j \in 1..Len(fs) : IsData(fs[j]) => OfSaid(fs[j], s, c) \/ OfWriting(fs[j], s, w)

Ordered(fs) ==
  \A i, j \in 1..Len(fs) :
    i < j /\ IsData(fs[i]) /\ IsData(fs[j]) => Before(fs[i].says, fs[j].says)

\* And they are all there but the one that the codec keeps.
Keeps(m, k, c) == m = First(c) /\ k = 1 /\ c.current # "none"
Present(fs, s, w, c) ==
  /\ \A m \in First(c)..Len(s) : \A k \in 1..Len(s[m].body) :
       Queued(fs, <<m, k>>) <=> ~Keeps(m, k, c)
  /\ w.body # <<>> => (Queued(fs, <<Len(s) + 1, 1>>) <=> ~Keeps(Len(s) + 1, 1, c))

Assembling(s, w, c) ==
  /\ c.text = IF c.current = "text" THEN << <<First(c), 1>> >> ELSE <<>>
  /\ c.binary = IF c.current = "binary" THEN << <<First(c), 1>> >> ELSE <<>>
  /\ c.current # "none" =>
       \/ First(c) <= Len(s) /\ s[First(c)].kind = c.current /\ Len(s[First(c)].body) = 2
       \/ First(c) = Len(s) + 1 /\ w.body # <<>> /\ w.kind = c.current

Handed(s, c) ==
  Len(c.delivered) <= Len(s) /\ \A m \in 1..Len(c.delivered) : c.delivered[m] = s[m]

Chain(fs, s, w, c) ==
  /\ Told(s) /\ Writes(s, w)
  /\ Sourced(fs, s, w, c) /\ Ordered(fs) /\ Present(fs, s, w, c)
  /\ Assembling(s, w, c) /\ Handed(s, c)

LEMMA OneOrTwo ==
  ASSUME NEW s \in Seq(Message), Told(s), NEW m \in 1..Len(s)
  PROVE  Len(s[m].body) \in {1, 2}
<1>1. ASSUME NEW p PROVE Len(<<p>>) = 1
  OBVIOUS
<1>2. ASSUME NEW p, NEW q PROVE Len(<<p, q>>) = 2
  OBVIOUS
<1>3. s[m].body = << <<m, 1>> >> \/ s[m].body = << <<m, 1>>, <<m, 2>> >>
  BY DEF Told
<1>4. CASE s[m].body = << <<m, 1>> >>
  <2>1. Len(s[m].body) = 1
    BY <1>1, <1>4, Zenon
  <2> QED
    BY <2>1
<1>5. CASE s[m].body = << <<m, 1>>, <<m, 2>> >>
  <2>1. Len(s[m].body) = 2
    BY <1>2, <1>5, Zenon
  <2> QED
    BY <2>1
<1> QED
  BY <1>3, <1>4, <1>5

\* The first part that is left is the one the codec waits for.
LEMMA HeadIsNext ==
  ASSUME NEW fs \in Seq(Frame), NEW s \in Seq(Message), NEW w \in Message,
         NEW c \in CodecState, Chain(fs, s, w, c), fs # <<>>, IsData(fs[1])
  PROVE  /\ fs[1].says = <<First(c), IF c.current = "none" THEN 1 ELSE 2>>
         /\ OfSaid(fs[1], s, c) \/ (OfWriting(fs[1], s, w) /\ c.current = "none")
<1> DEFINE f == fs[1]
           m == fs[1].says[1]
           k == fs[1].says[2]
<1>1. /\ 1 \in 1..Len(fs) /\ Len(fs) \in Nat /\ Len(s) \in Nat /\ First(c) \in Nat \ {0}
      /\ m \in Nat /\ k \in Nat /\ f.says = <<m, k>>
      /\ First(c) <= Len(s) + 1
  <2>1. 1 \in 1..Len(fs) /\ Len(fs) \in Nat /\ Len(s) \in Nat /\ fs[1] \in Frame
    OBVIOUS
  <2>2. m \in Nat /\ k \in Nat /\ f.says = <<m, k>>
    BY <2>1 DEF Frame, Part
  <2>3. Len(c.delivered) \in Nat
    BY DEF CodecState
  <2> QED
    BY <2>1, <2>2, <2>3 DEF First, Chain, Handed
<1>2. OfSaid(f, s, c) \/ OfWriting(f, s, w)
  BY <1>1 DEF Chain, Sourced
<1>3. ASSUME NEW q, Queued(fs, q), q # f.says PROVE Before(f.says, q)
  <2>1. PICK j \in 1..Len(fs) : IsData(fs[j]) /\ fs[j].says = q
    BY <1>3 DEF Queued
  <2>2. 1 < j
    BY <2>1, <1>3
  <2> QED
    BY <2>1, <2>2, <1>1 DEF Chain, Ordered
<1>4. Queued(fs, f.says)
  BY <1>1 DEF Queued
<1>5. m >= First(c)
  BY <1>1, <1>2 DEF OfSaid, OfWriting
<1>6. m = First(c)
  <2> SUFFICES ASSUME First(c) < m PROVE FALSE
    BY <1>1, <1>5
  <2>1. First(c) \in 1..Len(s)
    BY <1>1, <1>2 DEF OfSaid, OfWriting
  <2>2. PICK l \in {1, 2} : l = Len(s[First(c)].body)
    BY <2>1, OneOrTwo DEF Chain
  <2>3. ~Keeps(First(c), l, c)
    BY <2>1, <2>2, <1>1 DEF Keeps, Chain, Assembling
  <2>4. l \in 1..Len(s[First(c)].body) /\ First(c) \in First(c)..Len(s)
    <3>1. \A x \in {1, 2} : x \in 1..x
      OBVIOUS
    <3>2. First(c) \in First(c)..Len(s)
      BY <2>1, <1>1
    <3> QED
      BY <2>2, <3>1, <3>2
  <2>5. Queued(fs, <<First(c), l>>)
    BY <2>3, <2>4 DEF Chain, Present
  <2>6. Before(f.says, <<First(c), l>>)
    BY <2>5, <1>1, <1>3
  <2> QED
    BY <2>6, <1>1 DEF Before
<1>7. CASE OfSaid(f, s, c)
  <2>1. /\ First(c) \in First(c)..Len(s) /\ First(c) \in 1..Len(s)
        /\ k \in 1..Len(s[First(c)].body)
    BY <1>1, <1>6, <1>7 DEF OfSaid
  <2>2. Len(s[First(c)].body) \in {1, 2}
    BY <2>1, OneOrTwo DEF Chain
  <2>3. Queued(fs, <<First(c), 1>>) <=> c.current = "none"
    BY <2>1, <2>2 DEF Chain, Present, Keeps
  <2>4. CASE c.current = "none"
    <3>1. f.says = <<First(c), k>> /\ Queued(fs, <<First(c), 1>>)
      BY <2>3, <2>4, <1>1, <1>6
    <3>2. ASSUME k # 1 PROVE FALSE
      <4>1. <<First(c), 1>> # f.says
        BY <3>1, <3>2
      <4>2. Before(f.says, <<First(c), 1>>)
        BY <3>1, <4>1, <1>3
      <4>3. Before(<<First(c), k>>, <<First(c), 1>>)
        BY <3>1, <4>2
      <4> QED
        BY <4>3, <2>1, <2>2, <1>1, <3>2 DEF Before
    <3> QED
      BY <3>1, <3>2, <2>4, <1>7
  <2>5. CASE c.current # "none"
    <3>1. k # 1
      BY <2>3, <2>5, <1>1, <1>4, <1>6
    <3>2. k = 2
      <4>1. \A x \in {1, 2} : \A y \in 1..x : y # 1 => y = 2
        OBVIOUS
      <4> QED
        BY <3>1, <2>1, <2>2, <4>1
    <3> QED
      BY <3>2, <2>5, <1>1, <1>6, <1>7
  <2> QED
    BY <2>4, <2>5
<1>8. CASE OfWriting(f, s, w)
  <2>1. First(c) = Len(s) + 1 /\ k = 1
    BY <1>1, <1>6, <1>8 DEF OfWriting
  <2>2. Queued(fs, <<Len(s) + 1, 1>>)
    BY <1>4, <1>8 DEF OfWriting
  <2>3. ~Keeps(Len(s) + 1, 1, c)
    BY <2>2, <1>8 DEF Chain, Present, OfWriting
  <2>4. c.current = "none"
    BY <2>1, <2>3 DEF Keeps
  <2> QED
    BY <2>1, <2>4, <1>8 DEF OfWriting
<1> QED
  BY <1>2, <1>7, <1>8

\* What is queued behind the first frame.
LEMMA TailQueued ==
  ASSUME NEW fs \in Seq(Frame), fs # <<>>, Ordered(fs), NEW p
  PROVE  /\ Queued(Tail(fs), p) <=> Queued(fs, p) /\ ~(IsData(fs[1]) /\ fs[1].says = p)
         /\ Ordered(Tail(fs))
<1> DEFINE gs == Tail(fs)
<1>1. /\ Len(fs) \in Nat \ {0} /\ Len(gs) = Len(fs) - 1
      /\ \A i \in 1..Len(gs) : i + 1 \in 1..Len(fs) /\ gs[i] = fs[i + 1]
      /\ \A i \in 1..Len(fs) : fs[i].says[1] \in Nat /\ fs[i].says[2] \in Nat
  <2>1. Len(fs) \in Nat \ {0} /\ Len(gs) = Len(fs) - 1
    OBVIOUS
  <2>2. ASSUME NEW i \in 1..Len(gs) PROVE i + 1 \in 1..Len(fs) /\ gs[i] = fs[i + 1]
    BY <2>1
  <2>3. ASSUME NEW i \in 1..Len(fs) PROVE fs[i].says[1] \in Nat /\ fs[i].says[2] \in Nat
    <3>1. fs[i] \in Frame
      OBVIOUS
    <3> QED
      BY <3>1 DEF Frame, Part
  <2> QED
    BY <2>1, <2>2, <2>3
<1> HIDE DEF gs
<1>2. Ordered(gs)
  <2> SUFFICES ASSUME NEW i \in 1..Len(gs), NEW j \in 1..Len(gs),
                      i < j, IsData(gs[i]), IsData(gs[j])
               PROVE  Before(gs[i].says, gs[j].says)
    BY DEF Ordered
  <2>1. /\ i + 1 \in 1..Len(fs) /\ j + 1 \in 1..Len(fs) /\ i + 1 < j + 1
        /\ gs[i] = fs[i + 1] /\ gs[j] = fs[j + 1]
    BY <1>1
  <2> QED
    BY <2>1 DEF Ordered
<1>3. ASSUME Queued(gs, p) PROVE Queued(fs, p) /\ ~(IsData(fs[1]) /\ fs[1].says = p)
  <2>1. PICK j \in 1..Len(gs) : IsData(gs[j]) /\ gs[j].says = p
    BY <1>3 DEF Queued
  <2>2. j + 1 \in 1..Len(fs) /\ 1 \in 1..Len(fs) /\ 1 < j + 1 /\ gs[j] = fs[j + 1]
    BY <1>1
  <2>3. IsData(fs[1]) => Before(fs[1].says, p)
    BY <2>1, <2>2 DEF Ordered
  <2> QED
    BY <2>1, <2>2, <2>3, <1>1 DEF Queued, Before
<1>4. ASSUME Queued(fs, p), ~(IsData(fs[1]) /\ fs[1].says = p) PROVE Queued(gs, p)
  <2>1. PICK j \in 1..Len(fs) : IsData(fs[j]) /\ fs[j].says = p
    BY <1>4 DEF Queued
  <2>2. j - 1 \in 1..Len(gs) /\ gs[j - 1] = fs[j]
    BY <2>1, <1>1, <1>4
  <2> QED
    BY <2>1, <2>2 DEF Queued
<1> QED
  BY <1>2, <1>3, <1>4 DEF gs

\* What Assemble leaves in the place of the kind, and what it has handed over.
Left(c, kind, f) == IF f.fin THEN <<>> ELSE Append(Assembled(c, kind), f.says)
Given(c, kind, f) ==
  IF f.fin
  THEN Append(c.delivered, [kind |-> kind, body |-> Append(Assembled(c, kind), f.says)])
  ELSE c.delivered

LEMMA Assembles ==
  ASSUME NEW c \in CodecState, NEW kind \in Kind, NEW f \in Frame
  PROVE  /\ kind = "text" => /\ Assemble(c, kind, f).text = Left(c, kind, f)
                             /\ Assemble(c, kind, f).binary = c.binary
         /\ kind = "binary" => /\ Assemble(c, kind, f).binary = Left(c, kind, f)
                               /\ Assemble(c, kind, f).text = c.text
         /\ Assemble(c, kind, f).delivered = Given(c, kind, f)
         /\ DOMAIN Assemble(c, kind, f) = DOMAIN c
<1> DEFINE b == Append(Assembled(c, kind), f.says)
           kept == IF f.fin THEN <<>> ELSE b
           m == [kind |-> kind, body |-> b]
           added == IF kind = "text" THEN [c EXCEPT !.text = kept]
                                     ELSE [c EXCEPT !.binary = kept]
           d == Assemble(c, kind, f)
<1>1. d = IF f.fin THEN [added EXCEPT !.delivered = Append(@, m)] ELSE added
  BY DEF Assemble
<1> HIDE DEF m, kept, d
<1>2. /\ added.delivered = c.delivered
      /\ kind = "text" => added.text = kept /\ added.binary = c.binary
      /\ kind = "binary" => added.binary = kept /\ added.text = c.text
      /\ DOMAIN added = DOMAIN c /\ "delivered" \in DOMAIN c
  BY DEF CodecState, Kind
<1> HIDE DEF added
<1>3. f.fin \in BOOLEAN
  BY DEF Frame
<1>4. /\ kind = "text" => d.text = Left(c, kind, f) /\ d.binary = c.binary
      /\ kind = "binary" => d.binary = Left(c, kind, f) /\ d.text = c.text
      /\ d.delivered = Given(c, kind, f)
      /\ DOMAIN d = DOMAIN c
  <2>1. CASE f.fin
    BY <1>1, <1>2, <2>1 DEF kept, m, Left, Given
  <2>2. CASE ~f.fin
    BY <1>1, <1>2, <2>2 DEF kept, m, Left, Given
  <2> QED
    BY <1>3, <2>1, <2>2
<1> QED
  BY <1>4, Zenon DEF d

\* What the codec makes of the part it waits for.
LEMMA CodecOutcome ==
  ASSUME NEW fs \in Seq(Frame), NEW s \in Seq(Message), NEW w \in Message,
         NEW c \in CodecState, Chain(fs, s, w, c), fs # <<>>, IsData(fs[1])
  PROVE  LET f == fs[1]
             d == OnParsedFrame(c, fs[1])
         IN  \/ /\ OfSaid(f, s, c) /\ f.fin
                /\ d.current = "none" /\ d.text = <<>> /\ d.binary = <<>>
                /\ d.delivered = Append(c.delivered, s[First(c)])
             \/ /\ ~f.fin /\ c.current = "none" /\ f.says = <<First(c), 1>>
                /\ f.op \in Kind
                /\ d.current = f.op /\ d.delivered = c.delivered
                /\ d.text = IF f.op = "text" THEN <<f.says>> ELSE <<>>
                /\ d.binary = IF f.op = "binary" THEN <<f.says>> ELSE <<>>
<1> DEFINE f == fs[1]
           d == OnParsedFrame(c, f)
<1>1. /\ f \in Frame /\ f.fin \in BOOLEAN /\ f.op # "ping"
      /\ "current" \in DOMAIN c /\ Len(s) \in Nat /\ First(c) \in Nat \ {0}
  <2>1. 1 \in 1..Len(fs) /\ Len(s) \in Nat /\ f \in Frame
    OBVIOUS
  <2>2. Len(c.delivered) \in Nat /\ "current" \in DOMAIN c
    BY DEF CodecState
  <2>3. f.fin \in BOOLEAN /\ f.op # "ping"
    BY <2>1 DEF Frame, IsData
  <2> QED
    BY <2>1, <2>2, <2>3 DEF First
<1>2. /\ f.says = <<First(c), IF c.current = "none" THEN 1 ELSE 2>>
      /\ OfSaid(f, s, c) \/ (OfWriting(f, s, w) /\ c.current = "none")
  BY HeadIsNext
<1>3. OfSaid(f, s, c) => First(c) \in 1..Len(s) /\ s[First(c)] \in Message
  BY <1>1, <1>2 DEF OfSaid
<1> HIDE DEF f
<1>4. CASE c.current = "none"
  <2>1. f.says = <<First(c), 1>> /\ f.says[1] = First(c) /\ f.says[2] = 1
    BY <1>2, <1>4
  <2>2. f.op \in Kind
    BY <1>2, <1>3, <2>1 DEF OfSaid, OfWriting, Message
  <2>3. d = [Assemble(c, f.op, f) EXCEPT !.current = IF f.fin THEN "none" ELSE f.op]
    BY <1>4, <2>2 DEF OnParsedFrame, OnFirstFrame, Kind
  <2>4. Assembled(c, f.op) = <<>> /\ c.text = <<>> /\ c.binary = <<>>
    BY <1>4, <2>2 DEF Assembled, Chain, Assembling, Kind
  <2>5. <<f.says>> = Append(Assembled(c, f.op), f.says)
    BY <2>4
  <2> DEFINE e == Assemble(c, f.op, f)
             b == <<f.says>>
  <2>6. /\ f.fin => e.text = <<>> /\ e.binary = <<>>
        /\ ~f.fin => /\ e.text = IF f.op = "text" THEN b ELSE <<>>
                     /\ e.binary = IF f.op = "binary" THEN b ELSE <<>>
        /\ e.delivered = IF f.fin
                         THEN Append(c.delivered, [kind |-> f.op, body |-> b])
                         ELSE c.delivered
        /\ "current" \in DOMAIN e
    <3>1. /\ f.op = "text" => e.text = Left(c, f.op, f) /\ e.binary = c.binary
          /\ f.op = "binary" => e.binary = Left(c, f.op, f) /\ e.text = c.text
          /\ e.delivered = Given(c, f.op, f)
          /\ DOMAIN e = DOMAIN c
      BY <1>1, <2>2, Assembles
    <3> HIDE DEF b, d, e
    <3>2. /\ Left(c, f.op, f) = IF f.fin THEN <<>> ELSE b
          /\ Given(c, f.op, f) = IF f.fin
                                 THEN Append(c.delivered, [kind |-> f.op, body |-> b])
                                 ELSE c.delivered
      BY <2>5 DEF Left, Given, b
    <3> QED
      BY <3>1, <3>2, <2>2, <2>4, <1>1 DEF Kind
  <2>7. /\ d.current = IF f.fin THEN "none" ELSE f.op
        /\ d.text = e.text /\ d.binary = e.binary /\ d.delivered = e.delivered
    BY <2>3, <2>6
  <2> HIDE DEF d, e
  <2>8. CASE ~f.fin
    BY <2>1, <2>2, <2>6, <2>7, <2>8, <1>4 DEF d, f, Given
  <2>9. CASE f.fin
    <3>1. OfSaid(f, s, c)
      BY <2>9, <1>2 DEF OfWriting
    <3>2. Len(s[First(c)].body) = 1 /\ f.op = s[First(c)].kind
      BY <3>1, <2>1, <2>9 DEF OfSaid
    <3>3. s[First(c)].body = <<f.says>>
      <4>1. Len(<< <<First(c), 1>>, <<First(c), 2>> >>) = 2
        OBVIOUS
      <4> QED
        BY <3>1, <3>2, <4>1, <1>3, <2>1 DEF Chain, Told
    <3>4. s[First(c)] = [kind |-> f.op, body |-> <<f.says>>]
      BY <3>1, <3>2, <3>3, <1>3 DEF Message
    <3>5. d.delivered = Append(c.delivered, s[First(c)])
      BY <3>4, <2>6, <2>7, <2>9 DEF Given
    <3> QED
      BY <3>1, <3>5, <2>6, <2>7, <2>9 DEF d, f
  <2> QED
    BY <1>1, <2>8, <2>9
<1>5. CASE c.current # "none"
  <2>1. /\ f.says = <<First(c), 2>> /\ f.says[1] = First(c) /\ f.says[2] = 2
        /\ OfSaid(f, s, c)
    BY <1>2, <1>5
  <2>2. /\ c.current \in Kind /\ s[First(c)].kind = c.current
        /\ Len(s[First(c)].body) = 2
    BY <1>1, <1>3, <1>5, <2>1 DEF Chain, Assembling, CodecState
  <2>3. f.fin /\ f.op = "continuation"
    BY <2>1, <2>2 DEF OfSaid
  <2>4. d = [Assemble(c, c.current, f) EXCEPT !.current = "none"]
    BY <2>3, <1>5 DEF OnParsedFrame, OnContinuationFrame, Kind
  <2>5. /\ Assembled(c, c.current) = << <<First(c), 1>> >>
        /\ c.text = IF c.current = "text" THEN << <<First(c), 1>> >> ELSE <<>>
        /\ c.binary = IF c.current = "binary" THEN << <<First(c), 1>> >> ELSE <<>>
    BY <2>2 DEF Assembled, Chain, Assembling, Kind
  <2> DEFINE b == << <<First(c), 1>>, f.says >>
             e == Assemble(c, c.current, f)
  <2>6. b = Append(Assembled(c, c.current), f.says)
    BY <2>5
  <2> HIDE DEF b
  <2>7. /\ c.current = "text" => e.text = <<>> /\ e.binary = c.binary
        /\ c.current = "binary" => e.binary = <<>> /\ e.text = c.text
        /\ e.delivered = Append(c.delivered, [kind |-> c.current, body |-> b])
        /\ "current" \in DOMAIN e
    <3>1. /\ c.current = "text" => /\ e.text = Left(c, c.current, f)
                                   /\ e.binary = c.binary
          /\ c.current = "binary" => /\ e.binary = Left(c, c.current, f)
                                     /\ e.text = c.text
          /\ e.delivered = Given(c, c.current, f)
          /\ DOMAIN e = DOMAIN c
      BY <1>1, <2>2, Assembles
    <3> HIDE DEF d, e
    <3>2. /\ Left(c, c.current, f) = <<>>
          /\ Given(c, c.current, f) = Append(c.delivered, [kind |-> c.current, body |-> b])
      BY <2>3, <2>6 DEF Left, Given
    <3> QED
      BY <3>1, <3>2, <1>1
  <2>8. e.text = <<>> /\ e.binary = <<>>
    BY <2>2, <2>5, <2>7 DEF Kind
  <2>9. /\ d.current = "none" /\ d.text = e.text /\ d.binary = e.binary
        /\ d.delivered = e.delivered
    BY <2>4, <2>7
  <2> HIDE DEF d, e
  <2>10. s[First(c)].body = b
    <3>1. Len(<< <<First(c), 1>> >>) = 1
      OBVIOUS
    <3> QED
      BY <3>1, <2>1, <2>2, <1>3 DEF b, Chain, Told
  <2>11. s[First(c)] = [kind |-> c.current, body |-> b]
    BY <2>1, <2>2, <2>10, <1>3 DEF Message
  <2>12. d.delivered = Append(c.delivered, s[First(c)])
    BY <2>11, <2>7, <2>9
  <2> QED
    BY <2>1, <2>3, <2>8, <2>9, <2>12 DEF d, f
<1> QED
  BY <1>4, <1>5

\* The codec reads a frame.
LEMMA ParseChain ==
  ASSUME NEW fs \in Seq(Frame), NEW s \in Seq(Message), NEW w \in Message,
         NEW c \in CodecState, Chain(fs, s, w, c), fs # <<>>
  PROVE  Chain(Tail(fs), s, w, OnParsedFrame(c, fs[1]))
<1> DEFINE gs == Tail(fs)
           f == fs[1]
           d == OnParsedFrame(c, fs[1])
           F == First(c)
<1>1. /\ Len(fs) \in Nat \ {0} /\ Len(gs) = Len(fs) - 1 /\ Len(s) \in Nat /\ f \in Frame
      /\ \A j \in 1..Len(gs) : /\ j + 1 \in 1..Len(fs) /\ gs[j] = fs[j + 1] /\ 1 < j + 1
      /\ 1 \in 1..Len(fs) /\ f.fin \in BOOLEAN
  <2>1. Len(fs) \in Nat \ {0} /\ Len(gs) = Len(fs) - 1 /\ Len(s) \in Nat /\ f \in Frame
    OBVIOUS
  <2>2. ASSUME NEW j \in 1..Len(gs) PROVE j + 1 \in 1..Len(fs) /\ gs[j] = fs[j + 1] /\ 1 < j + 1
    BY <2>1
  <2>3. f.fin \in BOOLEAN
    BY <2>1 DEF Frame
  <2> QED
    BY <2>1, <2>2, <2>3
<1>2. F \in Nat \ {0} /\ Len(c.delivered) \in Nat /\ F = Len(c.delivered) + 1 /\ F <= Len(s) + 1
  <2>1. Len(c.delivered) \in Nat
    BY DEF CodecState
  <2> QED
    BY <2>1, <1>1 DEF First, Chain, Handed
<1>3. /\ Ordered(gs)
      /\ \A p : Queued(gs, p) <=> Queued(fs, p) /\ ~(IsData(f) /\ f.says = p)
  BY TailQueued DEF Chain
<1>4. ASSUME NEW j \in 1..Len(gs), IsData(gs[j])
      PROVE  /\ OfSaid(gs[j], s, c) \/ OfWriting(gs[j], s, w)
             /\ IsData(f) => Before(f.says, gs[j].says)
  BY <1>1, <1>4 DEF Chain, Sourced, Ordered
<1> HIDE DEF gs, f, F
<1>5. CASE ~IsData(f)
  <2>1. d = c
    BY <1>1, <1>5 DEF f, OnParsedFrame, IsData, Kind
  <2>2. Sourced(gs, s, w, c)
    BY <1>4 DEF Sourced
  <2>3. Present(gs, s, w, c)
    BY <1>3, <1>5 DEF Chain, Present
  <2> QED
    BY <1>3, <2>1, <2>2, <2>3 DEF Chain, gs, f
<1>6. CASE IsData(f)
  <2>1. \/ /\ OfSaid(f, s, c) /\ f.fin
           /\ d.current = "none" /\ d.text = <<>> /\ d.binary = <<>>
           /\ d.delivered = Append(c.delivered, s[F])
        \/ /\ ~f.fin /\ c.current = "none" /\ f.says = <<F, 1>>
           /\ f.op \in Kind
           /\ d.current = f.op /\ d.delivered = c.delivered
           /\ d.text = IF f.op = "text" THEN <<f.says>> ELSE <<>>
           /\ d.binary = IF f.op = "binary" THEN <<f.says>> ELSE <<>>
    BY <1>6, CodecOutcome DEF f, F
  <2>2. /\ f.says = <<F, IF c.current = "none" THEN 1 ELSE 2>>
        /\ OfSaid(f, s, c) \/ OfWriting(f, s, w)
    BY <1>6, HeadIsNext DEF f, F
  <2> HIDE DEF d
  <2>3. CASE /\ OfSaid(f, s, c) /\ f.fin
             /\ d.current = "none" /\ d.text = <<>> /\ d.binary = <<>>
             /\ d.delivered = Append(c.delivered, s[F])
    <3>1. PICK l \in {1, 2} : l = IF c.current = "none" THEN 1 ELSE 2
      OBVIOUS
    <3>2. /\ f.says = <<F, l>> /\ f.says[1] = F /\ f.says[2] = l
          /\ F \in 1..Len(s) /\ l = Len(s[F].body)
      BY <2>2, <2>3, <3>1, <1>1, <1>2 DEF OfSaid, F
    <3>3. First(d) = F + 1
      <4>1. Len(d.delivered) = Len(c.delivered) + 1
        BY <2>3 DEF CodecState
      <4> QED
        BY <4>1, <1>2 DEF First
    <3>4. Sourced(gs, s, w, d)
      <4> SUFFICES ASSUME NEW j \in 1..Len(gs), IsData(gs[j]), OfSaid(gs[j], s, c)
                   PROVE  OfSaid(gs[j], s, d)
        BY <1>4 DEF Sourced
      <4> DEFINE m == gs[j].says[1]
                 k == gs[j].says[2]
      <4>1. m \in F..Len(s) /\ k \in 1..Len(s[m].body)
        BY DEF OfSaid, F
      <4>2. F < m \/ (F = m /\ l < k)
        BY <1>4, <1>6, <3>2 DEF Before
      <4>3. m \in F + 1..Len(s)
        <5>1. m # F
          <6> SUFFICES ASSUME m = F PROVE FALSE
            OBVIOUS
          <6>1. k \in 1..l
            BY <4>1, <3>2
          <6>2. l < k
            BY <4>2, <1>2
          <6> QED
            BY <6>1, <6>2, <3>1
        <5> HIDE DEF m, k
        <5> QED
          BY <4>1, <5>1, <1>2
      <4> QED
        BY <4>3, <3>3 DEF OfSaid
    <3>5. Present(gs, s, w, d)
      <4>1. ASSUME NEW m \in F + 1..Len(s), NEW k \in 1..Len(s[m].body)
            PROVE  Queued(gs, <<m, k>>) <=> ~Keeps(m, k, d)
        <5>1. m \in F..Len(s) /\ m # F /\ m # First(c)
          BY <1>1, <1>2 DEF F
        <5>2. Queued(fs, <<m, k>>) <=> ~Keeps(m, k, c)
          BY <5>1 DEF Chain, Present, F
        <5>3. f.says # <<m, k>>
          BY <5>1, <3>2
        <5> QED
          BY <5>1, <5>2, <5>3, <1>3, <2>3 DEF Keeps
      <4>2. ASSUME w.body # <<>>
            PROVE  Queued(gs, <<Len(s) + 1, 1>>) <=> ~Keeps(Len(s) + 1, 1, d)
        <5>1. Len(s) + 1 # F /\ Len(s) + 1 # First(c)
          BY <3>2, <1>1 DEF F
        <5>2. Queued(fs, <<Len(s) + 1, 1>>) <=> ~Keeps(Len(s) + 1, 1, c)
          BY <4>2 DEF Chain, Present
        <5>3. f.says # <<Len(s) + 1, 1>>
          BY <5>1, <3>2
        <5> QED
          BY <5>1, <5>2, <5>3, <1>3, <2>3 DEF Keeps
      <4> QED
        BY <4>1, <4>2, <3>3 DEF Present
    <3>6. Assembling(s, w, d)
      BY <2>3 DEF Assembling
    <3>7. Handed(s, d)
      <4>1. /\ Len(d.delivered) = F /\ d.delivered[F] = s[F]
            /\ \A m \in 1..Len(c.delivered) : d.delivered[m] = c.delivered[m]
        BY <2>3, <1>2 DEF CodecState
      <4>2. ASSUME NEW m \in 1..F PROVE d.delivered[m] = s[m]
        <5>1. m = F \/ m \in 1..Len(c.delivered)
          BY <1>2
        <5> QED
          BY <5>1, <4>1 DEF Handed, Chain
      <4> QED
        BY <4>1, <4>2, <3>2, <1>1, <1>2 DEF Handed
    <3> QED
      BY <3>4, <3>5, <3>6, <3>7, <1>3 DEF Chain, gs, d, f
  <2>4. CASE /\ ~f.fin /\ c.current = "none" /\ f.says = <<F, 1>>
             /\ f.op \in Kind
             /\ d.current = f.op /\ d.delivered = c.delivered
             /\ d.text = IF f.op = "text" THEN <<f.says>> ELSE <<>>
             /\ d.binary = IF f.op = "binary" THEN <<f.says>> ELSE <<>>
    <3>1. First(d) = First(c) /\ d.current # "none"
      BY <2>4 DEF First, Kind
    <3>2. Sourced(gs, s, w, d)
      BY <1>4, <3>1 DEF Sourced, OfSaid
    <3>3. Present(gs, s, w, d)
      <4>1. ASSUME NEW m, NEW k, Queued(fs, <<m, k>>) <=> ~Keeps(m, k, c)
            PROVE  Queued(gs, <<m, k>>) <=> ~Keeps(m, k, d)
        BY <4>1, <3>1, <1>3, <1>6, <2>4 DEF Keeps, F
      <4> QED
        BY <4>1, <3>1 DEF Present, Chain
    <3>4. Assembling(s, w, d)
      <4>1. /\ d.text = IF d.current = "text" THEN << <<First(d), 1>> >> ELSE <<>>
            /\ d.binary = IF d.current = "binary" THEN << <<First(d), 1>> >> ELSE <<>>
        BY <2>4, <3>1 DEF F
      <4>2. \/ F <= Len(s) /\ s[F].kind = d.current /\ Len(s[F].body) = 2
            \/ F = Len(s) + 1 /\ w.body # <<>> /\ w.kind = d.current
        <5>1. f.says[1] = F /\ f.says[2] = 1
          BY <2>4
        <5>2. CASE OfWriting(f, s, w)
          BY <5>1, <5>2, <2>4 DEF OfWriting
        <5>3. CASE OfSaid(f, s, c)
          <6>1. F \in 1..Len(s) /\ Len(s[F].body) # 1 /\ f.op = s[F].kind
            BY <5>1, <5>3, <2>4, <1>1, <1>2 DEF OfSaid, F
          <6>2. Len(s[F].body) = 2
            BY <6>1, OneOrTwo DEF Chain
          <6> QED
            BY <6>1, <6>2, <2>4
        <5> QED
          BY <2>2, <5>2, <5>3
      <4> QED
        BY <4>1, <4>2, <3>1 DEF Assembling, F
    <3>5. Handed(s, d)
      BY <2>4 DEF Handed, Chain
    <3> QED
      BY <3>2, <3>3, <3>4, <3>5, <1>3 DEF Chain, gs, d, f
  <2> QED
    BY <2>1, <2>3, <2>4
<1> QED
  BY <1>5, <1>6

\* What is queued when a frame is sent.
LEMMA AppendQueued ==
  ASSUME NEW fs \in Seq(Frame), NEW f \in Frame, Ordered(fs),
         IsData(f) => \A j \in 1..Len(fs) : IsData(fs[j]) => Before(fs[j].says, f.says)
  PROVE  /\ \A p : Queued(Append(fs, f), p) <=> Queued(fs, p) \/ (IsData(f) /\ f.says = p)
         /\ Ordered(Append(fs, f))
<1> DEFINE gs == Append(fs, f)
<1>1. /\ Len(fs) \in Nat /\ Len(gs) = Len(fs) + 1 /\ gs[Len(fs) + 1] = f
      /\ \A j \in 1..Len(fs) : j \in 1..Len(gs) /\ gs[j] = fs[j]
      /\ \A j \in 1..Len(gs) : j \in 1..Len(fs) \/ j = Len(fs) + 1
      /\ Len(fs) + 1 \in 1..Len(gs)
  OBVIOUS
<1> HIDE DEF gs
<1>2. ASSUME NEW p
      PROVE  Queued(gs, p) <=> Queued(fs, p) \/ (IsData(f) /\ f.says = p)
  BY <1>1 DEF Queued
<1>3. Ordered(gs)
  <2> SUFFICES ASSUME NEW i \in 1..Len(gs), NEW j \in 1..Len(gs),
                      i < j, IsData(gs[i]), IsData(gs[j])
               PROVE  Before(gs[i].says, gs[j].says)
    BY DEF Ordered
  <2>1. i \in 1..Len(fs)
    BY <1>1
  <2>2. CASE j \in 1..Len(fs)
    BY <2>1, <2>2, <1>1 DEF Ordered
  <2>3. CASE j = Len(fs) + 1
    BY <2>1, <2>3, <1>1
  <2> QED
    BY <2>2, <2>3, <1>1
<1> QED
  BY <1>2, <1>3 DEF gs

\* The client pings.
LEMMA PingChain ==
  ASSUME NEW fs \in Seq(Frame), NEW s \in Seq(Message), NEW w \in Message,
         NEW c \in CodecState, Chain(fs, s, w, c), NEW f \in Frame, ~IsData(f)
  PROVE  Chain(Append(fs, f), s, w, c)
<1>1. /\ Ordered(Append(fs, f))
      /\ \A p : Queued(Append(fs, f), p) <=> Queued(fs, p)
  BY AppendQueued DEF Chain
<1>2. Sourced(Append(fs, f), s, w, c)
  <2>1. \A j \in 1..Len(Append(fs, f)) :
          IsData(Append(fs, f)[j]) => j \in 1..Len(fs) /\ Append(fs, f)[j] = fs[j]
    OBVIOUS
  <2> QED
    BY <2>1 DEF Chain, Sourced
<1>3. Present(Append(fs, f), s, w, c)
  BY <1>1 DEF Chain, Present
<1> QED
  BY <1>1, <1>2, <1>3 DEF Chain

\* What the frames are before the next part is sent.
LEMMA BeforeNext ==
  ASSUME NEW fs \in Seq(Frame), NEW s \in Seq(Message), NEW w \in Message,
         NEW c \in CodecState, Chain(fs, s, w, c)
  PROVE  /\ First(c) \in Nat \ {0} /\ First(c) <= Len(s) + 1 /\ Len(s) \in Nat
         /\ \A j \in 1..Len(fs) : IsData(fs[j]) =>
              Before(fs[j].says, <<Len(s) + 1, Len(w.body) + 1>>)
         /\ w.body = <<>> => c.current = "none" \/ First(c) <= Len(s)
<1>1. First(c) \in Nat \ {0} /\ First(c) <= Len(s) + 1 /\ Len(s) \in Nat
  <2>1. Len(c.delivered) \in Nat /\ Len(s) \in Nat
    BY DEF CodecState
  <2> QED
    BY <2>1 DEF First, Chain, Handed
<1>2. ASSUME NEW j \in 1..Len(fs), IsData(fs[j])
      PROVE  Before(fs[j].says, <<Len(s) + 1, Len(w.body) + 1>>)
  <2>1. CASE OfSaid(fs[j], s, c)
    <3>1. fs[j].says[1] \in First(c)..Len(s)
      BY <2>1 DEF OfSaid
    <3> QED
      BY <3>1, <1>1 DEF Before
  <2>2. CASE OfWriting(fs[j], s, w)
    <3>1. Len(<< <<Len(s) + 1, 1>> >>) = 1
      OBVIOUS
    <3>2. Len(w.body) = 1
      BY <2>2, <3>1 DEF OfWriting, Chain, Writes
    <3> QED
      BY <2>2, <3>2, <1>1 DEF OfWriting, Before
  <2> QED
    BY <1>2, <2>1, <2>2 DEF Chain, Sourced
<1>3. ASSUME w.body = <<>>, c.current # "none" PROVE First(c) <= Len(s)
  BY <1>3 DEF Chain, Assembling
<1> QED
  BY <1>1, <1>2, <1>3

\* The client starts a message.
LEMMA FirstChain ==
  ASSUME NEW fs \in Seq(Frame), NEW s \in Seq(Message), NEW w \in Message,
         NEW c \in CodecState, Chain(fs, s, w, c), MaxFragments = 2,
         NEW f \in Frame, IsData(f), ~f.fin, f.says = <<Len(s) + 1, 1>>,
         w.body = <<>>, NEW v \in Message, v.kind = f.op, v.body = <<f.says>>
  PROVE  Chain(Append(fs, f), s, v, c)
<1> DEFINE gs == Append(fs, f)
<1>1. /\ First(c) \in Nat \ {0} /\ First(c) <= Len(s) + 1 /\ Len(s) \in Nat
      /\ c.current = "none" \/ First(c) <= Len(s)
      /\ Len(w.body) + 1 = 1
  BY BeforeNext
<1>2. /\ Ordered(gs)
      /\ \A p : Queued(gs, p) <=> Queued(fs, p) \/ f.says = p
  <2>1. ASSUME NEW j \in 1..Len(fs), IsData(fs[j]) PROVE Before(fs[j].says, f.says)
    <3>1. Before(fs[j].says, <<Len(s) + 1, Len(w.body) + 1>>)
      BY <2>1, BeforeNext
    <3>2. f.says = <<Len(s) + 1, Len(w.body) + 1>>
      BY <1>1
    <3> QED
      BY <3>1, <3>2, Zenon
  <2> QED
    BY <2>1, AppendQueued DEF Chain
<1>3. v.body # <<>>
  OBVIOUS
<1>4. Sourced(gs, s, v, c)
  <2>1. ASSUME NEW j \in 1..Len(gs), IsData(gs[j])
        PROVE  OfSaid(gs[j], s, c) \/ OfWriting(gs[j], s, v)
    <3>1. CASE j \in 1..Len(fs)
      BY <2>1, <3>1 DEF Chain, Sourced, OfWriting
    <3>2. CASE j = Len(fs) + 1
      BY <3>2, <1>3 DEF OfWriting
    <3> QED
      BY <3>1, <3>2
  <2> QED
    BY <2>1 DEF Sourced
<1>5. Present(gs, s, v, c)
  <2>1. ASSUME NEW m \in First(c)..Len(s), NEW k \in 1..Len(s[m].body)
        PROVE  Queued(gs, <<m, k>>) <=> ~Keeps(m, k, c)
    <3>1. f.says # <<m, k>>
      BY <1>1
    <3> QED
      BY <3>1, <1>2 DEF Chain, Present
  <2>2. Queued(gs, <<Len(s) + 1, 1>>) /\ ~Keeps(Len(s) + 1, 1, c)
    BY <1>1, <1>2 DEF Keeps
  <2> QED
    BY <2>1, <2>2 DEF Present
<1>6. Assembling(s, v, c)
  BY <1>1 DEF Chain, Assembling
<1> QED
  BY <1>2, <1>4, <1>5, <1>6 DEF Chain, Writes

\* The client ends a message.
LEMMA LastChain ==
  ASSUME NEW fs \in Seq(Frame), NEW s \in Seq(Message), NEW w \in Message,
         NEW c \in CodecState, Chain(fs, s, w, c),
         NEW f \in Frame, IsData(f), f.fin, f.says = <<Len(s) + 1, Len(w.body) + 1>>,
         NEW n \in Message,
         \/ w.body = <<>> /\ f.op = n.kind /\ n.body = <<f.says>>
         \/ /\ w.body # <<>> /\ f.op = "continuation" /\ n.kind = w.kind
            /\ n.body = Append(w.body, f.says)
  PROVE  Chain(Append(fs, f), Append(s, n), Nothing, c)
<1> DEFINE gs == Append(fs, f)
           r == Append(s, n)
           S == Len(s) + 1
           l == Len(w.body) + 1
<1>1. /\ First(c) \in Nat \ {0} /\ First(c) <= S /\ Len(s) \in Nat
      /\ w.body = <<>> => c.current = "none" \/ First(c) <= Len(s)
  BY BeforeNext
<1>2. /\ Ordered(gs)
      /\ \A p : Queued(gs, p) <=> Queued(fs, p) \/ f.says = p
  <2>1. ASSUME NEW j \in 1..Len(fs), IsData(fs[j]) PROVE Before(fs[j].says, f.says)
    <3>1. Before(fs[j].says, <<Len(s) + 1, Len(w.body) + 1>>)
      BY <2>1, BeforeNext
    <3> QED
      BY <3>1, Zenon
  <2> QED
    BY <2>1, AppendQueued DEF Chain
<1>3. /\ Len(r) = S /\ r[S] = n /\ \A m \in 1..Len(s) : r[m] = s[m]
      /\ \A m \in 1..S : m \in 1..Len(s) \/ m = S
      /\ Nothing.body = <<>>
  BY <1>1 DEF Nothing
<1>4. \/ l = 1 /\ w.body = <<>> /\ n.body = << <<S, 1>> >> /\ Len(n.body) = 1
         /\ f.says = <<S, 1>> /\ f.op = n.kind
      \/ l = 2 /\ w.body = << <<S, 1>> >> /\ n.body = << <<S, 1>>, <<S, 2>> >>
         /\ Len(n.body) = 2 /\ f.says = <<S, 2>> /\ f.op = "continuation" /\ n.kind = w.kind
  <2>1. CASE w.body = <<>> /\ f.op = n.kind /\ n.body = <<f.says>>
    <3>1. Len(w.body) + 1 = 1 /\ Len(<<f.says>>) = 1
      BY <2>1
    <3> QED
      BY <2>1, <3>1
  <2>2. CASE /\ w.body # <<>> /\ f.op = "continuation" /\ n.kind = w.kind
             /\ n.body = Append(w.body, f.says)
    <3>1. w.body = << <<S, 1>> >>
      BY <2>2 DEF Chain, Writes
    <3>2. Len(w.body) + 1 = 2
      BY <3>1
    <3>3. Append(w.body, f.says) = << <<S, 1>>, f.says >>
      <4>1. f.says \in Part
        BY DEF Frame
      <4>2. <<S, 1>> \in Part
        BY <1>1 DEF Part
      <4>3. ASSUME NEW x \in Part, NEW y \in Part
            PROVE  Append(<<x>>, y) = <<x, y>>
        <5>1. /\ <<x>> \in Seq(Part) /\ <<x, y>> \in Seq(Part)
              /\ Len(<<x>>) = 1 /\ Len(<<x, y>>) = 2
          OBVIOUS
        <5>2. /\ Append(<<x>>, y) \in Seq(Part) /\ Len(Append(<<x>>, y)) = 2
              /\ Append(<<x>>, y)[1] = x /\ Append(<<x>>, y)[2] = y
          BY <5>1, AppendProperties
        <5>3. \A i \in 1..2 : Append(<<x>>, y)[i] = <<x, y>>[i]
          BY <5>2
        <5> QED
          <6> DEFINE a == Append(<<x>>, y)
                     b == <<x, y>>
          <6>1. /\ a \in Seq(Part) /\ b \in Seq(Part) /\ Len(a) = Len(b)
                /\ \A i \in 1..Len(a) : a[i] = b[i]
            BY <5>1, <5>2, <5>3
          <6> HIDE DEF a, b
          <6>2. a = b
            BY <6>1, SeqEqual
          <6> QED
            BY <6>2 DEF a, b
      <4> QED
        BY <4>1, <4>2, <4>3, <3>1, Zenon
    <3>4. Len(<< <<S, 1>>, f.says >>) = 2
      OBVIOUS
    <3> QED
      BY <2>2, <3>1, <3>2, <3>3, <3>4
  <2> QED
    BY <2>1, <2>2
<1> HIDE DEF gs, r, S, l
<1>5. Told(r)
  BY <1>3, <1>4 DEF Told, Chain
<1>6. Sourced(gs, r, Nothing, c)
  <2>1. ASSUME NEW j \in 1..Len(gs), IsData(gs[j]) PROVE OfSaid(gs[j], r, c)
    <3>1. CASE j \in 1..Len(fs)
      <4>1. gs[j] = fs[j]
        BY <3>1 DEF gs
      <4>2. CASE OfSaid(fs[j], s, c)
        <5> DEFINE m == gs[j].says[1]
        <5>1. m \in First(c)..Len(s)
          BY <4>1, <4>2 DEF OfSaid
        <5>2. m \in First(c)..Len(r) /\ r[m] = s[m]
          BY <5>1, <1>1, <1>3 DEF S
        <5> QED
          BY <4>1, <4>2, <5>2 DEF OfSaid
      <4>3. CASE OfWriting(fs[j], s, w)
        <5>1. /\ fs[j].says[1] = S /\ fs[j].says[2] = 1 /\ ~fs[j].fin
              /\ fs[j].op = n.kind /\ Len(n.body) = 2
          BY <4>3, <1>4 DEF OfWriting, S
        <5>2. S \in First(c)..Len(r)
          BY <1>1, <1>3 DEF S
        <5>3. r[S] = n /\ Len(r[S].body) = 2 /\ r[S].kind = gs[j].op
          BY <4>1, <5>1, <1>3
        <5>4. 1 \in 1..Len(r[S].body) /\ ~gs[j].fin /\ 1 # Len(r[S].body)
          <6>1. \A x : x = 2 => 1 \in 1..x /\ 1 # x
            OBVIOUS
          <6>2. ~gs[j].fin
            BY <4>1, <5>1
          <6> QED
            BY <5>3, <6>1, <6>2
        <5>5. gs[j].says[1] = S /\ gs[j].says[2] = 1
          BY <4>1, <5>1
        <5> QED
          BY <5>2, <5>3, <5>4, <5>5 DEF OfSaid
      <4> QED
        BY <2>1, <3>1, <4>1, <4>2, <4>3 DEF Chain, Sourced
    <3>2. CASE j = Len(fs) + 1
      <4>1. gs[j] = f
        BY <3>2 DEF gs
      <4>2. /\ S \in First(c)..Len(r) /\ f.says[1] = S /\ f.says[2] = l
            /\ l = Len(r[S].body) /\ l \in 1..Len(r[S].body)
            /\ f.op = IF l = 1 THEN r[S].kind ELSE "continuation"
        <5>1. S \in First(c)..Len(r) /\ r[S] = n
          BY <1>1, <1>3 DEF S
        <5>2. CASE l = 1 /\ f.says = <<S, 1>> /\ f.op = n.kind /\ Len(n.body) = 1
          <6>1. l = Len(r[S].body) /\ l \in 1..l /\ f.says[1] = S /\ f.says[2] = l
            BY <5>1, <5>2
          <6> QED
            BY <5>1, <5>2, <6>1
        <5>3. CASE l = 2 /\ f.says = <<S, 2>> /\ f.op = "continuation" /\ Len(n.body) = 2
          <6>1. l = Len(r[S].body) /\ l \in 1..l /\ f.says[1] = S /\ f.says[2] = l
            BY <5>1, <5>3
          <6> QED
            BY <5>1, <5>3, <6>1
        <5> QED
          BY <1>4, <5>2, <5>3
      <4> QED
        BY <4>1, <4>2 DEF OfSaid
    <3> QED
      BY <3>1, <3>2 DEF gs
  <2> QED
    BY <2>1 DEF Sourced
<1>7. Present(gs, r, Nothing, c)
  <2>1. ASSUME NEW m \in First(c)..Len(s), NEW k \in 1..Len(s[m].body)
        PROVE  Queued(gs, <<m, k>>) <=> ~Keeps(m, k, c)
    <3>1. f.says # <<m, k>>
      BY <1>1, <1>4 DEF S
    <3> QED
      BY <3>1, <1>2 DEF Chain, Present
  <2>2. ASSUME NEW k \in 1..Len(n.body)
        PROVE  Queued(gs, <<S, k>>) <=> ~Keeps(S, k, c)
    <3>1. CASE f.says = <<S, k>>
      <4>1. ~Keeps(S, k, c)
        BY <3>1, <1>1, <1>4 DEF Keeps, S
      <4> QED
        BY <3>1, <4>1, <1>2
    <3>2. CASE f.says # <<S, k>>
      <4>1. k = 1 /\ w.body # <<>>
        <5>1. \A x \in 1..1 : x = 1
          OBVIOUS
        <5>2. \A x \in 1..2 : x = 1 \/ x = 2
          OBVIOUS
        <5> QED
          BY <3>2, <5>1, <5>2, <1>4
      <4>2. Queued(fs, <<S, 1>>) <=> ~Keeps(S, 1, c)
        BY <4>1 DEF Chain, Present, S
      <4> QED
        BY <3>2, <4>1, <4>2, <1>2
    <3> QED
      BY <3>1, <3>2
  <2>3. ASSUME NEW m \in First(c)..Len(r), NEW k \in 1..Len(r[m].body)
        PROVE  Queued(gs, <<m, k>>) <=> ~Keeps(m, k, c)
    <3>1. m \in First(c)..Len(s) \/ m = S
      BY <1>1, <1>3 DEF S
    <3>2. CASE m \in First(c)..Len(s)
      <4>1. r[m] = s[m]
        BY <3>2, <1>1, <1>3
      <4> QED
        BY <3>2, <4>1, <2>1
    <3>3. CASE m = S
      BY <3>3, <2>2, <1>3
    <3> QED
      BY <3>1, <3>2, <3>3
  <2> QED
    BY <2>3, <1>3 DEF Present
<1>8. Assembling(r, Nothing, c)
  <2> SUFFICES ASSUME c.current # "none"
               PROVE  /\ First(c) <= Len(r) /\ r[First(c)].kind = c.current
                      /\ Len(r[First(c)].body) = 2
    BY DEF Chain, Assembling
  <2>1. CASE First(c) <= Len(s)
    <3>1. r[First(c)] = s[First(c)] /\ First(c) <= Len(r) /\ First(c) # Len(s) + 1
      BY <2>1, <1>1, <1>3 DEF S
    <3> QED
      BY <3>1 DEF Chain, Assembling
  <2>2. CASE First(c) = S
    <3>1. w.body # <<>> /\ w.kind = c.current
      BY <2>2, <1>1 DEF Chain, Assembling, S
    <3> QED
      BY <2>2, <3>1, <1>1, <1>3, <1>4
  <2> QED
    BY <2>1, <2>2, <1>1 DEF S
<1>9. Handed(r, c)
  <2>1. Len(c.delivered) \in Nat
    BY DEF CodecState
  <2> QED
    BY <2>1, <1>1, <1>3 DEF Handed, Chain, S
<1> QED
  BY <1>2, <1>3, <1>5, <1>6, <1>7, <1>8, <1>9 DEF Chain, Writes, gs, r

\* What the proof of DeliveredWhole carries from state to state.
Followed == Placed /\ Chain(frames, said, writing, codec)

LEMMA FollowedDelivers == Followed => DeliveredWhole
<1> SUFFICES ASSUME Followed PROVE DeliveredWhole
  OBVIOUS
<1> DEFINE n == Len(codec.delivered)
<1>1. /\ codec.delivered \in Seq(Message) /\ said \in Seq(Message)
  BY DEF Followed, Placed, TypeOK, CodecState
<1>2. n <= Len(said) /\ \A m \in 1..n : codec.delivered[m] = said[m]
  BY DEF Followed, Chain, Handed
<1> DEFINE a == codec.delivered
           b == SubSeq(said, 1, n)
<1>3. /\ b \in Seq(Message) /\ Len(a) = Len(b) /\ n \in Nat
      /\ \A i \in 1..n : b[i] = said[i]
  BY <1>1, <1>2
<1>4. \A i \in 1..Len(a) : a[i] = b[i]
  BY <1>2, <1>3
<1>5. a \in Seq(Message)
  BY <1>1
<1> HIDE DEF a, b
<1>6. a = b
  BY <1>3, <1>4, <1>5, SeqEqual
<1> QED
  BY <1>2, <1>6 DEF a, b, DeliveredWhole

LEMMA InitFollowed == Init => Followed
<1> SUFFICES ASSUME Init PROVE Followed
  OBVIOUS
<1>1. /\ frames = <<>> /\ said = <<>> /\ writing.body = <<>> /\ codec.delivered = <<>>
      /\ codec.current = "none" /\ codec.text = <<>> /\ codec.binary = <<>>
  BY DEF Init, Nothing
<1>2. Chain(frames, said, writing, codec)
  BY <1>1 DEF Chain, Told, Writes, Sourced, Ordered, Present, Assembling, Handed, First
<1> QED
  BY <1>2, InitPlaced DEF Followed

\* Whoever transmits a frame has only to look at the queue with the frame added.
LEMMA TransmitFollowed ==
  ASSUME Followed, Placed', NEW op, NEW fin, NEW part, Transmit(op, fin, part),
         part \in Part, op \in Kind \cup {"continuation", "ping"}, fin \in BOOLEAN,
         \A f \in Frame : f.op = op /\ f.fin = fin /\ f.says = part =>
           Chain(Append(frames, f), said', writing', codec)
  PROVE  Followed'
<1>1. PICK ext \in LengthBytes, size \in Bodies :
        LET f == [op |-> op, fin |-> fin, ext |-> ext, size |-> size, says |-> part]
        IN  frames' = Append(frames, f) /\ codec' = codec
  BY DEF Transmit
<1> DEFINE f == [op |-> op, fin |-> fin, ext |-> ext, size |-> size, says |-> part]
<1>2. f \in Frame /\ f.op = op /\ f.fin = fin /\ f.says = part
  BY DEF Frame
<1>3. frames' = Append(frames, f) /\ codec' = codec
  BY <1>1
<1> HIDE DEF f
<1>4. Chain(Append(frames, f), said', writing', codec)
  BY <1>2
<1>5. Chain(frames', said', writing', codec')
  BY <1>3, <1>4
<1> QED
  BY <1>5 DEF Followed

LEMMA NextFollowed ==
  ASSUME MaxFragments \in {1, 2}, Followed, [Next]_vars
  PROVE  Followed'
<1>0. /\ Placed /\ Placed' /\ TypeOK /\ Chain(frames, said, writing, codec)
      /\ frames \in Seq(Frame) /\ said \in Seq(Message) /\ writing \in Message
      /\ codec \in CodecState
  BY NextPlaced DEF Followed, Placed, TypeOK
<1>2. ASSUME NEW kind \in Kind, NEW fin \in BOOLEAN, SendFirst(kind, fin) PROVE Followed'
  <2> DEFINE m == [kind |-> kind, body |-> <<NextPart>>]
  <2>1. /\ writing.body = <<>>
        /\ (MaxFragments = 1 => fin)
        /\ Transmit(kind, fin, NextPart)
        /\ writing' = IF fin THEN Nothing ELSE m
        /\ said' = IF fin THEN Append(said, m) ELSE said
    BY <1>2 DEF SendFirst
  <2>2. /\ m \in Message /\ m.kind = kind /\ m.body = <<NextPart>> /\ NextPart \in Part
        /\ kind # "ping"
    BY <1>0, WriterTyped DEF Kind
  <2>3. NextPart = <<Len(said) + 1, 1>>
    BY <2>1 DEF NextPart
  <2> HIDE DEF m, NextPart
  <2>4. CASE fin
    <3>1. said' = Append(said, m) /\ writing' = Nothing
      BY <2>1, <2>4
    <3>2. ASSUME NEW f \in Frame, f.op = kind, f.fin = fin, f.says = NextPart
          PROVE  Chain(Append(frames, f), said', writing', codec)
      <4>1. /\ f.fin /\ IsData(f) /\ f.op = kind
            /\ f.says = <<Len(said) + 1, Len(writing.body) + 1>>
            /\ writing.body = <<>> /\ f.op = m.kind /\ m.body = <<f.says>>
        BY <3>2, <2>1, <2>2, <2>3, <2>4 DEF IsData
      <4> QED
        BY <4>1, <3>1, <2>1, <2>2, <1>0, LastChain
    <3> QED
      BY <3>2, <2>1, <2>2, <1>0, TransmitFollowed
  <2>5. CASE ~fin
    <3>1. said' = said /\ writing' = m
      BY <2>1, <2>5
    <3>2. ASSUME NEW f \in Frame, f.op = kind, f.fin = fin, f.says = NextPart
          PROVE  Chain(Append(frames, f), said', writing', codec)
      <4>1. /\ ~f.fin /\ IsData(f) /\ f.op = kind
            /\ f.says = <<Len(said) + 1, 1>> /\ MaxFragments = 2
            /\ m.kind = kind /\ m.body = <<f.says>>
        BY <3>2, <2>1, <2>2, <2>3, <2>5 DEF IsData
      <4> QED
        BY <4>1, <3>1, <2>1, <2>2, <1>0, FirstChain
    <3> QED
      BY <3>2, <2>1, <2>2, <1>0, TransmitFollowed
  <2> QED
    BY <2>4, <2>5
<1>3. ASSUME NEW fin \in BOOLEAN, SendNext(fin) PROVE Followed'
  <2> DEFINE m == [writing EXCEPT !.body = Append(@, NextPart)]
  <2>1. /\ writing.body # <<>>
        /\ (Len(writing.body) + 1 = MaxFragments => fin)
        /\ Transmit("continuation", fin, NextPart)
        /\ writing' = IF fin THEN Nothing ELSE m
        /\ said' = IF fin THEN Append(said, m) ELSE said
    BY <1>3 DEF SendNext
  <2>2. /\ m \in Message /\ m.kind = writing.kind
        /\ m.body = Append(writing.body, NextPart) /\ NextPart \in Part
    BY <1>0, WriterTyped DEF Message
  <2>3. NextPart = <<Len(said) + 1, Len(writing.body) + 1>>
    BY DEF NextPart
  <2> HIDE DEF m, NextPart
  <2>4. fin
    <3>1. writing.body = << <<Len(said) + 1, 1>> >> /\ MaxFragments = 2
      BY <2>1, <1>0 DEF Chain, Writes
    <3>2. Len(writing.body) + 1 = 2
      BY <3>1
    <3> QED
      BY <3>1, <3>2, <2>1
  <2>5. said' = Append(said, m) /\ writing' = Nothing
    BY <2>1, <2>4
  <2>6. ASSUME NEW f \in Frame, f.op = "continuation", f.fin = fin, f.says = NextPart
        PROVE  Chain(Append(frames, f), said', writing', codec)
    <3>1. /\ f.fin /\ IsData(f)
          /\ f.says = <<Len(said) + 1, Len(writing.body) + 1>>
          /\ m.body = Append(writing.body, f.says)
      BY <2>6, <2>2, <2>3, <2>4 DEF IsData
    <3> QED
      BY <3>1, <2>6, <2>5, <2>1, <2>2, <1>0, LastChain
  <2> QED
    BY <2>6, <2>1, <2>2, <1>0, TransmitFollowed
<1>4. ASSUME SendPing PROVE Followed'
  <2>1. /\ Transmit("ping", TRUE, <<0, 0>>) /\ said' = said /\ writing' = writing
        /\ <<0, 0>> \in Part
    BY <1>4 DEF SendPing, Part
  <2>2. ASSUME NEW f \in Frame, f.op = "ping"
        PROVE  Chain(Append(frames, f), said, writing, codec)
    BY <2>2, <1>0, PingChain DEF IsData
  <2> DEFINE op == "ping"
             fin == TRUE
             part == <<0, 0>>
  <2>3. /\ Transmit(op, fin, part) /\ part \in Part /\ fin \in BOOLEAN
        /\ op \in Kind \cup {"continuation", "ping"}
    BY <2>1
  <2>4. ASSUME NEW f \in Frame, f.op = op, f.fin = fin, f.says = part
        PROVE  Chain(Append(frames, f), said', writing', codec)
    BY <2>1, <2>2, <2>4
  <2> HIDE DEF op, fin, part
  <2> QED
    BY <2>3, <2>4, <1>0, TransmitFollowed
<1>5. ASSUME ParseFrame PROVE Followed'
  <2>1. UNCHANGED <<writing, said>>
    BY <1>5 DEF ParseFrame
  <2>2. frames # <<>> /\ Head(frames) = frames[1]
    <3>1. input + wire + taken # 0
      BY <1>0, <1>5 DEF ParseFrame, TypeOK
    <3> QED
      BY <3>1, <1>0, SomeFrame
  <2>3. \/ frames' = Tail(frames) /\ codec' = OnParsedFrame(codec, frames[1])
        \/ UNCHANGED <<frames, codec>>
    BY <1>5, <2>2 DEF ParseFrame
  <2>4. Chain(Tail(frames), said, writing, OnParsedFrame(codec, frames[1]))
    BY <1>0, <2>2, ParseChain
  <2>5. Chain(frames', said', writing', codec')
    BY <1>0, <2>1, <2>3, <2>4
  <2> QED
    BY <2>5, <1>0 DEF Followed
<1>6. ASSUME HeaderIncomplete PROVE Followed'
  <2>1. /\ UNCHANGED <<frames, writing, said>>
        /\ codec'.current = codec.current /\ codec'.text = codec.text
        /\ codec'.binary = codec.binary /\ codec'.delivered = codec.delivered
    BY <1>0, <1>6 DEF HeaderIncomplete, CodecError, CodecState
  <2>2. Chain(frames, said, writing, codec')
    BY <1>0, <2>1 DEF Chain, Sourced, OfSaid, Present, Keeps, Assembling, Handed, First
  <2> QED
    BY <2>1, <2>2, <1>0 DEF Followed
<1>7. ASSUME Arrive \/ InputEmpty \/ ForceClose \/ UNCHANGED vars PROVE Followed'
  <2>1. UNCHANGED <<frames, writing, said, codec>>
    BY <1>7 DEF Arrive, InputEmpty, ForceClose, vars
  <2> QED
    BY <2>1, <1>0 DEF Followed
<1> QED
  BY <1>2, <1>3, <1>4, <1>5, <1>6, <1>7 DEF Next, OnData

\* For frames of any size and however the stream is cut, messages of up to two
\* fragments are handed over whole and in order (WebsocketCodec).  With three,
\* OnContinuationFrame refuses the last.
THEOREM MessagesDeliveredWhole ==
  ASSUME MaxFragments \in {1, 2} PROVE Spec => []DeliveredWhole
<1>1. Followed /\ [Next]_vars => Followed'
  BY NextFollowed
<1> QED
  BY InitFollowed, <1>1, FollowedDelivers, PTL DEF Spec
=============================================================================
