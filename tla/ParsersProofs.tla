--------------------------- MODULE ParsersProofs ---------------------------
(***************************************************************************)
(* What holds of the formats for any packets, texts, lengths and keys.     *)
(***************************************************************************)
EXTENDS Parsers, DataLemmas, FiniteSetTheorems

-----------------------------------------------------------------------------
(* Headers of frames.                                                      *)

Byte == 0..255

\* Numbers of two and of four bytes, with zeros before them.
LEMMA NumberOfBytes ==
  ASSUME NEW a \in Byte, NEW b \in Byte, NEW c \in Byte, NEW d \in Byte
  PROVE  /\ NumberOf(<<c, d>>, 256) = c * 256 + d
         /\ NumberOf(<<0, 0, 0, 0, a, b, c, d>>, 256)
              = ((a * 256 + b) * 256 + c) * 256 + d
<1>0. a \in Nat /\ b \in Nat /\ c \in Nat /\ d \in Nat /\ 0 \in Nat /\ 256 \in Base
  BY DEF Byte, Base
<1>1. NumberOf(<<>>, 256) = 0 /\ <<>> \in Seq(Nat)
  BY <1>0, NumberOfEmpty, EmptySeq
<1> DEFINE V(s) == NumberOf(s, 256)
<1>2. \A s \in Seq(Nat), x \in Nat : V(Append(s, x)) = V(s) * 256 + x
  BY <1>0, NumberOfAppend
<1>3. V(<<c, d>>) = c * 256 + d
  <2>1. <<c>> = Append(<<>>, c) /\ <<c, d>> = Append(<<c>>, d) /\ <<c>> \in Seq(Nat)
    BY <1>0
  <2>4. V(<<>>) = 0
    BY <1>1
  <2> HIDE DEF V
  <2>2. V(<<c>>) = V(<<>>) * 256 + c
    <3>1. V(Append(<<>>, c)) = V(<<>>) * 256 + c
      BY ONLY <1>0, <1>1, <1>2
    <3> QED
      BY <2>1, <3>1
  <2>3. V(<<c, d>>) = V(<<c>>) * 256 + d
    <3>1. V(Append(<<c>>, d)) = V(<<c>>) * 256 + d
      BY ONLY <1>0, <1>2, <2>1
    <3> QED
      BY <2>1, <3>1
  <2>5. V(<<c, d>>) = c * 256 + d
    BY <1>0, <2>2, <2>3, <2>4
  <2> QED
    BY <2>5
<1>4. V(<<0, 0, 0, 0, a, b, c, d>>) = ((a * 256 + b) * 256 + c) * 256 + d
  <2> DEFINE s1 == << 0 >>
             s2 == <<0, 0>>
             s3 == <<0, 0, 0>>
             s4 == <<0, 0, 0, 0>>
             s5 == <<0, 0, 0, 0, a>>
             s6 == <<0, 0, 0, 0, a, b>>
             s7 == <<0, 0, 0, 0, a, b, c>>
             s8 == <<0, 0, 0, 0, a, b, c, d>>
  <2>1. /\ s1 \in Seq(Nat) /\ s2 \in Seq(Nat) /\ s3 \in Seq(Nat) /\ s4 \in Seq(Nat)
        /\ s5 \in Seq(Nat) /\ s6 \in Seq(Nat) /\ s7 \in Seq(Nat)
    BY <1>0
  <2>2. s1 = Append(<<>>, 0) /\ s2 = Append(s1, 0) /\ s3 = Append(s2, 0) /\ s4 = Append(s3, 0)
    OBVIOUS
  <2>3. s5 = Append(s4, a) /\ s6 = Append(s5, b) /\ s7 = Append(s6, c) /\ s8 = Append(s7, d)
    OBVIOUS
  <2> HIDE DEF s1, s2, s3, s4, s5, s6, s7, s8, V
  <2> DEFINE Longer(s, u, x) == V(u) = V(s) * 256 + x
  <2>4. \A s \in Seq(Nat), x \in Nat : Longer(s, Append(s, x), x)
    BY <1>2
  <2>5. <<>> \in Seq(Nat)
    BY <1>1
  <2> HIDE DEF Longer
  <2>6. /\ Longer(<<>>, s1, 0) /\ Longer(s1, s2, 0)
        /\ Longer(s2, s3, 0) /\ Longer(s3, s4, 0)
    BY ONLY <1>0, <2>1, <2>2, <2>4, <2>5
  <2>7. /\ Longer(s4, s5, a) /\ Longer(s5, s6, b)
        /\ Longer(s6, s7, c) /\ Longer(s7, s8, d)
    BY ONLY <1>0, <2>1, <2>3, <2>4
  <2>8. V(<<>>) = 0
    BY <1>1 DEF V
  <2>9. V(s4) = 0
    BY ONLY <2>6, <2>8 DEF Longer
  <2>10. V(s6) = a * 256 + b
    BY ONLY <1>0, <2>7, <2>9 DEF Longer
  <2>11. V(s8) = ((a * 256 + b) * 256 + c) * 256 + d
    BY ONLY <1>0, <2>7, <2>10 DEF Longer
  <2> QED
    BY <2>11 DEF s8
<1> QED
  BY <1>3, <1>4

\* The lengths that fit a signed int.
Signed == {k \in Nat : k \div 65536 < 32768}

LEMMA BigEndianRead ==
  ASSUME NEW k \in Signed
  PROVE  /\ Frames!BigEndian(k, 2) \in Seq(Byte) /\ Len(Frames!BigEndian(k, 2)) = 2
         /\ Frames!BigEndian(k, 8) \in Seq(Byte) /\ Len(Frames!BigEndian(k, 8)) = 8
         /\ k <= 255 => NumberOf(Frames!BigEndian(k, 2), 256) = k
         /\ NumberOf(Frames!BigEndian(k, 8), 256) = k
<1>0. k \in Nat /\ k \div 65536 < 32768
  BY DEF Signed
<1> DEFINE a == (k \div (256 * 65536)) % 256
           b == (k \div 65536) % 256
           c == (k \div 256) % 256
           d == k % 256
<1>1. a \in Byte /\ b \in Byte /\ c \in Byte /\ d \in Byte
  BY <1>0 DEF Byte
<1>2. Frames!BigEndian(k, 2) = <<c, d>>
  <2>1. k \div 1 = k
    BY <1>0
  <2>2. Frames!BigEndian(k, 2) = [i \in 1..2 |-> IF i = 1 THEN c ELSE d]
    BY <2>1 DEF Frames!BigEndian, Frames!Weight
  <2> HIDE DEF c, d
  <2> QED
    BY <2>2
<1>3. Frames!BigEndian(k, 8) = <<0, 0, 0, 0, a, b, c, d>>
  <2>1. k \div 1 = k
    BY <1>0
  <2>2. /\ Len(<<0, 0, 0, 0, a, b, c, d>>) = 8
        /\ \A i \in 1..8 : <<0, 0, 0, 0, a, b, c, d>>[i]
             = IF 8 - i > 3 THEN 0 ELSE (k \div Frames!Weight[8 - i + 1]) % 256
    BY <2>1 DEF Frames!Weight
  <2>3. Frames!BigEndian(k, 8) = [i \in 1..8 |-> <<0, 0, 0, 0, a, b, c, d>>[i]]
    BY <2>2 DEF Frames!BigEndian
  <2> HIDE DEF a, b, c, d
  <2> QED
    BY <2>3
<1>4. k = ((a * 256 + b) * 256 + c) * 256 + d
  BY <1>0
<1>5. k <= 255 => k = c * 256 + d
  BY <1>0
<1> HIDE DEF a, b, c, d
<1>6. 0 \in Byte
  BY DEF Byte
<1>7. /\ <<c, d>> \in Seq(Byte) /\ Len(<<c, d>>) = 2
      /\ <<0, 0, 0, 0, a, b, c, d>> \in Seq(Byte) /\ Len(<<0, 0, 0, 0, a, b, c, d>>) = 8
  BY <1>1, <1>6
<1>8. /\ NumberOf(<<c, d>>, 256) = c * 256 + d
      /\ NumberOf(<<0, 0, 0, 0, a, b, c, d>>, 256) = ((a * 256 + b) * 256 + c) * 256 + d
  BY ONLY <1>1, NumberOfBytes
<1>9. /\ k <= 255 => NumberOf(<<c, d>>, 256) = k
      /\ NumberOf(<<0, 0, 0, 0, a, b, c, d>>, 256) = k
  BY <1>4, <1>5, <1>8, SMTT(60)
<1> QED
  BY <1>2, <1>3, <1>7, <1>9

\* The field is a byte for its form and the bytes of that form.
FieldForm(k, h, t) ==
  \/ h = k /\ k <= 125 /\ Len(t) = 0
  \/ h = 126 /\ Len(t) = 2 /\ NumberOf(t, 256) = k
  \/ h = 127 /\ Len(t) = 8 /\ NumberOf(t, 256) = k

LEMMA FieldRead ==
  ASSUME NEW k \in Signed
  PROVE  \E h \in 0..127, t \in Seq(Byte) :
           Frames!LengthField(k) = <<h>> \o t /\ FieldForm(k, h, t)
<1>0. k \in Nat
  BY DEF Signed
<1>1. CASE k <= 125
  <2>1. Frames!LengthField(k) = <<k>> \o <<>>
    <3>1. <<k>> \in Seq(Nat) /\ <<k>> \o <<>> = <<k>>
      BY <1>0, ConcatEmptySeq
    <3> QED
      BY <1>1, <3>1 DEF Frames!LengthField
  <2>2. k \in 0..127 /\ <<>> \in Seq(Byte) /\ Len(<<>>) = 0
    BY <1>0, <1>1, EmptySeq
  <2>3. FieldForm(k, k, <<>>)
    BY <1>1, <2>2 DEF FieldForm
  <2> QED
    BY <2>1, <2>2, <2>3, ZenonT(60)
<1>2. CASE k > 125 /\ k <= 255
  <2>1. Frames!LengthField(k) = << 126 >> \o Frames!BigEndian(k, 2)
    BY <1>0, <1>2 DEF Frames!LengthField
  <2>2. /\ Frames!BigEndian(k, 2) \in Seq(Byte) /\ Len(Frames!BigEndian(k, 2)) = 2
        /\ NumberOf(Frames!BigEndian(k, 2), 256) = k
    BY <1>2, BigEndianRead
  <2>3. FieldForm(k, 126, Frames!BigEndian(k, 2))
    BY <2>2 DEF FieldForm
  <2>4. 126 \in 0..127
    OBVIOUS
  <2> QED
    BY <2>1, <2>2, <2>3, <2>4
<1>3. CASE k > 255
  <2>1. Frames!LengthField(k) = << 127 >> \o Frames!BigEndian(k, 8)
    BY <1>0, <1>3 DEF Frames!LengthField
  <2>2. /\ Frames!BigEndian(k, 8) \in Seq(Byte) /\ Len(Frames!BigEndian(k, 8)) = 8
        /\ NumberOf(Frames!BigEndian(k, 8), 256) = k
    BY BigEndianRead
  <2>3. FieldForm(k, 127, Frames!BigEndian(k, 8))
    BY <2>2 DEF FieldForm
  <2>4. 127 \in 0..127
    OBVIOUS
  <2> QED
    BY <2>1, <2>2, <2>3, <2>4
<1>4. k <= 125 \/ (k > 125 /\ k <= 255) \/ k > 255
  BY <1>0
<1> QED
  BY <1>1, <1>2, <1>3, <1>4, ZenonT(60)

\* The two fields of the first byte.
LEMMA FlagsRead ==
  ASSUME NEW fin \in {0, 1}, NEW opcode \in Frames!Opcodes
  PROVE  /\ fin * 128 + opcode \in Byte
         /\ (fin * 128 + opcode) \div 128 = fin /\ (fin * 128 + opcode) % 16 = opcode
<1>1. opcode \in 0..15
  BY DEF Frames!Opcodes
<1>2. CASE fin = 0
  BY <1>1, <1>2 DEF Byte
<1>3. CASE fin = 1
  BY <1>1, <1>3 DEF Byte
<1> QED
  BY <1>2, <1>3

\* A frame of either side.
AnyFrame == [fin : {0, 1}, opcode : Frames!Opcodes, mask : {0, 1},
             length : Signed, key : [1..4 -> Byte]]

KeyBytes(f) == IF f.mask = 1 THEN f.key ELSE <<>>

LEMMA KeyBytesTyped ==
  ASSUME NEW f \in AnyFrame
  PROVE  KeyBytes(f) \in Seq(Byte) /\ Len(KeyBytes(f)) = 4 * f.mask
<1>1. f.key \in [1..4 -> Byte] /\ f.mask \in {0, 1}
  BY DEF AnyFrame
<1>2. CASE f.mask = 1
  <2> DEFINE v == f.key
  <2>1. v \in [1..4 -> Byte]
    BY <1>1
  <2> HIDE DEF v
  <2>2. v \in Seq(Byte) /\ Len(v) = 4
    <3>1. v = [i \in 1..4 |-> v[i]] /\ \A i \in 1..4 : v[i] \in Byte
      BY <2>1
    <3>2. 4 \in Nat
      OBVIOUS
    <3> DEFINE w == [i \in 1..4 |-> v[i]]
    <3>3. w \in Seq(Byte) /\ Len(w) = 4
      BY <3>1, <3>2
    <3> QED
      BY <3>1, <3>3
  <2>3. KeyBytes(f) = v
    BY <1>2 DEF KeyBytes, v
  <2> QED
    BY <1>2, <2>2, <2>3
<1>3. CASE f.mask = 0
  BY <1>3, EmptySeq DEF KeyBytes
<1> QED
  BY <1>1, <1>2, <1>3

\* What the parser reads of a frame's header.
ReadBack(f, read) ==
  /\ read.used = Len(Frames!Header(f))
  /\ read.fin = f.fin /\ read.opcode = f.opcode /\ read.mask = f.mask
  /\ read.length = f.length
  /\ f.mask = 1 => read.key = f.key

LEMMA HeaderRead ==
  ASSUME NEW f \in AnyFrame, NEW old
  PROVE  ReadBack(f, Frames!Parse(Frames!Header(f), old))
<1>1. /\ f.fin \in {0, 1} /\ f.opcode \in Frames!Opcodes /\ f.mask \in {0, 1}
      /\ f.length \in Signed
  BY SMTT(60) DEF AnyFrame
<1>2. PICK h \in 0..127, t \in Seq(Byte) :
        Frames!LengthField(f.length) = <<h>> \o t /\ FieldForm(f.length, h, t)
  BY <1>1, FieldRead, ZenonT(60)
<1> DEFINE b1 == f.fin * 128 + f.opcode
           b2 == f.mask * 128 + h
           k == KeyBytes(f)
           s == (<<b1, b2>> \o t) \o k
<1>3. /\ b1 \in Byte /\ b1 \div 128 = f.fin /\ b1 % 16 = f.opcode
      /\ b2 \in Byte /\ b2 \div 128 = f.mask /\ b2 % 128 = h
  <2>1. b1 \in Byte /\ b1 \div 128 = f.fin /\ b1 % 16 = f.opcode
    BY ONLY <1>1, FlagsRead
  <2>2. b2 \in Byte /\ b2 \div 128 = f.mask /\ b2 % 128 = h
    <3> DEFINE mask == f.mask
    <3>1. mask \in {0, 1} /\ h \in 0..127
      BY <1>1, <1>2
    <3>3. b2 = mask * 128 + h
      OBVIOUS
    <3> HIDE DEF mask, b2
    <3>2. /\ mask * 128 + h \in Byte
          /\ (mask * 128 + h) \div 128 = mask /\ (mask * 128 + h) % 128 = h
      BY ONLY <3>1 DEF Byte
    <3> QED
      BY <3>2, <3>3 DEF mask
  <2> QED
    BY <2>1, <2>2
<1>4. Frames!Header(f) = s
  <2>1. Head(<<h>> \o t) = h /\ Tail(<<h>> \o t) = t
    <3>1. h \in Byte
      BY DEF Byte
    <3> QED
      BY <3>1, HeadTailOne
  <2> QED
    BY <1>2, <2>1 DEF Frames!Header, Frames!ConvertFrameToString, KeyBytes
<1>5. k \in Seq(Byte) /\ Len(k) = 4 * f.mask
  BY KeyBytesTyped
<1> DEFINE m == Len(t)
<1>6. m \in {0, 2, 8}
  BY <1>2 DEF FieldForm
<1> HIDE DEF b1, b2, k
<1>7. /\ Len(s) = 2 + m + 4 * f.mask
      /\ s[1] = b1 /\ s[2] = b2
      /\ SubSeq(s, 3, 2 + m) = t
      /\ SubSeq(s, 2 + m + 1, 2 + m + 4 * f.mask) = k
  <2>1. <<b1, b2>> \in Seq(Byte) /\ Len(<<b1, b2>>) = 2
        /\ <<b1, b2>>[1] = b1 /\ <<b1, b2>>[2] = b2
    BY <1>3
  <2>2. /\ Len(s) = Len(<<b1, b2>>) + Len(t) + Len(k)
        /\ \A i \in 1..Len(<<b1, b2>>) : s[i] = <<b1, b2>>[i]
        /\ SubSeq(s, Len(<<b1, b2>>) + 1, Len(<<b1, b2>>) + Len(t)) = t
        /\ SubSeq(s, Len(<<b1, b2>>) + Len(t) + 1, Len(<<b1, b2>>) + Len(t) + Len(k)) = k
    <3> DEFINE u == <<b1, b2>>
    <3>1. u \in Seq(Byte) /\ t \in Seq(Byte) /\ k \in Seq(Byte)
      BY <1>5, <2>1
    <3> HIDE DEF u
    <3>2. LET z == (u \o t) \o k IN
          /\ z \in Seq(Byte) /\ Len(z) = Len(u) + Len(t) + Len(k)
          /\ \A i \in 1..Len(u) : z[i] = u[i]
          /\ SubSeq(z, Len(u) + 1, Len(u) + Len(t)) = t
          /\ SubSeq(z, Len(u) + Len(t) + 1, Len(u) + Len(t) + Len(k)) = k
      BY ONLY <3>1, ThreeParts
    <3> QED
      BY <3>2 DEF u
  <2>3. 2 + 1 = 3 /\ 1 \in 1..2 /\ 2 \in 1..2
    OBVIOUS
  <2> HIDE DEF s
  <2> QED
    BY <1>5, <2>1, <2>2, <2>3
<1> HIDE DEF s
<1> DEFINE ext == CASE h = 127 -> 8 [] h = 126 -> 2 [] OTHER -> 0
           read == Frames!Parse(s, old)
<1>8. ext = m /\ (ext = 0 => h = f.length) /\ (ext # 0 => NumberOf(t, 256) = f.length)
  BY <1>1, <1>2 DEF FieldForm, Signed
<1>9. /\ read.fin = s[1] \div 128 /\ read.opcode = s[1] % 16 /\ read.mask = s[2] \div 128
      /\ s[2] % 128 = h =>
           /\ read.length = IF ext = 0 THEN h ELSE Frames!Number(SubSeq(s, 3, 2 + ext))
           /\ read.key = IF s[2] \div 128 = 1 THEN SubSeq(s, 3 + ext, 6 + ext) ELSE old
           /\ read.used = 2 + ext + 4 * (s[2] \div 128)
  BY DEF Frames!Parse
<1> HIDE DEF ext, read
<1>10. \A d : Frames!Number(d) = NumberOf(d, 256)
  BY DEF Frames!Number, Frames!NumberOf, NumberOf
<1>11. read.fin = f.fin /\ read.opcode = f.opcode /\ read.mask = f.mask
  BY <1>3, <1>7, <1>9
<1>12. read.length = f.length
  <2>1. read.length = IF ext = 0 THEN h ELSE Frames!Number(SubSeq(s, 3, 2 + ext))
    BY <1>3, <1>7, <1>9
  <2> QED
    BY <1>7, <1>8, <1>10, <2>1
<1>13. read.used = Len(s)
  BY <1>3, <1>7, <1>8, <1>9
<1>14. ASSUME f.mask = 1 PROVE read.key = f.key
  <2>1. read.key = SubSeq(s, 3 + ext, 6 + ext)
    BY <1>3, <1>7, <1>9, <1>14
  <2>2. 3 + m = 2 + m + 1 /\ 6 + m = 2 + m + 4 * 1
    BY <1>6
  <2>3. k = f.key
    BY <1>14 DEF KeyBytes, k
  <2> QED
    BY <1>7, <1>8, <1>14, <2>1, <2>2, <2>3
<1> QED
  BY <1>4, <1>11, <1>12, <1>13, <1>14 DEF ReadBack, read

FrameTyped == frame \in AnyFrame

LEMMA ServerOrClient ==
  /\ Frames!ServerFrame \subseteq AnyFrame
  /\ Frames!ClientFrame \subseteq AnyFrame
  /\ \A f \in Frames!ClientFrame : f.mask = 1
<1>1. Lengths \subseteq Signed /\ Keys \subseteq [1..4 -> Byte]
  BY FramesAssumption DEF Byte, Signed
<1>2. <<0, 0, 0, 0>> \in [1..4 -> Byte]
  BY DEF Byte
<1> QED
  BY <1>1, <1>2 DEF Frames!ServerFrame, Frames!ClientFrame, AnyFrame, Frames!NoKey,
     Frames!Opcodes

LEMMA FrameInits ==
  ASSUME Init
  PROVE  FrameTyped
<1>1. frame = [fin |-> 1, opcode |-> 1, mask |-> 0, length |-> 0, key |-> <<0, 0, 0, 0>>]
  BY DEF Init, Frames!Init, Frames!NoKey
<1>2. <<0, 0, 0, 0>> \in [1..4 -> Byte]
  BY DEF Byte
<1> QED
  BY <1>1, <1>2 DEF FrameTyped, AnyFrame, Frames!Opcodes, Signed

LEMMA FrameSteps ==
  ASSUME FrameTyped, [Next]_vars
  PROVE  FrameTyped'
<1>1. frame' = frame \/ Frames!Read
  BY DEF Next, vars, FramesRest, framing
<1>2. CASE Frames!Read
  BY <1>2, ServerOrClient DEF Frames!Read, FrameTyped
<1> QED
  BY <1>1, <1>2 DEF FrameTyped

LEMMA FrameTypedSays ==
  ASSUME FrameTyped
  PROVE  FramesRead
<1> DEFINE read == Frames!Parse(Frames!Header(frame), before)
<1>1. ReadBack(frame, read)
  BY HeaderRead DEF FrameTyped
<1> HIDE DEF read
<1>2. /\ read.used = Len(Frames!Header(frame))
      /\ \A field \in {"fin", "opcode", "mask", "length"} : read[field] = frame[field]
      /\ frame.mask = 1 => read.key = frame.key
  BY <1>1 DEF ReadBack
<1>3. ASSUME frame \in Frames!ClientFrame, frame.length # 0
      PROVE  Frames!HandleFrameBody(read)
               = IF frame.key = Frames!NoKey THEN "Missing mask." ELSE "unmasked"
  <2>1. read.key = frame.key /\ read.length # 0
    BY <1>1, <1>3, ServerOrClient DEF ReadBack
  <2> QED
    BY <2>1 DEF Frames!HandleFrameBody
<1> QED
  BY <1>2, <1>3 DEF FramesRead, Frames!HeaderReadBack, Frames!ClientUnmasked, read

\* Whatever the lengths and keys, up to 2^31 bytes, the parser reads every header
\* as the codec has written it, to its last byte and no further, and a client's
\* body is unmasked with its own key, whatever key the frame before has left
\* (ConvertFrameToString, WebsocketParser::Parse, HandleFrameBody).
THEOREM HeadersRead == Spec => []FramesRead
<1>1. Init => FrameTyped
  BY FrameInits
<1>2. FrameTyped /\ [Next]_vars => FrameTyped'
  BY FrameSteps
<1>3. FrameTyped => FramesRead
  BY FrameTypedSays
<1> QED
  BY <1>1, <1>2, <1>3, PTL DEF Spec

-----------------------------------------------------------------------------
(* Packets and attachments on the wire.                                    *)

Pkt == [n : Nat, shape : Shapes]
Datum == [n : Nat, i : Nat]
Attachment == [header : {FALSE}, data : Datum]
Piece == [header : {TRUE}, packet : Pkt] \cup Attachment

LEMMA PktShape ==
  ASSUME NEW p \in Pkt
  PROVE  /\ p.n \in Nat /\ p.shape \in Shapes /\ p.shape \in Seq({"blob", "buffer"})
         /\ Len(p.shape) \in Nat /\ DOMAIN p.shape = 1..Len(p.shape)
         /\ p.shape = <<>> <=> Len(p.shape) = 0
<1>1. p.n \in Nat /\ p.shape \in Shapes
  BY DEF Pkt
<1>2. p.shape \in Seq({"blob", "buffer"})
  BY <1>1, ShapesAssumption
<1> QED
  BY <1>1, <1>2, LenProperties, EmptySeq

\* The frame of a packet; that of its i-th argument; those from the k-th on.
Lead(p) == [header |-> TRUE, packet |-> p]
Attached(p, i) == [header |-> FALSE, data |-> Binary!Data(p.n, i)]
From(p, k) == [i \in 1..Len(p.shape) - k + 1 |-> Attached(p, k + i - 1)]

LEMMA PieceTyped ==
  ASSUME NEW p \in Pkt, NEW i \in Nat
  PROVE  Lead(p) \in Piece /\ Attached(p, i) \in Attachment /\ Attached(p, i) \in Piece
BY DEF Lead, Attached, Piece, Attachment, Pkt, Datum, Binary!Data

LEMMA FromTyped ==
  ASSUME NEW p \in Pkt, NEW k \in 1..Len(p.shape) + 1
  PROVE  /\ From(p, k) \in Seq(Attachment) /\ From(p, k) \in Seq(Piece)
         /\ Len(From(p, k)) = Len(p.shape) - k + 1
<1> DEFINE n == Len(p.shape) - k + 1
<1>1. n \in Nat /\ k \in Nat
  BY PktShape
<1>2. \A i \in 1..n : Attached(p, k + i - 1) \in Attachment
  <2>1. \A i \in 1..n : k + i - 1 \in Nat
    BY <1>1
  <2> QED
    BY <2>1, PieceTyped
<1> DEFINE s == [i \in 1..n |-> Attached(p, k + i - 1)]
<1>3. s \in Seq(Attachment) /\ Len(s) = n
  <2> HIDE DEF n
  <2> QED
    BY <1>1, <1>2
<1>4. From(p, k) = s
  BY DEF From
<1> HIDE DEF s
<1>5. Attachment \subseteq Piece
  BY DEF Piece
<1>6. s \in Seq(Piece)
  BY <1>3, <1>5, SeqMonotonic
<1> QED
  BY <1>3, <1>4, <1>6

LEMMA FromEnd ==
  ASSUME NEW p \in Pkt
  PROVE  From(p, Len(p.shape) + 1) = <<>>
<1>1. Len(p.shape) \in Nat
  BY PktShape
<1>2. /\ From(p, Len(p.shape) + 1) \in Seq(Piece)
      /\ Len(From(p, Len(p.shape) + 1)) = Len(p.shape) - (Len(p.shape) + 1) + 1
  <2>1. Len(p.shape) + 1 \in 1..Len(p.shape) + 1
    BY <1>1
  <2> QED
    BY <2>1, FromTyped
<1> QED
  BY <1>1, <1>2, EmptySeq

LEMMA FromNext ==
  ASSUME NEW p \in Pkt, NEW k \in 1..Len(p.shape)
  PROVE  From(p, k) = <<Attached(p, k)>> \o From(p, k + 1)
<1> DEFINE l == Len(p.shape)
           a == <<Attached(p, k)>>
           b == From(p, k + 1)
           s == From(p, k)
<1>1. l \in Nat /\ k \in 1..l + 1 /\ k + 1 \in 1..l + 1 /\ k \in Nat
  BY PktShape
<1>2. s \in Seq(Piece) /\ Len(s) = l - k + 1
  BY <1>1, FromTyped
<1>3. b \in Seq(Piece) /\ Len(b) = l - (k + 1) + 1
  BY <1>1, FromTyped
<1>4. a \in Seq(Piece) /\ Len(a) = 1 /\ a[1] = Attached(p, k)
  BY <1>1, PieceTyped
<1>5. \A i \in 1..l - k + 1 : s[i] = Attached(p, k + i - 1)
  BY DEF From
<1>6. \A i \in 1..l - (k + 1) + 1 : b[i] = Attached(p, (k + 1) + i - 1)
  BY DEF From
<1> HIDE DEF a, b, s, l
<1>7. /\ a \o b \in Seq(Piece) /\ Len(a \o b) = Len(a) + Len(b)
      /\ \A i \in 1..Len(a) + Len(b) : (a \o b)[i] = IF i <= Len(a) THEN a[i] ELSE b[i - Len(a)]
  BY <1>3, <1>4, ConcatProperties
<1>8. Len(a \o b) = Len(s)
  BY <1>1, <1>2, <1>3, <1>4, <1>7
<1>9. ASSUME NEW i \in 1..Len(s) PROVE s[i] = (a \o b)[i]
  <2>1. i \in 1..l - k + 1 /\ i \in 1..Len(a) + Len(b)
    BY <1>1, <1>2, <1>3, <1>4, <1>9
  <2>2. CASE i = 1
    <3>1. (a \o b)[i] = a[1] /\ k + i - 1 = k
      BY <1>1, <1>4, <1>7, <2>1, <2>2
    <3> QED
      BY <1>4, <1>5, <2>1, <3>1
  <2>3. CASE i # 1
    <3>1. i - 1 \in 1..l - (k + 1) + 1 /\ ~(i <= 1) /\ (k + 1) + (i - 1) - 1 = k + i - 1
      BY <1>1, <2>1, <2>3
    <3>2. (a \o b)[i] = b[i - 1]
      BY <1>4, <1>7, <2>1, <3>1
    <3>3. b[i - 1] = Attached(p, (k + 1) + (i - 1) - 1)
      BY <1>6, <3>1
    <3> QED
      BY <1>5, <2>1, <3>1, <3>2, <3>3
  <2> QED
    BY <2>2, <2>3
<1>10. s = a \o b
  BY <1>2, <1>7, <1>8, <1>9, SeqEqual
<1> QED
  BY <1>10 DEF a, b, s

LEMMA EncodedIs ==
  ASSUME NEW p \in Pkt
  PROVE  /\ Binary!Encoded(p) = <<Lead(p)>> \o From(p, 1)
         /\ Binary!Encoded(p) \in Seq(Piece)
<1>1. Len(p.shape) \in Nat /\ DOMAIN p.shape = 1..Len(p.shape)
  BY PktShape
<1>2. From(p, 1) = [i \in 1..Len(p.shape) |-> Attached(p, i)]
  <2>1. Len(p.shape) - 1 + 1 = Len(p.shape) /\ \A i \in 1..Len(p.shape) : 1 + i - 1 = i
    BY <1>1
  <2> QED
    BY <2>1 DEF From
<1>3. Binary!Encoded(p) = <<Lead(p)>> \o From(p, 1)
  BY <1>1, <1>2 DEF Binary!Encoded, Lead, Attached
<1>4. From(p, 1) \in Seq(Piece)
  <2>1. 1 \in 1..Len(p.shape) + 1
    BY <1>1
  <2> QED
    BY <2>1, FromTyped
<1>5. <<Lead(p)>> \in Seq(Piece)
  <2>1. 1 \in Nat
    OBVIOUS
  <2>2. Lead(p) \in Piece
    BY <2>1, PieceTyped
  <2> QED
    BY <2>2
<1> QED
  BY <1>3, <1>4, <1>5, ConcatProperties

\* The frames of some packets.
Flat(q) == Strung([i \in DOMAIN q |-> Binary!Encoded(q[i])])

LEMMA EncodedEach ==
  ASSUME NEW q \in Seq(Pkt)
  PROVE  [i \in DOMAIN q |-> Binary!Encoded(q[i])] \in Seq(Seq(Piece))
<1>1. Len(q) \in Nat /\ DOMAIN q = 1..Len(q) /\ \A i \in 1..Len(q) : q[i] \in Pkt
  BY LenProperties, ElementOfSeq
<1>2. \A i \in 1..Len(q) : Binary!Encoded(q[i]) \in Seq(Piece)
  BY <1>1, EncodedIs
<1> DEFINE s == [i \in 1..Len(q) |-> Binary!Encoded(q[i])]
           R == Seq(Piece)
<1>3. s \in Seq(R)
  <2> HIDE DEF R
  <2>1. \A i \in 1..Len(q) : Binary!Encoded(q[i]) \in R
    BY <1>2 DEF R
  <2> QED
    BY <1>1, <2>1
<1> QED
  BY <1>1, <1>3

LEMMA FlatTyped ==
  ASSUME NEW q \in Seq(Pkt)
  PROVE  Flat(q) \in Seq(Piece)
BY EncodedEach, FlattenTyped DEF Flat

LEMMA FlatEmpty == Flat(<<>>) = <<>>
<1>1. [i \in DOMAIN <<>> |-> Binary!Encoded(<<>>[i])] = <<>>
  OBVIOUS
<1> QED
  BY <1>1, FlattenEmpty DEF Flat

LEMMA FlatAppend ==
  ASSUME NEW q \in Seq(Pkt), NEW p \in Pkt
  PROVE  Flat(Append(q, p)) = Flat(q) \o Binary!Encoded(p)
<1> DEFINE Each(r) == [i \in DOMAIN r |-> Binary!Encoded(r[i])]
           t == Append(q, p)
           e == Binary!Encoded(p)
           n == Len(q)
<1>1. /\ n \in Nat /\ DOMAIN q = 1..n /\ t \in Seq(Pkt) /\ Len(t) = n + 1
      /\ DOMAIN t = 1..n + 1 /\ t[n + 1] = p /\ \A i \in 1..n : t[i] = q[i]
  BY LenProperties, AppendProperties
<1>2. Each(q) \in Seq(Seq(Piece)) /\ e \in Seq(Piece) /\ Each(t) \in Seq(Seq(Piece))
  BY <1>1, EncodedEach, EncodedIs
<1>3. /\ Len(Each(q)) = n /\ \A i \in 1..n : Each(q)[i] = Binary!Encoded(q[i])
      /\ Len(Each(t)) = n + 1 /\ \A i \in 1..n + 1 : Each(t)[i] = Binary!Encoded(t[i])
  BY <1>1
<1> HIDE DEF Each, t
<1>4. Each(t) = Append(Each(q), e)
  <2> DEFINE R == Seq(Piece)
             u == Append(Each(q), e)
             v == Each(t)
  <2>1. Each(q) \in Seq(R) /\ e \in R /\ v \in Seq(R)
    BY <1>2
  <2> HIDE DEF R, e
  <2>2. /\ u \in Seq(R) /\ Len(u) = n + 1 /\ u[n + 1] = e
        /\ \A i \in 1..n : u[i] = Each(q)[i]
    BY <1>3, <2>1, AppendProperties
  <2> HIDE DEF u
  <2>3. \A i \in 1..n + 1 : v[i] = u[i]
    <3> SUFFICES ASSUME NEW i \in 1..n + 1 PROVE v[i] = u[i]
      OBVIOUS
    <3>1. CASE i = n + 1
      BY <1>1, <1>3, <2>2, <3>1 DEF e
    <3>2. CASE i # n + 1
      <4>1. i \in 1..n
        BY <1>1, <3>2
      <4> QED
        BY <1>1, <1>3, <2>2, <4>1
    <3> QED
      BY <3>1, <3>2
  <2>4. Len(v) = Len(u) /\ \A i \in 1..Len(v) : v[i] = u[i]
    BY <1>3, <2>2, <2>3
  <2> HIDE DEF v
  <2>5. v = u
    BY ONLY <2>1, <2>2, <2>4, SeqEqual
  <2> QED
    BY <2>5 DEF u, v
<1> HIDE DEF e
<1>5. Strung(Append(Each(q), e)) = Strung(Each(q)) \o e
  BY ONLY <1>2, FlattenAppend
<1>6. Strung(Each(t)) = Strung(Each(q)) \o e
  BY <1>4, <1>5
<1> QED
  BY <1>6 DEF Flat, Each, t, e

LEMMA FlatConcat ==
  ASSUME NEW a \in Seq(Pkt), NEW b \in Seq(Pkt)
  PROVE  Flat(a \o b) = Flat(a) \o Flat(b)
<1> DEFINE T == {s \in Seq(Pkt) : Flat(a \o s) = Flat(a) \o Flat(s)}
<1>1. <<>> \in T
  <2>1. a \o <<>> = a /\ Flat(a) \o <<>> = Flat(a) /\ <<>> \in Seq(Pkt)
    BY FlatTyped, ConcatEmptySeq, EmptySeq
  <2> QED
    BY <2>1, FlatEmpty
<1>2. ASSUME NEW s \in T, NEW e \in Pkt PROVE Append(s, e) \in T
  <2> DEFINE x == Flat(a)
             y == Flat(s)
             z == Binary!Encoded(e)
  <2>1. /\ s \in Seq(Pkt) /\ a \o s \in Seq(Pkt) /\ Append(s, e) \in Seq(Pkt)
        /\ Flat(a \o s) = x \o y
    BY ConcatProperties, AppendProperties
  <2>2. x \in Seq(Piece) /\ y \in Seq(Piece) /\ z \in Seq(Piece)
    BY <2>1, FlatTyped, EncodedIs
  <2>3. a \o Append(s, e) = Append(a \o s, e)
    BY <2>1, ConcatAppend
  <2>4. Flat(Append(a \o s, e)) = Flat(a \o s) \o z
    BY <2>1, FlatAppend
  <2>5. Flat(Append(s, e)) = y \o z
    BY <2>1, FlatAppend
  <2> HIDE DEF x, y, z
  <2>6. (x \o y) \o z = x \o (y \o z)
    <3>1. Triple(Piece, x, y, z)
      BY <2>2 DEF Triple
    <3> QED
      BY ONLY <3>1, Associate
  <2> QED
    BY <2>1, <2>3, <2>4, <2>5, <2>6 DEF x
<1>3. T = Seq(Pkt)
  <2>1. T \in SUBSET Seq(Pkt)
    OBVIOUS
  <2> HIDE DEF T
  <2> QED
    BY ONLY <1>1, <1>2, <2>1, SequenceInduction
<1> QED
  BY <1>3

LEMMA FlatOne ==
  ASSUME NEW p \in Pkt
  PROVE  Flat(<<p>>) = Binary!Encoded(p)
<1>1. <<>> \in Seq(Pkt) /\ <<p>> = Append(<<>>, p)
  BY EmptySeq
<1>2. Flat(<<p>>) = Flat(<<>>) \o Binary!Encoded(p)
  BY <1>1, FlatAppend
<1>3. <<>> \o Binary!Encoded(p) = Binary!Encoded(p)
  BY EncodedIs, ConcatEmptySeq
<1> QED
  BY <1>2, <1>3, FlatEmpty

-----------------------------------------------------------------------------
(* The packets whose frames are on the wire.                               *)

Found(q, f) == IF f.header THEN Append(q, f.packet) ELSE q

LEMMA FoundTyped ==
  ASSUME NEW q \in Seq(Pkt), NEW f \in Piece
  PROVE  Found(q, f) \in Seq(Pkt)
<1>1. CASE f \in [header : {TRUE}, packet : Pkt]
  BY <1>1, AppendProperties DEF Found
<1>2. CASE f \in Attachment
  BY <1>2 DEF Found, Attachment
<1> QED
  BY <1>1, <1>2 DEF Piece

\* The recursion of Headers.
Finds(F, s) == F = [i \in 0..Len(s) |-> IF i = 0 THEN <<>>
                                        ELSE IF s[i].header THEN Append(F[i - 1], s[i].packet)
                                        ELSE F[i - 1]]

LEMMA HeadersIs ==
  ASSUME NEW s
  PROVE  Binary!Headers(s) = (CHOOSE F : Finds(F, s))[Len(s)]
BY DEF Binary!Headers, Finds

LEMMA FindsFacts ==
  ASSUME NEW s \in Seq(Piece), NEW F, Finds(F, s)
  PROVE  F[0] = <<>> /\ \A i \in 1..Len(s) : F[i] = Found(F[i - 1], s[i])
<1>1. Len(s) \in Nat
  BY LenProperties
<1>2. \A i \in 0..Len(s) : F[i] = IF i = 0 THEN <<>>
                                  ELSE IF s[i].header THEN Append(F[i - 1], s[i].packet)
                                  ELSE F[i - 1]
  BY DEF Finds
<1>3. 0 \in 0..Len(s) /\ \A i \in 1..Len(s) : i \in 0..Len(s) /\ i # 0
  BY <1>1
<1>4. F[0] = <<>>
  BY <1>2, <1>3
<1>5. \A i \in 1..Len(s) : F[i] = IF s[i].header THEN Append(F[i - 1], s[i].packet)
                                  ELSE F[i - 1]
  BY ONLY <1>2, <1>3
<1> QED
  BY <1>4, <1>5 DEF Found

LEMMA FindsExist ==
  ASSUME NEW s \in Seq(Piece)
  PROVE  \E F : Finds(F, s)
<1> DEFINE n == Len(s)
           V == Seq(Pkt)
           b == <<>>
           st == [k \in 1..n |-> [v \in V |-> Found(v, s[k])]]
<1>1. n \in Nat /\ \A k \in 1..n : s[k] \in Piece
  BY LenProperties, ElementOfSeq
<1>2. st \in [1..n -> [V -> V]]
  BY <1>1, FoundTyped
<1>3. \A k \in 1..n, v \in V : st[k][v] = Found(v, s[k])
  OBVIOUS
<1>0. b \in V
  BY EmptySeq
<1> HIDE DEF st, n, V, b
<1>4. PICK F : Stages(F, V, b, n, st)
  BY ONLY <1>0, <1>1, <1>2, Recursion
<1>5. /\ F \in [0..n -> V] /\ F[0] = <<>>
      /\ \A k \in 1..n : F[k] = st[k][F[k - 1]]
  BY <1>4 DEF Stages, b
<1>6. \A k \in 1..n : F[k] = Found(F[k - 1], s[k])
  <2> SUFFICES ASSUME NEW k \in 1..n PROVE F[k] = Found(F[k - 1], s[k])
    OBVIOUS
  <2>1. F[k - 1] \in V
    <3>1. k - 1 \in 0..n
      BY <1>1
    <3> QED
      BY <1>5, <3>1
  <2> QED
    BY <1>3, <1>5, <2>1
<1>7. F = [i \in 0..n |-> IF i = 0 THEN <<>>
                          ELSE IF s[i].header THEN Append(F[i - 1], s[i].packet)
                          ELSE F[i - 1]]
  <2>1. F = [i \in 0..n |-> F[i]]
    BY <1>5
  <2>2. \A i \in 0..n : F[i] = IF i = 0 THEN <<>>
                               ELSE IF s[i].header THEN Append(F[i - 1], s[i].packet)
                               ELSE F[i - 1]
    <3>1. \A i \in 0..n : i = 0 \/ i \in 1..n
      BY <1>1
    <3> QED
      BY <1>5, <1>6, <3>1 DEF Found
  <2> QED
    BY ONLY <2>1, <2>2
<1> QED
  BY <1>7 DEF Finds, n

LEMMA HeadersFinds ==
  ASSUME NEW s \in Seq(Piece)
  PROVE  \E F : /\ F[0] = <<>> /\ \A i \in 1..Len(s) : F[i] = Found(F[i - 1], s[i])
                /\ Binary!Headers(s) = F[Len(s)]
<1> DEFINE G == CHOOSE F : Finds(F, s)
<1>1. Finds(G, s)
  BY FindsExist
<1>2. Binary!Headers(s) = G[Len(s)]
  BY HeadersIs
<1> HIDE DEF G
<1> QED
  BY <1>1, <1>2, FindsFacts

LEMMA HeadersEmpty == Binary!Headers(<<>>) = <<>>
<1>1. <<>> \in Seq(Piece) /\ Len(<<>>) = 0
  BY EmptySeq
<1> QED
  BY <1>1, HeadersFinds

LEMMA HeadersAppend ==
  ASSUME NEW s \in Seq(Piece), NEW f \in Piece
  PROVE  Binary!Headers(Append(s, f)) = Found(Binary!Headers(s), f)
<1> DEFINE n == Len(s)
           t == Append(s, f)
<1>1. /\ n \in Nat /\ t \in Seq(Piece) /\ Len(t) = n + 1 /\ t[n + 1] = f
      /\ \A i \in 1..n : t[i] = s[i]
  BY LenProperties, AppendProperties
<1> HIDE DEF t
<1>2. PICK F : /\ F[0] = <<>> /\ \A i \in 1..n : F[i] = Found(F[i - 1], s[i])
               /\ Binary!Headers(s) = F[n]
  BY HeadersFinds
<1>3. PICK G : /\ G[0] = <<>> /\ \A i \in 1..n + 1 : G[i] = Found(G[i - 1], t[i])
               /\ Binary!Headers(t) = G[n + 1]
  BY <1>1, HeadersFinds
<1> HIDE DEF n
<1>4. Alike(G, F, n)
  <2>1. \A i \in 1..n : i \in 1..n + 1
    BY <1>1
  <2>2. \A k \in 1..n : G[k - 1] = F[k - 1] => G[k] = F[k]
    BY <1>1, <1>2, <1>3, <2>1
  <2> QED
    BY <1>2, <1>3, <2>2 DEF Alike
<1>5. G[n] = F[n]
  <2>1. n \in Nat
    BY <1>1
  <2>2. \A k \in 0..n : G[k] = F[k]
    BY ONLY <1>4, <2>1, SameStages
  <2>3. n \in 0..n
    BY <1>1
  <2> QED
    BY <2>2, <2>3
<1>6. n + 1 \in 1..n + 1 /\ (n + 1) - 1 = n
  BY <1>1
<1>7. G[n + 1] = Found(G[n], f)
  BY <1>1, <1>3, <1>6
<1> QED
  BY <1>2, <1>3, <1>5, <1>7 DEF t

LEMMA HeadersTyped ==
  ASSUME NEW s \in Seq(Piece)
  PROVE  Binary!Headers(s) \in Seq(Pkt)
<1> DEFINE T == {x \in Seq(Piece) : Binary!Headers(x) \in Seq(Pkt)}
<1>1. <<>> \in T
  BY HeadersEmpty, EmptySeq
<1>2. ASSUME NEW x \in T, NEW f \in Piece PROVE Append(x, f) \in T
  BY HeadersAppend, FoundTyped, AppendProperties
<1>3. T = Seq(Piece)
  <2>1. T \in SUBSET Seq(Piece)
    OBVIOUS
  <2> HIDE DEF T
  <2> QED
    BY ONLY <1>1, <1>2, <2>1, SequenceInduction
<1> QED
  BY <1>3

LEMMA HeadersConcat ==
  ASSUME NEW a \in Seq(Piece), NEW b \in Seq(Piece)
  PROVE  Binary!Headers(a \o b) = Binary!Headers(a) \o Binary!Headers(b)
<1> DEFINE H(s) == Binary!Headers(s)
           T == {s \in Seq(Piece) : H(a \o s) = H(a) \o H(s)}
<1>1. <<>> \in T
  <2>1. a \o <<>> = a /\ H(a) \o <<>> = H(a) /\ <<>> \in Seq(Piece)
    BY HeadersTyped, ConcatEmptySeq, EmptySeq
  <2> QED
    BY <2>1, HeadersEmpty
<1>2. ASSUME NEW s \in T, NEW e \in Piece PROVE Append(s, e) \in T
  <2>1. /\ s \in Seq(Piece) /\ a \o s \in Seq(Piece) /\ Append(s, e) \in Seq(Piece)
        /\ H(a \o s) = H(a) \o H(s)
    BY ConcatProperties, AppendProperties
  <2>2. H(a) \in Seq(Pkt) /\ H(s) \in Seq(Pkt)
    BY <2>1, HeadersTyped
  <2>3. a \o Append(s, e) = Append(a \o s, e)
    BY <2>1, ConcatAppend
  <2>4. H(Append(a \o s, e)) = Found(H(a \o s), e) /\ H(Append(s, e)) = Found(H(s), e)
    BY <2>1, HeadersAppend
  <2> HIDE DEF H
  <2>5. Found(H(a) \o H(s), e) = H(a) \o Found(H(s), e)
    <3>1. CASE e \in [header : {TRUE}, packet : Pkt]
      <4>1. H(a) \o Append(H(s), e.packet) = Append(H(a) \o H(s), e.packet)
        BY <2>2, <3>1, ConcatAppend
      <4> QED
        BY <3>1, <4>1 DEF Found
    <3>2. CASE e \in Attachment
      BY <3>2 DEF Found, Attachment
    <3> QED
      BY <3>1, <3>2 DEF Piece
  <2> QED
    BY <2>1, <2>3, <2>4, <2>5
<1>3. T = Seq(Piece)
  <2>1. T \in SUBSET Seq(Piece)
    OBVIOUS
  <2> HIDE DEF T
  <2> QED
    BY ONLY <1>1, <1>2, <2>1, SequenceInduction
<1> QED
  BY <1>3

\* There are none among attachments.
LEMMA HeadersNone ==
  ASSUME NEW s \in Seq(Attachment)
  PROVE  Binary!Headers(s) = <<>>
<1> DEFINE T == {x \in Seq(Attachment) : Binary!Headers(x) = <<>>}
<1>0. Attachment \subseteq Piece
  BY DEF Piece
<1>1. <<>> \in T
  BY HeadersEmpty, EmptySeq
<1>2. ASSUME NEW x \in T, NEW f \in Attachment PROVE Append(x, f) \in T
  <2>1. x \in Seq(Piece) /\ f \in Piece /\ Append(x, f) \in Seq(Attachment)
    BY <1>0, SeqMonotonic, AppendProperties
  <2>2. Binary!Headers(Append(x, f)) = Found(<<>>, f)
    BY <2>1, HeadersAppend
  <2> QED
    BY <2>1, <2>2 DEF Found, Attachment
<1>3. T = Seq(Attachment)
  <2>1. T \in SUBSET Seq(Attachment)
    OBVIOUS
  <2> HIDE DEF T
  <2> QED
    BY ONLY <1>1, <1>2, <2>1, SequenceInduction
<1> QED
  BY <1>3

LEMMA HeadersLead ==
  ASSUME NEW p \in Pkt
  PROVE  Binary!Headers(<<Lead(p)>>) = <<p>>
<1>1. <<>> \in Seq(Piece) /\ Lead(p) \in Piece /\ <<Lead(p)>> = Append(<<>>, Lead(p))
  <2>1. 1 \in Nat
    OBVIOUS
  <2> QED
    BY <2>1, PieceTyped, EmptySeq
<1>2. Binary!Headers(<<Lead(p)>>) = Found(<<>>, Lead(p))
  BY <1>1, HeadersAppend, HeadersEmpty
<1> QED
  BY <1>2 DEF Found, Lead

LEMMA HeadersEncoded ==
  ASSUME NEW p \in Pkt
  PROVE  Binary!Headers(Binary!Encoded(p)) = <<p>>
<1> DEFINE a == <<Lead(p)>>
           b == From(p, 1)
<1>1. 1 \in 1..Len(p.shape) + 1
  BY PktShape
<1>2. a \in Seq(Piece) /\ b \in Seq(Piece) /\ b \in Seq(Attachment)
  BY <1>1, FromTyped, PieceTyped
<1>3. Binary!Headers(a) = <<p>> /\ Binary!Headers(b) = <<>>
  BY <1>2, HeadersLead, HeadersNone
<1>4. Binary!Encoded(p) = a \o b
  BY EncodedIs
<1> HIDE DEF a, b
<1>5. Binary!Headers(a \o b) = <<p>> \o <<>>
  BY <1>2, <1>3, HeadersConcat
<1>6. <<p>> \o <<>> = <<p>>
  <2>1. <<p>> \in Seq(Pkt)
    OBVIOUS
  <2> QED
    BY <2>1, ConcatEmptySeq
<1> QED
  BY <1>4, <1>5, <1>6

LEMMA HeadersFlat ==
  ASSUME NEW q \in Seq(Pkt)
  PROVE  Binary!Headers(Flat(q)) = q
<1> DEFINE T == {x \in Seq(Pkt) : Binary!Headers(Flat(x)) = x}
<1>1. <<>> \in T
  BY HeadersEmpty, FlatEmpty, EmptySeq
<1>2. ASSUME NEW x \in T, NEW p \in Pkt PROVE Append(x, p) \in T
  <2> DEFINE a == Flat(x)
             b == Binary!Encoded(p)
  <2>1. /\ x \in Seq(Pkt) /\ Append(x, p) \in Seq(Pkt) /\ Binary!Headers(a) = x
        /\ Append(x, p) = x \o <<p>>
    BY AppendProperties, AppendIsConcat
  <2>2. a \in Seq(Piece) /\ b \in Seq(Piece)
    BY <2>1, FlatTyped, EncodedIs
  <2>3. Binary!Headers(b) = <<p>> /\ Flat(Append(x, p)) = a \o b
    BY <2>1, HeadersEncoded, FlatAppend
  <2> HIDE DEF a, b
  <2>4. Binary!Headers(a \o b) = x \o <<p>>
    BY <2>1, <2>2, <2>3, HeadersConcat
  <2> QED
    BY <2>1, <2>3, <2>4
<1>3. T = Seq(Pkt)
  <2>1. T \in SUBSET Seq(Pkt)
    OBVIOUS
  <2> HIDE DEF T
  <2> QED
    BY ONLY <1>1, <1>2, <2>1, SequenceInduction
<1> QED
  BY <1>3

-----------------------------------------------------------------------------
(* Numbers of packets.                                                     *)

\* What is put together of a packet, with its first k arguments; when it is right.
Args(p, k) == [i \in 1..k |-> Binary!Data(p.n, i)]
Right(p) == Binary!Whole(p, Args(p, Len(p.shape)))
Rights == {Right(p) : p \in Pkt}

NumberOfPkt == [p \in Pkt |-> p.n]
NumberOfRight == [d \in Rights |-> d.packet.n]
Numbers(q) == Image(NumberOfPkt, q)
Done(ds) == Image(NumberOfRight, ds)

LEMMA RightPacket ==
  ASSUME NEW p \in Pkt
  PROVE  Right(p) \in Rights /\ Right(p).packet = p /\ Right(p).args = Args(p, Len(p.shape))
BY DEF Right, Rights, Binary!Whole

LEMMA NumberTyped ==
  Mapping(NumberOfPkt, Pkt, Nat) /\ Mapping(NumberOfRight, Rights, Nat)
<1>1. \A p \in Pkt : p.n \in Nat
  BY DEF Pkt
<1>2. \A d \in Rights : d.packet \in Pkt
  BY RightPacket DEF Rights
<1> QED
  BY <1>1, <1>2 DEF NumberOfPkt, NumberOfRight, Mapping

LEMMA NumbersFacts ==
  /\ \A q \in Seq(Pkt) : Numbers(q) \in Seq(Nat) /\ Numbers(q) = [i \in DOMAIN q |-> q[i].n]
  /\ Numbers(<<>>) = <<>>
  /\ \A p \in Pkt : Numbers(<<p>>) = <<p.n>>
  /\ \A a, b \in Seq(Pkt) : Numbers(a \o b) = Numbers(a) \o Numbers(b)
<1>1. ASSUME NEW q \in Seq(Pkt)
      PROVE  Numbers(q) \in Seq(Nat) /\ Numbers(q) = [i \in DOMAIN q |-> q[i].n]
  <2>1. Numbers(q) \in Seq(Nat)
    BY NumberTyped, ImageTyped DEF Numbers
  <2>2. \A i \in DOMAIN q : q[i] \in Pkt
    BY LenProperties, ElementOfSeq
  <2> QED
    BY <2>1, <2>2 DEF Numbers, Image, NumberOfPkt
<1>2. Numbers(<<>>) = <<>>
  BY ImageEmpty DEF Numbers
<1>3. \A p \in Pkt : Numbers(<<p>>) = <<p.n>>
  BY DEF Numbers, Image, NumberOfPkt
<1>4. ASSUME NEW a \in Seq(Pkt), NEW b \in Seq(Pkt)
      PROVE  Numbers(a \o b) = Numbers(a) \o Numbers(b)
  <2> DEFINE f == NumberOfPkt
  <2>1. Mapping(f, Pkt, Nat) /\ a \in Seq(Pkt) /\ b \in Seq(Pkt)
    BY NumberTyped
  <2> HIDE DEF f
  <2>2. Image(f, a \o b) = Image(f, a) \o Image(f, b)
    BY ONLY <2>1, ImageConcat
  <2> QED
    BY <2>2 DEF Numbers, f
<1> QED
  BY <1>1, <1>2, <1>3, <1>4

LEMMA DoneFacts ==
  /\ \A ds \in Seq(Rights) : Done(ds) \in Seq(Nat) /\ Done(ds) = [i \in DOMAIN ds |-> ds[i].packet.n]
  /\ Done(<<>>) = <<>>
  /\ \A ds \in Seq(Rights), p \in Pkt :
       Append(ds, Right(p)) \in Seq(Rights) /\ Done(Append(ds, Right(p))) = Done(ds) \o <<p.n>>
<1>1. ASSUME NEW ds \in Seq(Rights)
      PROVE  Done(ds) \in Seq(Nat) /\ Done(ds) = [i \in DOMAIN ds |-> ds[i].packet.n]
  <2>1. Done(ds) \in Seq(Nat)
    BY NumberTyped, ImageTyped DEF Done
  <2>2. \A i \in DOMAIN ds : ds[i] \in Rights
    BY LenProperties, ElementOfSeq
  <2> QED
    BY <2>1, <2>2 DEF Done, Image, NumberOfRight
<1>2. Done(<<>>) = <<>>
  BY ImageEmpty DEF Done
<1>3. ASSUME NEW ds \in Seq(Rights), NEW p \in Pkt
      PROVE  /\ Append(ds, Right(p)) \in Seq(Rights)
             /\ Done(Append(ds, Right(p))) = Done(ds) \o <<p.n>>
  <2> DEFINE d == Right(p)
  <2>1. d \in Rights /\ d.packet = p
    BY RightPacket
  <2> HIDE DEF d
  <2>2. <<d>> \in Seq(Rights) /\ Append(ds, d) = ds \o <<d>> /\ Append(ds, d) \in Seq(Rights)
    BY <2>1, AppendIsConcat, AppendProperties
  <2>3. Done(ds \o <<d>>) = Done(ds) \o Done(<<d>>)
    <3> DEFINE f == NumberOfRight
               e == <<d>>
    <3>1. Mapping(f, Rights, Nat) /\ ds \in Seq(Rights) /\ e \in Seq(Rights)
      BY <2>2, NumberTyped
    <3> HIDE DEF f, e
    <3>2. Image(f, ds \o e) = Image(f, ds) \o Image(f, e)
      BY ONLY <3>1, ImageConcat
    <3> QED
      BY <3>2 DEF Done, f, e
  <2>4. Done(<<d>>) = <<p.n>>
    BY <2>1 DEF Done, Image, NumberOfRight
  <2> QED
    BY <2>2, <2>3, <2>4 DEF d
<1> QED
  BY <1>1, <1>2, <1>3

\* The jobs of one connection, and the numbers of their packets.
Current(js, e) == {k \in js : k.engine = e}
Reading(js, e) == Binary!SetToSeq({j.packet.n : j \in Current(js, e)})

LEMMA SetToSeqIs ==
  ASSUME NEW T
  PROVE  Binary!SetToSeq(T) = CHOOSE f \in [1..Cardinality(T) -> T] :
                                \A a, b \in DOMAIN f : f[a] = f[b] => a = b
BY DEF Binary!SetToSeq, Binary!Cardinality, Cardinality, Binary!IsInjective

LEMMA ReadingNone ==
  ASSUME NEW js, NEW e, Current(js, e) = {}
  PROVE  Reading(js, e) = <<>>
<1>1. {j.packet.n : j \in Current(js, e)} = {}
  OBVIOUS
<1>2. Cardinality({}) = 0
  BY FS_EmptySet
<1>3. Binary!SetToSeq({}) \in [1..0 -> {}]
  <2>1. \E f \in [1..0 -> {}] : \A a, b \in DOMAIN f : f[a] = f[b] => a = b
    <3> DEFINE f == [a \in 1..0 |-> a]
    <3>1. f \in [1..0 -> {}] /\ DOMAIN f = {}
      OBVIOUS
    <3> QED
      BY <3>1
  <2>2. Binary!SetToSeq({}) = CHOOSE f \in [1..0 -> {}] :
                                \A a, b \in DOMAIN f : f[a] = f[b] => a = b
    BY <1>2, SetToSeqIs
  <2> QED
    BY <2>1, <2>2
<1> QED
  BY <1>1, <1>3 DEF Reading

LEMMA ReadingOne ==
  ASSUME NEW js, NEW e, NEW j, Current(js, e) = {j}
  PROVE  Reading(js, e) = <<j.packet.n>>
<1> DEFINE x == j.packet.n
           P(f) == \A a, b \in DOMAIN f : f[a] = f[b] => a = b
<1>1. {k.packet.n : k \in Current(js, e)} = {x}
  OBVIOUS
<1> HIDE DEF x
<1>2. Cardinality({x}) = 1
  BY FS_Singleton
<1>3. Binary!SetToSeq({x}) = CHOOSE f \in [1..1 -> {x}] : P(f)
  BY <1>2, SetToSeqIs
<1>4. <<x>> \in [1..1 -> {x}] /\ P(<<x>>)
  OBVIOUS
<1>5. \A f \in [1..1 -> {x}] : f = <<x>>
  OBVIOUS
<1>6. Binary!SetToSeq({x}) \in [1..1 -> {x}]
  <2> HIDE DEF P
  <2> QED
    BY ONLY <1>3, <1>4
<1> QED
  BY <1>1, <1>5, <1>6 DEF Reading, x

\* The numbers from one to another.
Since(first, last) == [i \in 1..last - first + 1 |-> first + i - 1]

LEMMA SinceFacts ==
  ASSUME NEW first \in Nat, NEW last \in Nat, first <= last + 1
  PROVE  /\ Since(first, last) \in Seq(Nat)
         /\ Since(first, last + 1) = Since(first, last) \o <<last + 1>>
         /\ Since(last + 1, last) = <<>>
<1> DEFINE n == last - first + 1
           a == Since(first, last)
           b == Since(first, last + 1)
           c == Append(a, last + 1)
<1>1. n \in Nat /\ (last + 1) - first + 1 = n + 1 /\ last + 1 \in Nat
  OBVIOUS
<1>2. a \in Seq(Nat) /\ Len(a) = n /\ \A i \in 1..n : a[i] = first + i - 1
  <2>1. \A i \in 1..n : first + i - 1 \in Nat
    OBVIOUS
  <2>2. a = [i \in 1..n |-> first + i - 1]
    BY DEF Since
  <2> HIDE DEF n
  <2> QED
    BY <1>1, <2>1, <2>2
<1>3. b \in Seq(Nat) /\ Len(b) = n + 1 /\ \A i \in 1..n + 1 : b[i] = first + i - 1
  <2>1. \A i \in 1..n + 1 : first + i - 1 \in Nat
    OBVIOUS
  <2>2. b = [i \in 1..n + 1 |-> first + i - 1]
    BY <1>1 DEF Since
  <2> HIDE DEF n
  <2> QED
    BY <1>1, <2>1, <2>2
<1>4. first + (n + 1) - 1 = last + 1
  OBVIOUS
<1> HIDE DEF a, b, n
<1>5. /\ c \in Seq(Nat) /\ Len(c) = n + 1 /\ c[n + 1] = last + 1
      /\ \A i \in 1..n : c[i] = a[i]
  BY <1>1, <1>2, AppendProperties
<1> HIDE DEF c
<1>6. \A i \in 1..n + 1 : b[i] = c[i]
  <2> SUFFICES ASSUME NEW i \in 1..n + 1 PROVE b[i] = c[i]
    OBVIOUS
  <2>1. CASE i = n + 1
    BY <1>3, <1>4, <1>5, <2>1
  <2>2. CASE i # n + 1
    <3>1. i \in 1..n
      BY <1>1, <2>2
    <3> QED
      BY <1>2, <1>3, <1>5, <3>1
  <2> QED
    BY <2>1, <2>2
<1>7. b = c
  BY <1>3, <1>5, <1>6, SeqEqual
<1>8. c = a \o <<last + 1>>
  BY <1>1, <1>2, AppendIsConcat DEF c
<1>9. Since(last + 1, last) = <<>>
  <2>1. last - (last + 1) + 1 = 0
    OBVIOUS
  <2> QED
    BY <2>1 DEF Since
<1> QED
  BY <1>2, <1>7, <1>8, <1>9 DEF a, b

-----------------------------------------------------------------------------
(* The invariant of binary events.                                         *)

Managers == [encoding : BOOLEAN, packetBuffer : Seq(Pkt), open : BOOLEAN, engine : Nat]
Job == [packet : Pkt, left : SUBSET Nat, engine : Nat]

BinaryTyped ==
  /\ manager \in Managers
  /\ jobs \subseteq Job /\ \A j \in jobs : j.engine <= manager.engine
  /\ history \in [emitted : Nat, first : Nat, stale : BOOLEAN]
  /\ history.first <= history.emitted + 1

\* The Decoder is between packets, or has the first k arguments of p.
Partial(p, k) == [pack |-> p, buffers |-> Args(p, k)]
HoldsNone(w, r) == r = Binary!NoReconstructor /\ \E q \in Seq(Pkt) : w = Flat(q)
HoldsSome(w, r, p, k) ==
  r = Partial(p, k) /\ \E q \in Seq(Pkt) : w = From(p, k + 1) \o Flat(q)
Holding(w, r) ==
  \/ HoldsNone(w, r)
  \/ \E p \in Pkt : \E k \in 0..Len(p.shape) - 1 : HoldsSome(w, r, p, k)

\* What is put together is right, and nothing is left of a connection that is lost.
Receiving ==
  /\ Holding(wire, reconstructor) /\ decoded \in Seq(Rights)
  /\ ~manager.open => /\ ~manager.encoding /\ manager.packetBuffer = <<>>
                      /\ wire = <<>> /\ reconstructor = Binary!NoReconstructor
                      /\ decoded = <<>>

\* Nothing is queued but behind a packet of this connection.
Queueing ==
  /\ manager.packetBuffer # <<>> => manager.encoding
  /\ manager.encoding => Current(jobs, manager.engine) # {}

\* The packets of this connection, in order; at most one of them is encoded.
Held(r) == IF r = Binary!NoReconstructor THEN <<>> ELSE <<r.pack.n>>
Arrived(ds, r, w) == (Done(ds) \o Held(r)) \o Numbers(Binary!Headers(w))
Way(ds, r, w, js, m) ==
  (Arrived(ds, r, w) \o Reading(js, m.engine)) \o Numbers(m.packetBuffer)
Alone(js, m) ==
  \/ Current(js, m.engine) = {}
  \/ m.encoding /\ \E j \in js : Current(js, m.engine) = {j}
Ordered ==
  manager.open /\ ~history.stale =>
    /\ Alone(jobs, manager)
    /\ Way(decoded, reconstructor, wire, jobs, manager)
         = Since(history.first, history.emitted)

BinaryInv == BinaryTyped /\ Receiving /\ Queueing /\ Ordered

LEMMA HoldingTyped ==
  ASSUME NEW w, NEW r, Holding(w, r)
  PROVE  w \in Seq(Piece) /\ Held(r) \in Seq(Nat)
<1>1. CASE HoldsNone(w, r)
  BY <1>1, FlatTyped, EmptySeq DEF HoldsNone, Held
<1>2. ASSUME NEW p \in Pkt, NEW k \in 0..Len(p.shape) - 1, HoldsSome(w, r, p, k)
      PROVE  w \in Seq(Piece) /\ Held(r) \in Seq(Nat)
  <2>1. PICK q \in Seq(Pkt) : r = Partial(p, k) /\ w = From(p, k + 1) \o Flat(q)
    BY <1>2 DEF HoldsSome
  <2>2. k + 1 \in 1..Len(p.shape) + 1 /\ p.n \in Nat
    BY PktShape
  <2>3. From(p, k + 1) \in Seq(Piece) /\ Flat(q) \in Seq(Piece)
    BY <2>2, FromTyped, FlatTyped
  <2>4. w \in Seq(Piece)
    BY <2>1, <2>3, ConcatProperties
  <2>5. r.pack.n \in Nat
    BY <2>1, <2>2 DEF Partial
  <2>6. Held(r) = <<>> \/ Held(r) = <<r.pack.n>>
    BY DEF Held
  <2> DEFINE x == r.pack.n
  <2>7. x \in Nat /\ (Held(r) = <<>> \/ Held(r) = <<x>>)
    BY <2>5, <2>6
  <2> HIDE DEF x
  <2>8. <<x>> \in Seq(Nat) /\ <<>> \in Seq(Nat)
    BY <2>7, EmptySeq
  <2> QED
    BY <2>4, <2>7, <2>8
<1> QED
  BY <1>1, <1>2 DEF Holding

LEMMA ReadingTyped ==
  ASSUME NEW js \in SUBSET Job, NEW m, Alone(js, m)
  PROVE  Reading(js, m.engine) \in Seq(Nat)
<1>1. CASE Current(js, m.engine) = {}
  BY <1>1, ReadingNone, EmptySeq
<1>2. ASSUME NEW j \in js, Current(js, m.engine) = {j}
      PROVE  Reading(js, m.engine) \in Seq(Nat)
  <2>1. j.packet.n \in Nat
    BY DEF Job, Pkt
  <2> DEFINE x == j.packet.n
  <2>2. x \in Nat /\ Reading(js, m.engine) = <<x>>
    BY <1>2, <2>1, ReadingOne
  <2> HIDE DEF x
  <2> QED
    BY <2>2
<1> QED
  BY <1>1, <1>2 DEF Alone

LEMMA ArrivedTyped ==
  ASSUME NEW ds \in Seq(Rights), NEW r, NEW w, Holding(w, r)
  PROVE  Arrived(ds, r, w) \in Seq(Nat)
<1>1. Done(ds) \in Seq(Nat) /\ Held(r) \in Seq(Nat) /\ w \in Seq(Piece)
  BY DoneFacts, HoldingTyped
<1>2. Numbers(Binary!Headers(w)) \in Seq(Nat)
  BY <1>1, HeadersTyped, NumbersFacts
<1> QED
  BY <1>1, <1>2, ConcatProperties DEF Arrived

LEMMA OnTheirWayIs ==
  ASSUME decoded \in Seq(Rights), manager.packetBuffer \in Seq(Pkt),
         Holding(wire, reconstructor)
  PROVE  Binary!OnTheirWay = Way(decoded, reconstructor, wire, jobs, manager)
<1>1. Binary!Headers(wire) \in Seq(Pkt)
  BY HoldingTyped, HeadersTyped
<1>2. /\ [i \in DOMAIN decoded |-> decoded[i].packet.n] = Done(decoded)
      /\ [i \in DOMAIN Binary!Headers(wire) |-> Binary!Headers(wire)[i].n]
           = Numbers(Binary!Headers(wire))
      /\ [i \in DOMAIN manager.packetBuffer |-> manager.packetBuffer[i].n]
           = Numbers(manager.packetBuffer)
  BY <1>1, DoneFacts, NumbersFacts
<1> QED
  BY <1>2 DEF Binary!OnTheirWay, Way, Arrived, Held, Reading, Current

LEMMA BinaryInvSays ==
  ASSUME BinaryInv
  PROVE  ArgumentsWhole /\ EmittedInOrder
<1>1. ArgumentsWhole
  <2>1. ASSUME NEW k \in DOMAIN decoded
        PROVE  LET p == decoded[k].packet IN
               decoded[k].args = [i \in DOMAIN p.shape |-> Binary!Data(p.n, i)]
    <3>1. decoded[k] \in Rights
      BY LenProperties, ElementOfSeq DEF BinaryInv, Receiving
    <3>2. PICK p \in Pkt : decoded[k] = Right(p)
      BY <3>1 DEF Rights
    <3>3. decoded[k].packet = p /\ decoded[k].args = Args(p, Len(p.shape))
      BY <3>2, RightPacket
    <3>4. DOMAIN p.shape = 1..Len(p.shape)
      BY PktShape
    <3> QED
      BY <3>3, <3>4 DEF Args
  <2> QED
    BY <2>1 DEF ArgumentsWhole, Binary!ArgumentsWhole
<1>2. manager.packetBuffer # <<>> => manager.encoding
  BY DEF BinaryInv, Queueing
<1>3. manager.encoding => \E j \in jobs : j.engine = manager.engine
  BY DEF BinaryInv, Queueing, Current
<1>4. manager.packetBuffer \in Seq(Pkt)
  BY DEF BinaryInv, BinaryTyped, Managers
<1>5. Binary!OnTheirWay = Way(decoded, reconstructor, wire, jobs, manager)
  BY <1>4, OnTheirWayIs DEF BinaryInv, Receiving
<1>6. manager.open /\ ~history.stale =>
        Binary!OnTheirWay = [i \in 1..history.emitted - history.first + 1 |->
                               history.first + i - 1]
  BY <1>5 DEF BinaryInv, Ordered, Since
<1> QED
  BY <1>1, <1>2, <1>3, <1>6 DEF EmittedInOrder, Binary!EmittedInOrder

LEMMA BinaryInits ==
  ASSUME Init
  PROVE  BinaryInv
<1>1. /\ manager = [encoding |-> FALSE, packetBuffer |-> <<>>, open |-> TRUE, engine |-> 1]
      /\ jobs = {} /\ wire = <<>> /\ reconstructor = Binary!NoReconstructor
      /\ decoded = <<>> /\ history = [emitted |-> 0, first |-> 1, stale |-> FALSE]
  BY DEF Init, Binary!Init
<1>2. <<>> \in Seq(Pkt) /\ <<>> \in Seq(Rights) /\ <<>> \in Seq(Nat) /\ <<>> \o <<>> = <<>>
  BY EmptySeq, ConcatEmptySeq
<1>3. BinaryTyped
  BY <1>1, <1>2 DEF BinaryTyped, Managers
<1>4. HoldsNone(wire, reconstructor)
  BY <1>1, <1>2, FlatEmpty DEF HoldsNone
<1>5. Receiving
  BY <1>1, <1>2, <1>4 DEF Receiving, Holding
<1>6. Queueing
  BY <1>1 DEF Queueing
<1>7. Current(jobs, manager.engine) = {}
  BY <1>1 DEF Current
<1>8. Way(decoded, reconstructor, wire, jobs, manager) = <<>>
  <2>1. Reading(jobs, manager.engine) = <<>>
    BY <1>7, ReadingNone
  <2>2. Held(reconstructor) = <<>> /\ Done(decoded) = <<>>
    BY <1>1, DoneFacts DEF Held
  <2>3. Numbers(Binary!Headers(wire)) = <<>> /\ Numbers(manager.packetBuffer) = <<>>
    BY <1>1, HeadersEmpty, NumbersFacts
  <2> QED
    BY <1>2, <2>1, <2>2, <2>3 DEF Way, Arrived
<1>9. Since(1, 0) = <<>>
  BY DEF Since
<1> QED
  BY <1>1, <1>3, <1>5, <1>6, <1>7, <1>8, <1>9 DEF BinaryInv, Ordered, Alone

-----------------------------------------------------------------------------
(* Process: the packets it writes, and the one that stops it.              *)

LEMMA FirstBlob ==
  ASSUME NEW q \in Seq(Pkt)
  PROVE  Binary!SelectInSeq(q, LAMBDA p : Binary!BlobsOf(p) # {}) \in 0..Len(q)
<1> DEFINE T == {i \in 1..Len(q) : Binary!BlobsOf(q[i]) # {}}
           k == Binary!SelectInSeq(q, LAMBDA p : Binary!BlobsOf(p) # {})
<1>1. k = IF T # {} THEN CHOOSE x \in T : \A y \in T : x =< y ELSE 0
  BY DEF Binary!SelectInSeq, Binary!Passing, Binary!Min
<1>2. Len(q) \in Nat
  BY LenProperties
<1>3. CASE T = {}
  <2>1. k = 0
    BY <1>1, <1>3
  <2>2. 0 \in 0..Len(q)
    BY <1>2
  <2> QED
    BY <2>1, <2>2
<1>4. CASE T # {}
  <2>1. T \in SUBSET Nat
    BY <1>2
  <2>2. \E x \in T : \A y \in T : x =< y
    <3> HIDE DEF T
    <3> QED
      BY ONLY <1>4, <2>1, SmallestNumber
  <2>3. k \in T
    <3> HIDE DEF T, k
    <3> QED
      BY <1>1, <1>4, <2>2, SMTT(60)
  <2> QED
    BY <1>2, <2>3
<1> QED
  BY <1>3, <1>4

LEMMA Cut ==
  ASSUME NEW q \in Seq(Pkt), NEW k \in 1..Len(q)
  PROVE  LET a == SubSeq(q, 1, k - 1)
             c == SubSeq(q, k + 1, Len(q))
         IN  /\ a \in Seq(Pkt) /\ c \in Seq(Pkt) /\ q[k] \in Pkt
             /\ q = (a \o <<q[k]>>) \o c
<1> DEFINE n == Len(q)
           a == SubSeq(q, 1, k - 1)
           d == SubSeq(q, 1, k)
           c == SubSeq(q, k + 1, n)
<1>1. n \in Nat /\ k \in Nat /\ k >= 1 /\ k <= n /\ \A i \in 1..n : q[i] \in Pkt
  BY LenProperties, ElementOfSeq
<1>2. a \in Seq(Pkt)
  BY <1>1, SubSeqProperties
<1>3. c \in Seq(Pkt)
  BY <1>1, SubSeqProperties
<1>4. d = a \o <<q[k]>>
  <2>1. 1 \in 1..n /\ k \in 1..n
    BY <1>1
  <2> QED
    BY <2>1, SubSeqRecursiveSecond
<1>5. d \o c = SubSeq(q, 1, n)
  <2>1. 1 \in 1..n + 1 /\ k \in 1 - 1..n /\ n \in k..n
    BY <1>1
  <2> QED
    BY <2>1, ConcatAdjacentSubSeq
<1>6. SubSeq(q, 1, n) = q
  BY SubSeqFull
<1> QED
  BY <1>1, <1>2, <1>3, <1>4, <1>5, <1>6, ZenonT(60)

\* `now' is what is written of the queue q: all, or what is before a packet
\* whose blobs are read from now on.
Processed(now, done, q, others) ==
  /\ now \in Seq(Pkt)
  /\ wire' = IF manager.open THEN wire \o Flat(done \o now) ELSE wire
  /\ manager' \in Managers /\ manager'.open = manager.open /\ manager'.engine = manager.engine
  /\ \/ now = q /\ jobs' = others /\ ~manager'.encoding /\ manager'.packetBuffer = <<>>
     \/ /\ manager'.encoding
        /\ \E job \in Job : /\ job.engine = manager.engine
                            /\ q = (now \o <<job.packet>>) \o manager'.packetBuffer
                            /\ jobs' = others \cup {job}

LEMMA WrittenIs ==
  ASSUME NEW q
  PROVE  Binary!Written(q) = IF manager.open THEN wire \o Flat(q) ELSE wire
<1>1. \A s : Binary!FlattenSeq(s) = Strung(s)
  BY DEF Binary!FlattenSeq, Strung
<1> QED
  BY <1>1 DEF Binary!Written, Flat

LEMMA ProcessIs ==
  ASSUME NEW done, NEW q \in Seq(Pkt), NEW others,
         manager \in Managers, Binary!Process(done, q, others)
  PROVE  \E now : Processed(now, done, q, others)
<1> DEFINE k == Binary!SelectInSeq(q, LAMBDA p : Binary!BlobsOf(p) # {})
           now == IF k = 0 THEN q ELSE SubSeq(q, 1, k - 1)
           rest == IF k = 0 THEN <<>> ELSE SubSeq(q, k + 1, Len(q))
           job == [packet |-> q[k], left |-> Binary!BlobsOf(q[k]), engine |-> manager.engine]
<1>1. k \in 0..Len(q)
  BY FirstBlob
<1>2. /\ wire' = Binary!Written(done \o now)
      /\ manager' = [manager EXCEPT !.encoding = (k # 0), !.packetBuffer = rest]
      /\ jobs' = IF k = 0 THEN others ELSE others \cup {job}
  BY DEF Binary!Process
<1> HIDE DEF k
<1>3. now \in Seq(Pkt) /\ rest \in Seq(Pkt)
  <2>1. CASE k = 0
    BY <2>1, EmptySeq
  <2>2. CASE k # 0
    <3>1. k \in 1..Len(q)
      BY <1>1, <2>2, LenProperties
    <3> QED
      BY <2>2, <3>1, Cut
  <2> QED
    BY <2>1, <2>2
<1>4. /\ manager' \in Managers /\ manager'.open = manager.open
      /\ manager'.engine = manager.engine /\ manager'.encoding = (k # 0)
      /\ manager'.packetBuffer = rest
  <2> HIDE DEF rest
  <2> QED
    BY <1>2, <1>3 DEF Managers
<1>5. wire' = IF manager.open THEN wire \o Flat(done \o now) ELSE wire
  BY <1>2, WrittenIs
<1>6. CASE k = 0
  BY <1>2, <1>3, <1>4, <1>5, <1>6 DEF Processed
<1>7. CASE k # 0
  <2>1. k \in 1..Len(q)
    BY <1>1, <1>7, LenProperties
  <2>2. q[k] \in Pkt /\ q = (now \o <<q[k]>>) \o rest
    BY <1>7, <2>1, Cut
  <2>3. job \in Job
    <3>1. DOMAIN q[k].shape \subseteq Nat
      BY <2>2, PktShape
    <3>2. manager.engine \in Nat
      BY DEF Managers
    <3> QED
      BY <2>2, <3>1, <3>2 DEF Job, Binary!BlobsOf
  <2>4. /\ job.packet = q[k] /\ job.engine = manager.engine
        /\ jobs' = others \cup {job}
    BY <1>2, <1>7
  <2> HIDE DEF job, now, rest
  <2> QED
    BY <1>3, <1>4, <1>5, <1>7, <2>2, <2>3, <2>4 DEF Processed
<1> QED
  BY <1>6, <1>7

LEMMA HoldingWritten ==
  ASSUME NEW w, NEW r, Holding(w, r), NEW q \in Seq(Pkt)
  PROVE  Holding(w \o Flat(q), r)
<1>1. CASE HoldsNone(w, r)
  <2>1. PICK s \in Seq(Pkt) : w = Flat(s)
    BY <1>1 DEF HoldsNone
  <2>2. s \o q \in Seq(Pkt) /\ w \o Flat(q) = Flat(s \o q)
    BY <2>1, ConcatProperties, FlatConcat
  <2> QED
    BY <1>1, <2>2 DEF HoldsNone, Holding
<1>2. ASSUME NEW p \in Pkt, NEW k \in 0..Len(p.shape) - 1, HoldsSome(w, r, p, k)
      PROVE  Holding(w \o Flat(q), r)
  <2>1. PICK s \in Seq(Pkt) : w = From(p, k + 1) \o Flat(s)
    BY <1>2 DEF HoldsSome
  <2> DEFINE x == From(p, k + 1)
             y == Flat(s)
             z == Flat(q)
  <2>2. x \in Seq(Piece) /\ y \in Seq(Piece) /\ z \in Seq(Piece)
    <3>1. k + 1 \in 1..Len(p.shape) + 1
      BY PktShape
    <3> QED
      BY <2>1, <3>1, FromTyped, FlatTyped
  <2>3. s \o q \in Seq(Pkt) /\ Flat(s \o q) = y \o z
    BY <2>1, ConcatProperties, FlatConcat
  <2> HIDE DEF x, y, z
  <2>4. (x \o y) \o z = x \o (y \o z)
    <3>1. Triple(Piece, x, y, z)
      BY <2>2 DEF Triple
    <3> QED
      BY ONLY <3>1, Associate
  <2>5. w \o Flat(q) = From(p, k + 1) \o Flat(s \o q)
    BY <2>1, <2>3, <2>4 DEF x, y, z
  <2> QED
    BY <1>2, <2>3, <2>5 DEF HoldsSome, Holding
<1> QED
  BY <1>1, <1>2 DEF Holding

LEMMA ArrivedWritten ==
  ASSUME NEW ds \in Seq(Rights), NEW r, NEW w, Holding(w, r), NEW q \in Seq(Pkt)
  PROVE  Arrived(ds, r, w \o Flat(q)) = Arrived(ds, r, w) \o Numbers(q)
<1> DEFINE x == Done(ds) \o Held(r)
           a == Numbers(Binary!Headers(w))
           b == Numbers(q)
<1>1. w \in Seq(Piece) /\ Flat(q) \in Seq(Piece) /\ Binary!Headers(w) \in Seq(Pkt)
  BY HoldingTyped, FlatTyped, HeadersTyped
<1>2. Binary!Headers(w \o Flat(q)) = Binary!Headers(w) \o q
  BY <1>1, HeadersConcat, HeadersFlat
<1>3. Numbers(Binary!Headers(w \o Flat(q))) = a \o b
  BY <1>1, <1>2, NumbersFacts
<1>4. x \in Seq(Nat) /\ a \in Seq(Nat) /\ b \in Seq(Nat)
  BY <1>1, NumbersFacts, DoneFacts, HoldingTyped, ConcatProperties
<1> HIDE DEF x, a, b
<1>5. (x \o a) \o b = x \o (a \o b)
  <2>1. Triple(Nat, x, a, b)
    BY <1>4 DEF Triple
  <2> QED
    BY ONLY <2>1, Associate
<1> QED
  BY <1>3, <1>5 DEF Arrived, x, a, b

\* Process keeps the order: what is done comes first, then the queue.
LEMMA ProcessedWay ==
  ASSUME NEW done \in Seq(Pkt), NEW q \in Seq(Pkt), NEW others, NEW now,
         Processed(now, done, q, others), manager.open,
         Holding(wire, reconstructor), decoded \in Seq(Rights),
         Current(others, manager.engine) = {}, UNCHANGED <<decoded, reconstructor>>
  PROVE  /\ Alone(jobs', manager')
         /\ Way(decoded', reconstructor', wire', jobs', manager')
              = (Arrived(decoded, reconstructor, wire) \o Numbers(done)) \o Numbers(q)
<1> DEFINE A == Arrived(decoded, reconstructor, wire)
           d == Numbers(done)
           n == Numbers(now)
           x == A \o d
<1>1. now \in Seq(Pkt) /\ wire' = wire \o Flat(done \o now) /\ manager'.engine = manager.engine
  BY DEF Processed
<1>2. done \o now \in Seq(Pkt) /\ Numbers(done \o now) = d \o n
  BY <1>1, ConcatProperties, NumbersFacts
<1>3. A \in Seq(Nat) /\ d \in Seq(Nat) /\ n \in Seq(Nat)
  BY <1>1, ArrivedTyped, NumbersFacts
<1>4. x \in Seq(Nat)
  BY <1>3, ConcatProperties
<1>5. Arrived(decoded', reconstructor', wire') = x \o n
  <2> DEFINE s == done \o now
  <2>1. s \in Seq(Pkt) /\ Numbers(s) = d \o n /\ wire' = wire \o Flat(s)
    BY <1>1, <1>2
  <2> HIDE DEF s, d, n
  <2>3. Arrived(decoded, reconstructor, wire \o Flat(s)) = A \o Numbers(s)
    <3>1. decoded \in Seq(Rights) /\ Holding(wire, reconstructor) /\ s \in Seq(Pkt)
      BY <2>1
    <3> QED
      BY ONLY <3>1, ArrivedWritten
  <2> HIDE DEF A
  <2>2. (A \o d) \o n = A \o (d \o n)
    <3>1. Triple(Nat, A, d, n)
      BY <1>3 DEF Triple
    <3> QED
      BY ONLY <3>1, Associate
  <2> QED
    BY <2>1, <2>2, <2>3
<1>6. CASE now = q /\ jobs' = others /\ ~manager'.encoding /\ manager'.packetBuffer = <<>>
  <2>1. Current(jobs', manager'.engine) = {}
    BY <1>1, <1>6
  <2>2. Reading(jobs', manager'.engine) = <<>> /\ Numbers(manager'.packetBuffer) = <<>>
    BY <1>6, <2>1, ReadingNone, NumbersFacts
  <2>3. Way(decoded', reconstructor', wire', jobs', manager') = ((x \o n) \o <<>>) \o <<>>
    BY <1>5, <2>2 DEF Way
  <2>4. (x \o n) \o <<>> = x \o n
    <3> HIDE DEF x, n
    <3>1. x \o n \in Seq(Nat)
      BY ONLY <1>3, <1>4, ConcatProperties
    <3> QED
      BY ONLY <3>1, ConcatEmptySeq
  <2> QED
    BY <1>6, <2>1, <2>3, <2>4 DEF Alone
<1>7. ASSUME NEW job \in Job, manager'.encoding, job.engine = manager.engine,
             q = (now \o <<job.packet>>) \o manager'.packetBuffer, jobs' = others \cup {job}
      PROVE  /\ Alone(jobs', manager')
             /\ Way(decoded', reconstructor', wire', jobs', manager') = x \o Numbers(q)
  <2> DEFINE p == job.packet
             m == p.n
             b == Numbers(manager'.packetBuffer)
  <2>1. Current(jobs', manager'.engine) = {job}
    BY <1>1, <1>7 DEF Current
  <2>2. p \in Pkt /\ m \in Nat /\ manager'.packetBuffer \in Seq(Pkt)
    BY DEF Job, Pkt, Processed, Managers
  <2>3. Reading(jobs', manager'.engine) = <<m>>
    BY <2>1, ReadingOne
  <2>4. b \in Seq(Nat) /\ Numbers(<<p>>) = <<m>>
    BY <2>2, NumbersFacts
  <2>5. Numbers(q) = (n \o <<m>>) \o b
    <3> HIDE DEF p
    <3>1. <<p>> \in Seq(Pkt)
      BY <2>2
    <3>2. now \o <<p>> \in Seq(Pkt) /\ Numbers(now \o <<p>>) = n \o Numbers(<<p>>)
      BY <1>1, <3>1, ConcatProperties, NumbersFacts
    <3>3. Numbers((now \o <<p>>) \o manager'.packetBuffer) = Numbers(now \o <<p>>) \o b
      BY <2>2, <3>2, NumbersFacts
    <3>4. q = (now \o <<p>>) \o manager'.packetBuffer
      BY <1>7 DEF p
    <3> HIDE DEF m, n, b
    <3> QED
      BY <2>4, <3>2, <3>3, <3>4
  <2>6. Way(decoded', reconstructor', wire', jobs', manager') = ((x \o n) \o <<m>>) \o b
    BY <1>5, <2>3 DEF Way
  <2> DEFINE y == <<m>>
  <2> HIDE DEF m, n, b, x
  <2>7. y \in Seq(Nat)
    BY ONLY <2>2
  <2> HIDE DEF y
  <2>8. ((x \o n) \o y) \o b = x \o ((n \o y) \o b)
    <3>1. x \in Seq(Nat) /\ n \in Seq(Nat) /\ y \in Seq(Nat) /\ b \in Seq(Nat)
      BY <1>3, <1>4, <2>4, <2>7
    <3> DEFINE z == n \o y
    <3>2. z \in Seq(Nat)
      BY <3>1, ConcatProperties
    <3>3. (x \o n) \o y = x \o z
      <4>1. Triple(Nat, x, n, y)
        BY <3>1 DEF Triple
      <4> QED
        BY ONLY <4>1, Associate
    <3> HIDE DEF z
    <3>4. (x \o z) \o b = x \o (z \o b)
      <4>1. Triple(Nat, x, z, b)
        BY <3>1, <3>2 DEF Triple
      <4> QED
        BY ONLY <4>1, Associate
    <3> QED
      BY <3>3, <3>4 DEF z
  <2> QED
    BY <1>7, <2>1, <2>5, <2>6, <2>8 DEF Alone, y
<1> QED
  BY <1>6, <1>7 DEF Processed

LEMMA ProcessedQueue ==
  ASSUME NEW done, NEW q, NEW others, NEW now, Processed(now, done, q, others)
  PROVE  Queueing'
<1>1. CASE ~manager'.encoding /\ manager'.packetBuffer = <<>>
  BY <1>1 DEF Queueing
<1>2. ASSUME NEW job \in Job, manager'.encoding, job.engine = manager.engine,
             jobs' = others \cup {job}
      PROVE  Queueing'
  <2>1. job \in Current(jobs', manager'.engine)
    BY <1>2 DEF Current, Processed
  <2> QED
    BY <1>2, <2>1 DEF Queueing
<1> QED
  BY <1>1, <1>2 DEF Processed

LEMMA ProcessedReceiving ==
  ASSUME NEW done \in Seq(Pkt), NEW q \in Seq(Pkt), NEW others, NEW now,
         Processed(now, done, q, others), Receiving, manager.open \/ q = <<>>,
         UNCHANGED <<decoded, reconstructor>>
  PROVE  Receiving'
<1>1. now \in Seq(Pkt) /\ done \o now \in Seq(Pkt)
  BY ConcatProperties DEF Processed
<1>2. Holding(wire, reconstructor) /\ decoded \in Seq(Rights)
  BY DEF Receiving
<1>3. CASE manager.open
  <2>1. wire' = wire \o Flat(done \o now) /\ manager'.open
    BY <1>3 DEF Processed
  <2>2. Holding(wire', reconstructor')
    BY <1>1, <1>2, <2>1, HoldingWritten
  <2> QED
    BY <1>2, <2>1, <2>2 DEF Receiving
<1>4. CASE ~manager.open
  <2>1. wire' = wire /\ q = <<>> /\ manager'.open = manager.open /\ manager' \in Managers
    BY <1>4 DEF Processed
  <2>2. ~manager'.encoding /\ manager'.packetBuffer = <<>>
    <3>1. ASSUME NEW job \in Job, q = (now \o <<job.packet>>) \o manager'.packetBuffer
          PROVE  FALSE
      <4> DEFINE p == job.packet
                 c == manager'.packetBuffer
      <4>1. p \in Pkt /\ c \in Seq(Pkt)
        BY <2>1 DEF Job, Managers
      <4>2. q = (now \o <<p>>) \o c
        BY <3>1
      <4> HIDE DEF p, c
      <4>3. <<p>> \in Seq(Pkt) /\ <<p>> # <<>>
        BY <4>1
      <4>4. now \o <<p>> \in Seq(Pkt)
        BY ONLY <1>1, <4>3, ConcatProperties
      <4>5. now \o <<p>> = <<>>
        <5>1. (now \o <<p>>) \o c = <<>>
          BY <2>1, <4>2
        <5> QED
          BY ONLY <4>1, <4>4, <5>1, ConcatEqualIffEmpty
      <4>6. <<p>> = <<>>
        BY ONLY <1>1, <4>3, <4>5, ConcatEqualIffEmpty
      <4> QED
        BY <4>3, <4>6
    <3> QED
      BY <3>1 DEF Processed
  <2> QED
    BY <1>2, <1>4, <2>1, <2>2 DEF Receiving
<1> QED
  BY <1>3, <1>4

LEMMA ProcessedTyped ==
  ASSUME NEW done, NEW q, NEW others, NEW now, Processed(now, done, q, others),
         others \subseteq Job, \A j \in others : j.engine <= manager.engine,
         manager \in Managers
  PROVE  /\ manager' \in Managers
         /\ jobs' \subseteq Job /\ \A j \in jobs' : j.engine <= manager'.engine
<1>1. manager' \in Managers /\ manager'.engine = manager.engine /\ manager.engine \in Nat
  BY DEF Processed, Managers
<1>2. CASE jobs' = others
  BY <1>1, <1>2
<1>3. ASSUME NEW job \in Job, job.engine = manager.engine, jobs' = others \cup {job}
      PROVE  jobs' \subseteq Job /\ \A j \in jobs' : j.engine <= manager'.engine
  BY <1>1, <1>3
<1> QED
  BY <1>1, <1>2, <1>3 DEF Processed

-----------------------------------------------------------------------------
(* The steps keep the invariant of binary events.                          *)

LEMMA Wide ==
  ASSUME BinaryInv
  PROVE  /\ manager \in Managers /\ manager.packetBuffer \in Seq(Pkt)
         /\ manager.open \in BOOLEAN /\ manager.encoding \in BOOLEAN /\ manager.engine \in Nat
         /\ jobs \subseteq Job /\ \A j \in jobs : j.engine <= manager.engine
         /\ history.emitted \in Nat /\ history.first \in Nat /\ history.stale \in BOOLEAN
         /\ history.first <= history.emitted + 1
         /\ Holding(wire, reconstructor) /\ decoded \in Seq(Rights)
         /\ Arrived(decoded, reconstructor, wire) \in Seq(Nat)
<1>1. manager \in Managers /\ jobs \subseteq Job
      /\ history \in [emitted : Nat, first : Nat, stale : BOOLEAN]
      /\ history.first <= history.emitted + 1 /\ \A j \in jobs : j.engine <= manager.engine
  BY DEF BinaryInv, BinaryTyped
<1>2. Holding(wire, reconstructor) /\ decoded \in Seq(Rights)
  BY DEF BinaryInv, Receiving
<1>3. Arrived(decoded, reconstructor, wire) \in Seq(Nat)
  BY <1>2, ArrivedTyped
<1> QED
  BY <1>1, <1>2, <1>3 DEF Managers

\* When nothing is encoded, all packets of the connection have arrived.
LEMMA NothingRead ==
  ASSUME BinaryInv, manager.open, ~history.stale, ~manager.encoding
  PROVE  /\ Current(jobs, manager.engine) = {}
         /\ Arrived(decoded, reconstructor, wire) = Since(history.first, history.emitted)
<1> DEFINE A == Arrived(decoded, reconstructor, wire)
<1>1. /\ Alone(jobs, manager) /\ manager.packetBuffer = <<>>
      /\ Way(decoded, reconstructor, wire, jobs, manager)
           = Since(history.first, history.emitted)
  BY DEF BinaryInv, Ordered, Queueing
<1>2. Current(jobs, manager.engine) = {}
  BY <1>1 DEF Alone
<1>3. Reading(jobs, manager.engine) = <<>> /\ Numbers(manager.packetBuffer) = <<>>
  BY <1>1, <1>2, ReadingNone, NumbersFacts
<1>4. Way(decoded, reconstructor, wire, jobs, manager) = (A \o <<>>) \o <<>>
  BY <1>3 DEF Way
<1>5. A \in Seq(Nat)
  BY Wide
<1> HIDE DEF A
<1>6. A \o <<>> = A
  BY <1>5, ConcatEmptySeq
<1> QED
  BY <1>1, <1>2, <1>4, <1>6 DEF A

LEMMA EmitWaits ==
  ASSUME BinaryInv, NEW shape \in Shapes, Binary!Emit(shape), manager.encoding
  PROVE  BinaryInv'
<1> DEFINE p == Binary!Packet(history.emitted + 1, shape)
           e == history.emitted
           b == manager.packetBuffer
<1>1. /\ manager.open /\ history' = [history EXCEPT !.emitted = @ + 1]
      /\ manager' = [manager EXCEPT !.packetBuffer = Append(@, p)]
      /\ UNCHANGED <<jobs, wire, reconstructor, decoded>>
  BY DEF Binary!Emit, Binary!Waits
<1>2. p \in Pkt /\ p.n = e + 1 /\ e \in Nat
  BY Wide DEF Pkt, Binary!Packet
<1>3. b \in Seq(Pkt) /\ Append(b, p) \in Seq(Pkt) /\ Append(b, p) = b \o <<p>> /\ <<p>> \in Seq(Pkt)
  <2>1. b \in Seq(Pkt)
    BY Wide
  <2> HIDE DEF p, b
  <2> QED
    BY <1>2, <2>1, AppendProperties, AppendIsConcat
<1> HIDE DEF p
<1>4. /\ manager' \in Managers /\ manager'.open = manager.open
      /\ manager'.engine = manager.engine /\ manager'.encoding = manager.encoding
      /\ manager'.packetBuffer = b \o <<p>>
  BY <1>1, <1>3, Wide DEF Managers
<1>5. /\ history' \in [emitted : Nat, first : Nat, stale : BOOLEAN]
      /\ history'.emitted = e + 1 /\ history'.first = history.first
      /\ history'.stale = history.stale
  <2>1. history \in [emitted : Nat, first : Nat, stale : BOOLEAN]
    BY DEF BinaryInv, BinaryTyped
  <2> QED
    BY <1>1, <2>1
<1>6. BinaryTyped'
  BY <1>1, <1>4, <1>5, Wide DEF BinaryTyped
<1>7. Receiving'
  BY <1>1, <1>4, Wide DEF Receiving
<1>8. Queueing'
  BY <1>1, <1>4 DEF BinaryInv, Queueing
<1>9. ASSUME ~history.stale
      PROVE  /\ Alone(jobs', manager')
             /\ Way(decoded', reconstructor', wire', jobs', manager')
                  = Since(history'.first, history'.emitted)
  <2> DEFINE R == Reading(jobs, manager.engine)
             A == Arrived(decoded, reconstructor, wire)
             x == A \o R
             n == Numbers(b)
             y == <<e + 1>>
  <2>1. /\ Alone(jobs, manager)
        /\ Way(decoded, reconstructor, wire, jobs, manager) = Since(history.first, e)
    BY <1>1, <1>9 DEF BinaryInv, Ordered
  <2>2. Alone(jobs', manager')
    BY <1>1, <1>4, <2>1 DEF Alone
  <2>3. R \in Seq(Nat) /\ A \in Seq(Nat) /\ n \in Seq(Nat)
    BY <1>3, <2>1, ReadingTyped, Wide, NumbersFacts
  <2>4. y \in Seq(Nat)
    BY <1>2
  <2>5. Numbers(b \o <<p>>) = n \o y
    <3> DEFINE u == <<p>>
    <3>1. u \in Seq(Pkt) /\ Numbers(u) = y
      BY <1>2, <1>3, NumbersFacts
    <3> HIDE DEF u
    <3>2. Numbers(b \o u) = n \o Numbers(u)
      BY <1>3, <3>1, NumbersFacts
    <3> QED
      BY <3>1, <3>2 DEF u
  <2>6. Way(decoded', reconstructor', wire', jobs', manager') = x \o (n \o y)
    BY <1>1, <1>4, <2>5 DEF Way
  <2>7. Way(decoded, reconstructor, wire, jobs, manager) = x \o n
    BY DEF Way
  <2> HIDE DEF R, A, n, y
  <2>8. x \in Seq(Nat)
    BY ONLY <2>3, ConcatProperties
  <2> HIDE DEF x
  <2>9. (x \o n) \o y = x \o (n \o y)
    <3>1. Triple(Nat, x, n, y)
      BY <2>3, <2>4, <2>8 DEF Triple
    <3> QED
      BY ONLY <3>1, Associate
  <2>10. Since(history.first, e + 1) = Since(history.first, e) \o y
    BY Wide, SinceFacts DEF y
  <2> QED
    BY <1>5, <2>1, <2>2, <2>6, <2>7, <2>9, <2>10
<1>10. Ordered'
  BY <1>5, <1>9 DEF Ordered
<1> QED
  BY <1>6, <1>7, <1>8, <1>10 DEF BinaryInv

LEMMA EmitEncodes ==
  ASSUME BinaryInv, NEW shape \in Shapes, Binary!Emit(shape), ~manager.encoding
  PROVE  BinaryInv'
<1> DEFINE p == Binary!Packet(history.emitted + 1, shape)
           e == history.emitted
           q == <<p>>
<1>1. /\ manager.open /\ history' = [history EXCEPT !.emitted = @ + 1]
      /\ Binary!Process(<<>>, <<p>> \o manager.packetBuffer, jobs)
      /\ UNCHANGED <<reconstructor, decoded>>
  BY DEF Binary!Emit, Binary!Waits
<1>2. p \in Pkt /\ p.n = e + 1 /\ e \in Nat
  BY Wide DEF Pkt, Binary!Packet
<1> HIDE DEF p
<1>3. q \in Seq(Pkt) /\ <<>> \in Seq(Pkt)
  BY <1>2, EmptySeq
<1>4. Numbers(q) = <<e + 1>> /\ Numbers(<<>>) = <<>>
  BY <1>2, NumbersFacts
<1>5. manager.packetBuffer = <<>>
  BY DEF BinaryInv, Queueing
<1> HIDE DEF q
<1>6. q \o <<>> = q
  BY <1>3, ConcatEmptySeq
<1>7. Binary!Process(<<>>, q, jobs)
  BY <1>1, <1>5, <1>6 DEF q
<1>8. PICK now : Processed(now, <<>>, q, jobs)
  BY <1>3, <1>7, Wide, ProcessIs
<1>9. /\ history' \in [emitted : Nat, first : Nat, stale : BOOLEAN]
      /\ history'.emitted = e + 1 /\ history'.first = history.first
      /\ history'.stale = history.stale
  <2>1. history \in [emitted : Nat, first : Nat, stale : BOOLEAN]
    BY DEF BinaryInv, BinaryTyped
  <2> QED
    BY <1>1, <2>1
<1>10. BinaryTyped'
  <2>1. /\ manager' \in Managers
        /\ jobs' \subseteq Job /\ \A j \in jobs' : j.engine <= manager'.engine
    BY <1>8, Wide, ProcessedTyped
  <2> QED
    BY <1>9, <2>1, Wide DEF BinaryTyped
<1>11. Receiving'
  BY <1>1, <1>3, <1>8, ProcessedReceiving DEF BinaryInv
<1>12. Queueing'
  BY <1>8, ProcessedQueue
<1>13. ASSUME ~history.stale
       PROVE  /\ Alone(jobs', manager')
              /\ Way(decoded', reconstructor', wire', jobs', manager')
                   = Since(history'.first, history'.emitted)
  <2> DEFINE A == Arrived(decoded, reconstructor, wire)
  <2>1. Current(jobs, manager.engine) = {} /\ A = Since(history.first, e)
    BY <1>1, <1>13, NothingRead
  <2>2. /\ Alone(jobs', manager')
        /\ Way(decoded', reconstructor', wire', jobs', manager')
             = (A \o Numbers(<<>>)) \o Numbers(q)
    BY <1>1, <1>3, <1>8, <2>1, Wide, ProcessedWay
  <2>3. A \in Seq(Nat)
    BY Wide
  <2> HIDE DEF A
  <2>4. A \o <<>> = A
    BY <2>3, ConcatEmptySeq
  <2>5. Since(history.first, e + 1) = Since(history.first, e) \o <<e + 1>>
    BY Wide, SinceFacts
  <2> QED
    BY <1>4, <1>9, <2>1, <2>2, <2>4, <2>5
<1>14. Ordered'
  BY <1>9, <1>13 DEF Ordered
<1> QED
  BY <1>10, <1>11, <1>12, <1>14 DEF BinaryInv

LEMMA BlobSteps ==
  ASSUME BinaryInv, NEW j \in jobs, NEW i \in j.left, Binary!BlobRead(j, i), j.left \ {i} # {}
  PROVE  BinaryInv'
<1> DEFINE k == [j EXCEPT !.left = j.left \ {i}]
<1>1. /\ jobs' = (jobs \ {j}) \cup {k}
      /\ UNCHANGED <<manager, wire, history, reconstructor, decoded>>
  BY DEF Binary!BlobRead
<1>2. j \in Job /\ j.engine <= manager.engine
  BY Wide
<1>3. k \in Job /\ k.engine = j.engine /\ k.packet = j.packet
  BY <1>2 DEF Job
<1> HIDE DEF k
<1>4. BinaryTyped'
  BY <1>1, <1>2, <1>3 DEF BinaryInv, BinaryTyped
<1>5. Receiving'
  BY <1>1 DEF BinaryInv, Receiving
<1>6. Current(jobs, manager.engine) = {} <=> Current(jobs', manager'.engine) = {}
  BY <1>1, <1>3 DEF Current
<1>7. Queueing'
  BY <1>1, <1>6 DEF BinaryInv, Queueing
<1>8. ASSUME manager.open, ~history.stale
      PROVE  /\ Alone(jobs', manager')
             /\ Way(decoded', reconstructor', wire', jobs', manager')
                  = Since(history'.first, history'.emitted)
  <2>1. /\ Alone(jobs, manager)
        /\ Way(decoded, reconstructor, wire, jobs, manager)
             = Since(history.first, history.emitted)
    BY <1>8 DEF BinaryInv, Ordered
  <2>2. Alone(jobs', manager') /\ Reading(jobs', manager'.engine) = Reading(jobs, manager.engine)
    <3>1. CASE Current(jobs, manager.engine) = {}
      <4>1. Current(jobs', manager'.engine) = {}
        BY <1>6, <3>1
      <4>2. Reading(jobs', manager'.engine) = <<>> /\ Reading(jobs, manager.engine) = <<>>
        BY <3>1, <4>1, ReadingNone
      <4> QED
        BY <4>1, <4>2 DEF Alone
    <3>2. ASSUME NEW l \in jobs, Current(jobs, manager.engine) = {l}, manager.encoding
          PROVE  Alone(jobs', manager')
                 /\ Reading(jobs', manager'.engine) = Reading(jobs, manager.engine)
      <4> DEFINE m == IF l = j THEN k ELSE l
      <4>1. m \in jobs' /\ Current(jobs', manager'.engine) = {m} /\ m.packet = l.packet
        BY <1>1, <1>3, <3>2 DEF Current
      <4>2. /\ Reading(jobs', manager'.engine) = <<m.packet.n>>
            /\ Reading(jobs, manager.engine) = <<l.packet.n>>
        BY <3>2, <4>1, ReadingOne
      <4> HIDE DEF m
      <4> QED
        BY <1>1, <3>2, <4>1, <4>2 DEF Alone
    <3> QED
      BY <2>1, <3>1, <3>2 DEF Alone
  <2>3. Way(decoded', reconstructor', wire', jobs', manager')
          = Way(decoded, reconstructor, wire, jobs, manager)
    BY <1>1, <2>2 DEF Way
  <2> QED
    BY <1>1, <2>1, <2>2, <2>3
<1>9. Ordered'
  BY <1>1, <1>8 DEF Ordered
<1> QED
  BY <1>4, <1>5, <1>7, <1>9 DEF BinaryInv

LEMMA LastBlobSteps ==
  ASSUME BinaryInv, NEW j \in jobs, NEW i \in j.left, Binary!BlobRead(j, i), j.left \ {i} = {}
  PROVE  BinaryInv'
<1> DEFINE p == j.packet
           d == <<p>>
           q == manager.packetBuffer
           others == jobs \ {j}
<1>1. /\ Binary!Process(d, q, others)
      /\ history' = [history EXCEPT !.stale = @ \/ j.engine # manager.engine]
      /\ UNCHANGED <<reconstructor, decoded>>
  BY DEF Binary!BlobRead
<1>2. p \in Pkt /\ q \in Seq(Pkt) /\ p.n \in Nat
  BY Wide DEF Job, Pkt
<1>3. d \in Seq(Pkt)
  <2> HIDE DEF p
  <2> QED
    BY <1>2
<1>4. PICK now : Processed(now, d, q, others)
  BY <1>1, <1>2, Wide, ProcessIs
<1>5. /\ history' \in [emitted : Nat, first : Nat, stale : BOOLEAN]
      /\ history'.emitted = history.emitted /\ history'.first = history.first
      /\ ~history'.stale => ~history.stale /\ j.engine = manager.engine
  <2>1. history \in [emitted : Nat, first : Nat, stale : BOOLEAN]
    BY DEF BinaryInv, BinaryTyped
  <2> QED
    BY <1>1, <2>1
<1>6. BinaryTyped'
  <2>1. others \subseteq Job /\ \A l \in others : l.engine <= manager.engine
    BY Wide
  <2>2. /\ manager' \in Managers
        /\ jobs' \subseteq Job /\ \A l \in jobs' : l.engine <= manager'.engine
    BY <1>4, <2>1, Wide, ProcessedTyped
  <2> QED
    BY <1>5, <2>2, Wide DEF BinaryTyped
<1>7. Receiving'
  <2>1. manager.open \/ q = <<>>
    BY DEF BinaryInv, Receiving
  <2> QED
    BY <1>1, <1>2, <1>3, <1>4, <2>1, ProcessedReceiving DEF BinaryInv
<1>8. Queueing'
  BY <1>4, ProcessedQueue
<1>9. ASSUME manager'.open, ~history'.stale
      PROVE  /\ Alone(jobs', manager')
             /\ Way(decoded', reconstructor', wire', jobs', manager')
                  = Since(history'.first, history'.emitted)
  <2> DEFINE A == Arrived(decoded, reconstructor, wire)
  <2>1. manager.open /\ ~history.stale /\ j.engine = manager.engine
    BY <1>4, <1>5, <1>9 DEF Processed
  <2>2. /\ Alone(jobs, manager)
        /\ Way(decoded, reconstructor, wire, jobs, manager)
             = Since(history.first, history.emitted)
    BY <2>1 DEF BinaryInv, Ordered
  <2>3. Current(jobs, manager.engine) = {j}
    BY <2>1, <2>2 DEF Alone, Current
  <2>4. Current(others, manager.engine) = {}
    BY <2>3 DEF Current
  <2>5. Reading(jobs, manager.engine) = <<p.n>> /\ Numbers(d) = <<p.n>>
    <3>1. Reading(jobs, manager.engine) = <<p.n>>
      BY <2>3, ReadingOne
    <3> HIDE DEF p
    <3>2. Numbers(<<p>>) = <<p.n>>
      BY <1>2, NumbersFacts
    <3> QED
      BY <3>1, <3>2
  <2>6. Way(decoded, reconstructor, wire, jobs, manager) = (A \o Numbers(d)) \o Numbers(q)
    BY <2>5 DEF Way
  <2>7. /\ Alone(jobs', manager')
        /\ Way(decoded', reconstructor', wire', jobs', manager')
             = (A \o Numbers(d)) \o Numbers(q)
    BY <1>1, <1>2, <1>3, <1>4, <2>1, <2>4, Wide, ProcessedWay
  <2> QED
    BY <1>5, <2>2, <2>6, <2>7
<1>10. Ordered'
  BY <1>9 DEF Ordered
<1> QED
  BY <1>6, <1>7, <1>8, <1>10 DEF BinaryInv

LEMMA CloseSteps ==
  ASSUME BinaryInv, Binary!Close
  PROVE  BinaryInv'
<1>1. /\ manager' = [manager EXCEPT !.open = FALSE, !.packetBuffer = <<>>, !.encoding = FALSE]
      /\ wire' = <<>> /\ reconstructor' = Binary!NoReconstructor /\ decoded' = <<>>
      /\ UNCHANGED <<jobs, history>>
  BY DEF Binary!Close
<1>2. <<>> \in Seq(Pkt) /\ <<>> \in Seq(Rights)
  BY EmptySeq
<1>3. /\ manager' \in Managers /\ ~manager'.open /\ ~manager'.encoding
      /\ manager'.packetBuffer = <<>> /\ manager'.engine = manager.engine
  BY <1>1, <1>2, Wide DEF Managers
<1>4. BinaryTyped'
  BY <1>1, <1>3 DEF BinaryInv, BinaryTyped
<1>5. HoldsNone(wire', reconstructor')
  BY <1>1, <1>2, FlatEmpty DEF HoldsNone
<1>6. Receiving'
  BY <1>1, <1>2, <1>3, <1>5 DEF Receiving, Holding
<1>7. Queueing' /\ Ordered'
  BY <1>3 DEF Queueing, Ordered
<1> QED
  BY <1>4, <1>6, <1>7 DEF BinaryInv

LEMMA OpenSteps ==
  ASSUME BinaryInv, Binary!Open
  PROVE  BinaryInv'
<1>1. /\ ~manager.open /\ manager' = [manager EXCEPT !.open = TRUE, !.engine = @ + 1]
      /\ history' = [history EXCEPT !.first = history.emitted + 1, !.stale = FALSE]
      /\ UNCHANGED <<jobs, wire, reconstructor, decoded>>
  BY DEF Binary!Open
<1>2. /\ ~manager.encoding /\ manager.packetBuffer = <<>> /\ wire = <<>>
      /\ reconstructor = Binary!NoReconstructor /\ decoded = <<>>
  BY <1>1 DEF BinaryInv, Receiving
<1>3. /\ manager' \in Managers /\ manager'.open /\ ~manager'.encoding
      /\ manager'.packetBuffer = <<>> /\ manager'.engine = manager.engine + 1
  <2> DEFINE e == manager.engine + 1
  <2>1. manager \in Managers /\ e \in Nat
    BY Wide
  <2>2. manager' = [manager EXCEPT !.open = TRUE, !.engine = e]
    BY <1>1
  <2> HIDE DEF e
  <2>3. /\ manager' \in Managers /\ manager'.open /\ manager'.encoding = manager.encoding
        /\ manager'.packetBuffer = manager.packetBuffer /\ manager'.engine = e
    BY <2>1, <2>2 DEF Managers
  <2> QED
    BY <1>2, <2>3 DEF e
<1>4. /\ history' \in [emitted : Nat, first : Nat, stale : BOOLEAN]
      /\ history'.emitted = history.emitted /\ history'.first = history.emitted + 1
  <2>1. history \in [emitted : Nat, first : Nat, stale : BOOLEAN]
    BY DEF BinaryInv, BinaryTyped
  <2> DEFINE f == history.emitted + 1
  <2>2. f \in Nat /\ history' = [history EXCEPT !.first = f, !.stale = FALSE]
    BY <1>1, Wide
  <2> HIDE DEF f
  <2>3. /\ history' \in [emitted : Nat, first : Nat, stale : BOOLEAN]
        /\ history'.emitted = history.emitted /\ history'.first = f
    BY <2>1, <2>2
  <2> QED
    BY <2>3 DEF f
<1>5. \A j \in jobs : j.engine \in Nat /\ j.engine <= manager.engine
  BY Wide DEF Job
<1>6. BinaryTyped'
  BY <1>1, <1>3, <1>4, <1>5, Wide DEF BinaryTyped
<1>7. Receiving'
  BY <1>1, <1>3 DEF BinaryInv, Receiving
<1>8. Queueing'
  BY <1>3 DEF Queueing
<1>9. Current(jobs', manager'.engine) = {}
  BY <1>1, <1>3, <1>5, Wide DEF Current
<1>10. Way(decoded', reconstructor', wire', jobs', manager') = <<>>
  <2>1. Reading(jobs', manager'.engine) = <<>>
    BY <1>9, ReadingNone
  <2>2. Held(reconstructor') = <<>> /\ Done(decoded') = <<>>
    BY <1>1, <1>2, DoneFacts DEF Held
  <2>3. Numbers(Binary!Headers(wire')) = <<>> /\ Numbers(manager'.packetBuffer) = <<>>
    BY <1>1, <1>2, <1>3, HeadersEmpty, NumbersFacts
  <2>4. <<>> \in Seq(Nat) /\ <<>> \o <<>> = <<>>
    BY EmptySeq, ConcatEmptySeq
  <2> QED
    BY <2>1, <2>2, <2>3, <2>4 DEF Way, Arrived
<1>11. Since(history'.first, history'.emitted) = <<>>
  BY <1>4, Wide, SinceFacts
<1>12. Ordered'
  BY <1>9, <1>10, <1>11 DEF Ordered, Alone
<1> QED
  BY <1>6, <1>7, <1>8, <1>12 DEF BinaryInv

-----------------------------------------------------------------------------
(* The Decoder's steps.                                                    *)

LEMMA HeadersFrom ==
  ASSUME NEW p \in Pkt, NEW k \in 1..Len(p.shape) + 1, NEW q \in Seq(Pkt)
  PROVE  /\ From(p, k) \o Flat(q) \in Seq(Piece)
         /\ Binary!Headers(From(p, k) \o Flat(q)) = q
<1>1. From(p, k) \in Seq(Attachment) /\ From(p, k) \in Seq(Piece) /\ Flat(q) \in Seq(Piece)
  BY FromTyped, FlatTyped
<1>2. Binary!Headers(From(p, k)) = <<>> /\ Binary!Headers(Flat(q)) = q
  BY <1>1, HeadersNone, HeadersFlat
<1>3. Binary!Headers(From(p, k) \o Flat(q)) = <<>> \o q
  BY <1>1, <1>2, HeadersConcat
<1> QED
  BY <1>1, <1>3, ConcatEmptySeq, ConcatProperties

\* The next frame, when arguments of p from k + 1 on are still to come.
LEMMA AttachmentNext ==
  ASSUME NEW p \in Pkt, NEW k \in 0..Len(p.shape) - 1, NEW q \in Seq(Pkt),
         NEW w, w = From(p, k + 1) \o Flat(q)
  PROVE  /\ w # <<>> /\ Head(w) = Attached(p, k + 1)
         /\ Tail(w) = From(p, k + 2) \o Flat(q)
<1> DEFINE h == Attached(p, k + 1)
           x == <<h>>
           y == From(p, k + 2)
           z == Flat(q)
           s == y \o z
<1>1. /\ Len(p.shape) \in Nat /\ k + 1 \in 1..Len(p.shape) /\ k + 2 \in 1..Len(p.shape) + 1
      /\ k + 1 + 1 = k + 2 /\ k + 1 \in Nat
  BY PktShape
<1>2. From(p, k + 1) = x \o y
  BY <1>1, FromNext
<1>3. h \in Piece /\ y \in Seq(Piece) /\ z \in Seq(Piece)
  BY <1>1, PieceTyped, FromTyped, FlatTyped
<1> HIDE DEF h, y, z
<1>4. x \in Seq(Piece)
  BY <1>3
<1>5. s \in Seq(Piece)
  BY <1>3, ConcatProperties
<1> HIDE DEF x
<1>6. (x \o y) \o z = x \o (y \o z)
  <2>1. Triple(Piece, x, y, z)
    BY <1>3, <1>4 DEF Triple
  <2> QED
    BY ONLY <2>1, Associate
<1>7. w = x \o s
  BY <1>2, <1>6 DEF z
<1> HIDE DEF s
<1>8. Head(<<h>> \o s) = h /\ Tail(<<h>> \o s) = s /\ <<h>> \o s # <<>>
  BY ONLY <1>3, <1>5, HeadTailOne
<1> QED
  BY <1>7, <1>8 DEF x, h, s, y, z

\* The next frame, between packets.
LEMMA PacketNext ==
  ASSUME NEW q \in Seq(Pkt), q # <<>>
  PROVE  \E p \in Pkt : \E t \in Seq(Pkt) :
           /\ Flat(q) # <<>> /\ Head(Flat(q)) = Lead(p)
           /\ Tail(Flat(q)) = From(p, 1) \o Flat(t)
           /\ Numbers(q) = <<p.n>> \o Numbers(t)
<1> DEFINE n == Len(q)
           p == q[1]
           t == SubSeq(q, 2, n)
           u == <<p>>
<1>1. n \in Nat /\ 1 \in 1..n /\ n \in 1..n /\ \A i \in 1..n : q[i] \in Pkt
  BY LenProperties, EmptySeq, ElementOfSeq
<1>2. p \in Pkt /\ t \in Seq(Pkt)
  BY <1>1, SubSeqProperties
<1>3. q = u \o t
  <2>1. SubSeq(q, 1, n) = q /\ SubSeq(q, 1, n) = <<q[1]>> \o SubSeq(q, 1 + 1, n)
    BY <1>1, SubSeqFull, SubSeqRecursiveFirst
  <2> QED
    BY <2>1
<1> HIDE DEF p, t
<1>4. u \in Seq(Pkt)
  BY <1>2
<1> DEFINE x == <<Lead(p)>>
           y == From(p, 1)
           z == Flat(t)
           s == y \o z
<1>5. Flat(u) = x \o y /\ Numbers(u) = <<p.n>>
  BY <1>2, FlatOne, EncodedIs, NumbersFacts
<1>6. Flat(u \o t) = Flat(u) \o z /\ Numbers(u \o t) = Numbers(u) \o Numbers(t)
  <2> HIDE DEF u
  <2> QED
    BY <1>2, <1>4, FlatConcat, NumbersFacts
<1>7. Lead(p) \in Piece /\ y \in Seq(Piece) /\ z \in Seq(Piece)
  <2>1. 1 \in 1..Len(p.shape) + 1 /\ 1 \in Nat
    BY <1>2, PktShape
  <2> QED
    BY <1>2, <2>1, PieceTyped, FromTyped, FlatTyped
<1> DEFINE h == Lead(p)
<1> HIDE DEF y, z, h
<1>8. x \in Seq(Piece)
  BY <1>7 DEF h
<1>9. s \in Seq(Piece)
  BY <1>7, ConcatProperties
<1> HIDE DEF x
<1>10. (x \o y) \o z = x \o (y \o z)
  <2>1. Triple(Piece, x, y, z)
    BY <1>7, <1>8 DEF Triple
  <2> QED
    BY ONLY <2>1, Associate
<1>11. Flat(q) = x \o s
  BY <1>3, <1>5, <1>6, <1>10
<1> HIDE DEF s
<1>12. Head(<<h>> \o s) = h /\ Tail(<<h>> \o s) = s /\ <<h>> \o s # <<>>
  <2>1. h \in Piece
    BY <1>7 DEF h
  <2> QED
    BY ONLY <1>9, <2>1, HeadTailOne
<1>13. x = <<h>>
  BY DEF x, h
<1>14. Numbers(q) = <<p.n>> \o Numbers(t)
  BY <1>3, <1>5, <1>6
<1> QED
  BY <1>2, <1>11, <1>12, <1>13, <1>14 DEF h, s, y, z

LEMMA ArgsNext ==
  ASSUME NEW p \in Pkt, NEW k \in Nat
  PROVE  /\ Args(p, 0) = <<>> /\ Len(Args(p, k)) = k
         /\ Args(p, k + 1) = Append(Args(p, k), Binary!Data(p.n, k + 1))
<1> DEFINE D(i) == Binary!Data(p.n, i)
           a == Args(p, k)
           b == Args(p, k + 1)
           e == D(k + 1)
           c == Append(a, e)
<1>1. p.n \in Nat /\ \A i \in Nat : D(i) \in Datum
  BY PktShape DEF Binary!Data, Datum
<1> HIDE DEF D
<1>2. /\ \A i \in 1..k : a[i] = D(i)
      /\ \A i \in 1..k + 1 : b[i] = D(i)
  BY DEF Args, D
<1>3. a \in Seq(Datum) /\ Len(a) = k
  <2>1. a = [i \in 1..k |-> D(i)]
    BY DEF Args, D
  <2> QED
    BY <1>1, <2>1
<1>4. b \in Seq(Datum) /\ Len(b) = k + 1
  <2>1. b = [i \in 1..k + 1 |-> D(i)]
    BY DEF Args, D
  <2> QED
    BY <1>1, <2>1
<1>5. e \in Datum
  BY <1>1
<1>6. Args(p, 0) = <<>>
  BY DEF Args
<1> HIDE DEF a, b, e
<1>7. /\ c \in Seq(Datum) /\ Len(c) = k + 1 /\ c[k + 1] = e
      /\ \A i \in 1..k : c[i] = a[i]
  BY <1>3, <1>5, AppendProperties
<1> HIDE DEF c
<1>8. \A i \in 1..k + 1 : b[i] = c[i]
  <2> SUFFICES ASSUME NEW i \in 1..k + 1 PROVE b[i] = c[i]
    OBVIOUS
  <2>1. CASE i = k + 1
    BY <1>2, <1>7, <2>1 DEF e
  <2>2. CASE i # k + 1
    <3>1. i \in 1..k
      BY <2>2
    <3> QED
      BY <1>2, <1>7, <3>1
  <2> QED
    BY <2>1, <2>2
<1>9. b = c
  BY <1>4, <1>7, <1>8, SeqEqual
<1> QED
  BY <1>3, <1>6, <1>9 DEF a, b, c, e, D

LEMMA PartialSome ==
  ASSUME NEW p \in Pkt, p.shape # <<>>, NEW k
  PROVE  Partial(p, k) # Binary!NoReconstructor /\ Held(Partial(p, k)) = <<p.n>>
<1>1. Partial(p, k).pack = p
  BY DEF Partial
<1>2. Binary!NoReconstructor.pack.shape = <<>>
  BY DEF Binary!NoReconstructor, Binary!Reconstructor, Binary!Packet
<1> QED
  BY <1>1, <1>2 DEF Held

\* A step of the Decoder that only moves packets along.
LEMMA ReceivedKeeps ==
  ASSUME BinaryInv, manager.open, UNCHANGED <<manager, jobs, history>>,
         Holding(wire', reconstructor'), decoded' \in Seq(Rights),
         Arrived(decoded', reconstructor', wire') = Arrived(decoded, reconstructor, wire)
  PROVE  BinaryInv'
<1>1. BinaryTyped' /\ Queueing'
  BY DEF BinaryInv, BinaryTyped, Queueing
<1>2. Receiving'
  BY DEF Receiving
<1>3. Way(decoded', reconstructor', wire', jobs', manager')
        = Way(decoded, reconstructor, wire, jobs, manager)
  BY DEF Way
<1>4. Ordered'
  BY <1>3 DEF BinaryInv, Ordered, Alone
<1> QED
  BY <1>1, <1>2, <1>4 DEF BinaryInv

LEMMA AddPacketSteps ==
  ASSUME BinaryInv, Binary!AddPacket
  PROVE  BinaryInv'
<1>1. wire # <<>> /\ Head(wire).header /\ wire' = Tail(wire) /\ UNCHANGED <<manager, jobs, history>>
  BY DEF Binary!AddPacket
<1>2. manager.open
  BY <1>1 DEF BinaryInv, Receiving
<1>3. HoldsNone(wire, reconstructor)
  <2>1. ASSUME NEW p \in Pkt, NEW k \in 0..Len(p.shape) - 1,
               HoldsSome(wire, reconstructor, p, k)
        PROVE  FALSE
    <3>1. PICK q \in Seq(Pkt) : wire = From(p, k + 1) \o Flat(q)
      BY <2>1 DEF HoldsSome
    <3>2. Head(wire) = Attached(p, k + 1)
      BY <3>1, AttachmentNext
    <3> QED
      BY <1>1, <3>2 DEF Attached
  <2> QED
    BY <2>1, Wide DEF Holding
<1>4. PICK q \in Seq(Pkt) : wire = Flat(q)
  BY <1>3 DEF HoldsNone
<1>5. q # <<>>
  BY <1>1, <1>4, FlatEmpty
<1>6. PICK p \in Pkt, t \in Seq(Pkt) :
        /\ Head(wire) = Lead(p) /\ Tail(wire) = From(p, 1) \o Flat(t)
        /\ Numbers(q) = <<p.n>> \o Numbers(t)
  BY <1>4, <1>5, PacketNext
<1>7. Head(wire).packet = p /\ reconstructor = Binary!NoReconstructor
  BY <1>3, <1>6 DEF Lead, HoldsNone
<1>8. IF p.shape = <<>>
      THEN decoded' = Append(decoded, Binary!Whole(p, <<>>)) /\ reconstructor' = reconstructor
      ELSE reconstructor' = Binary!Reconstructor(p) /\ decoded' = decoded
  BY <1>7 DEF Binary!AddPacket
<1>9. wire' = From(p, 1) \o Flat(t)
  BY <1>1, <1>6
<1> DEFINE D == Done(decoded)
           m == p.n
           y == <<m>>
           z == Numbers(t)
<1>10. D \in Seq(Nat) /\ z \in Seq(Nat) /\ m \in Nat
  BY <1>6, Wide, DoneFacts, NumbersFacts, PktShape
<1>11. Len(p.shape) \in Nat /\ (p.shape = <<>> <=> Len(p.shape) = 0) /\ 1 \in 1..Len(p.shape) + 1
  BY <1>6, PktShape
<1>12. Arrived(decoded, reconstructor, wire) = (D \o <<>>) \o (y \o z)
  <2>1. Binary!Headers(wire) = q
    BY <1>4, HeadersFlat
  <2> QED
    BY <1>6, <1>7, <2>1 DEF Arrived, Held
<1>13. Binary!Headers(wire') = t
  BY <1>6, <1>9, <1>11, HeadersFrom
<1>14. (D \o <<>>) \o (y \o z) = (D \o y) \o z /\ (D \o y) \o <<>> = D \o y
  <2> HIDE DEF D, z, m
  <2>1. y \in Seq(Nat)
    BY <1>10
  <2> HIDE DEF y
  <2>2. (D \o y) \o z = D \o (y \o z)
    <3>1. Triple(Nat, D, y, z)
      BY <1>10, <2>1 DEF Triple
    <3> QED
      BY ONLY <3>1, Associate
  <2>3. D \o y \in Seq(Nat)
    BY ONLY <1>10, <2>1, ConcatProperties
  <2>4. D \o <<>> = D
    BY ONLY <1>10, ConcatEmptySeq
  <2>5. (D \o y) \o <<>> = D \o y
    BY ONLY <2>3, ConcatEmptySeq
  <2> QED
    BY <2>2, <2>4, <2>5
<1>15. CASE p.shape = <<>>
  <2>1. Right(p) = Binary!Whole(p, <<>>)
    BY <1>6, <1>11, <1>15, ArgsNext DEF Right
  <2>2. decoded' \in Seq(Rights) /\ Done(decoded') = D \o y
    BY <1>6, <1>8, <1>15, <2>1, Wide, DoneFacts
  <2>3. wire' = Flat(t)
    <3>1. From(p, 1) = <<>>
      <4>1. From(p, Len(p.shape) + 1) = <<>>
        BY <1>6, FromEnd
      <4> QED
        BY <1>11, <1>15, <4>1
    <3> QED
      BY <1>6, <1>9, <3>1, FlatTyped, ConcatEmptySeq
  <2>4. Holding(wire', reconstructor')
    BY <1>6, <1>7, <1>8, <1>15, <2>3 DEF Holding, HoldsNone
  <2>5. Arrived(decoded', reconstructor', wire') = ((D \o y) \o <<>>) \o z
    BY <1>7, <1>8, <1>13, <1>15, <2>2 DEF Arrived, Held
  <2> QED
    BY <1>1, <1>2, <1>12, <1>14, <2>2, <2>4, <2>5, ReceivedKeeps
<1>16. CASE p.shape # <<>>
  <2>1. Args(p, 0) = <<>>
    BY <1>6, ArgsNext
  <2>2. reconstructor' = Partial(p, 0) /\ decoded' = decoded
    BY <1>8, <1>16, <2>1 DEF Partial, Binary!Reconstructor
  <2>3. Holding(wire', reconstructor')
    <3>1. 0 \in 0..Len(p.shape) - 1 /\ 0 + 1 = 1
      BY <1>11, <1>16
    <3>2. HoldsSome(wire', reconstructor', p, 0)
      BY <1>6, <1>9, <2>2, <3>1 DEF HoldsSome
    <3> QED
      BY <1>6, <3>1, <3>2 DEF Holding
  <2>4. Held(reconstructor') = y
    BY <1>6, <1>16, <2>2, PartialSome
  <2>5. Arrived(decoded', reconstructor', wire') = (D \o y) \o z
    BY <1>13, <2>2, <2>4 DEF Arrived
  <2> QED
    BY <1>1, <1>2, <1>12, <1>14, <2>2, <2>3, <2>5, Wide, ReceivedKeeps
<1> QED
  BY <1>15, <1>16

LEMMA AddAttachmentSteps ==
  ASSUME BinaryInv, Binary!AddAttachment
  PROVE  BinaryInv'
<1>1. wire # <<>> /\ ~Head(wire).header /\ wire' = Tail(wire) /\ UNCHANGED <<manager, jobs, history>>
  BY DEF Binary!AddAttachment
<1>2. manager.open
  BY <1>1 DEF BinaryInv, Receiving
<1>3. ~HoldsNone(wire, reconstructor)
  <2> SUFFICES ASSUME NEW q \in Seq(Pkt), wire = Flat(q) PROVE FALSE
    BY DEF HoldsNone
  <2>1. q # <<>>
    BY <1>1, FlatEmpty
  <2>2. PICK p \in Pkt : Head(wire) = Lead(p)
    BY <2>1, PacketNext
  <2> QED
    BY <1>1, <2>2 DEF Lead
<1>4. PICK p \in Pkt : \E k \in 0..Len(p.shape) - 1 : HoldsSome(wire, reconstructor, p, k)
  BY <1>3, Wide DEF Holding
<1>5. PICK k \in 0..Len(p.shape) - 1 : HoldsSome(wire, reconstructor, p, k)
  BY <1>4
<1>6. PICK q \in Seq(Pkt) : reconstructor = Partial(p, k) /\ wire = From(p, k + 1) \o Flat(q)
  BY <1>5 DEF HoldsSome
<1>7. /\ Len(p.shape) \in Nat /\ p.shape # <<>> /\ k \in Nat /\ k + 1 <= Len(p.shape)
      /\ k + 1 \in 1..Len(p.shape) + 1 /\ k + 2 \in 1..Len(p.shape) + 1 /\ (k + 1) + 1 = k + 2
  BY <1>4, <1>5, PktShape
<1>8. Head(wire).data = Binary!Data(p.n, k + 1) /\ wire' = From(p, k + 2) \o Flat(q)
  <2>1. p \in Pkt /\ k \in 0..Len(p.shape) - 1 /\ q \in Seq(Pkt) /\ wire = From(p, k + 1) \o Flat(q)
    BY <1>4, <1>5, <1>6
  <2>2. Head(wire) = Attached(p, k + 1) /\ Tail(wire) = From(p, k + 2) \o Flat(q)
    BY ONLY <2>1, AttachmentNext, ZenonT(60)
  <2> QED
    BY <1>1, <2>2 DEF Attached
<1>9. [reconstructor EXCEPT !.buffers = Append(@, Head(wire).data)] = Partial(p, k + 1)
  <2>1. Args(p, k + 1) = Append(Args(p, k), Head(wire).data)
    BY <1>4, <1>7, <1>8, ArgsNext
  <2> DEFINE a == Args(p, k)
             b == Args(p, k + 1)
  <2>2. reconstructor = [pack |-> p, buffers |-> a] /\ Append(a, Head(wire).data) = b
    BY <1>6, <2>1 DEF Partial
  <2> HIDE DEF a, b
  <2>3. reconstructor.buffers = a
    BY <2>2
  <2>4. [reconstructor EXCEPT !.buffers = Append(@, Head(wire).data)]
          = [reconstructor EXCEPT !.buffers = b]
    BY <2>2, <2>3
  <2>5. [[pack |-> p, buffers |-> a] EXCEPT !.buffers = b] = [pack |-> p, buffers |-> b]
    OBVIOUS
  <2> QED
    BY <2>2, <2>4, <2>5 DEF Partial, b
<1>10. Binary!Complete(Partial(p, k + 1)) <=> k + 1 = Len(p.shape)
  <2>1. Len(Args(p, k + 1)) = k + 1
    BY <1>4, <1>7, ArgsNext
  <2> QED
    BY <2>1 DEF Binary!Complete, Partial
<1>11. reconstructor # Binary!NoReconstructor /\ Held(reconstructor) = <<p.n>>
  BY <1>4, <1>6, <1>7, PartialSome
<1>12. IF k + 1 = Len(p.shape)
       THEN /\ reconstructor' = Binary!NoReconstructor
            /\ decoded' = Append(decoded, Binary!Whole(p, Args(p, k + 1)))
       ELSE reconstructor' = Partial(p, k + 1) /\ decoded' = decoded
  <2>1. Partial(p, k + 1).pack = p /\ Partial(p, k + 1).buffers = Args(p, k + 1)
    BY DEF Partial
  <2> HIDE DEF Partial
  <2> QED
    BY <1>9, <1>10, <1>11, <2>1 DEF Binary!AddAttachment
<1>13. Binary!Headers(wire) = q /\ Binary!Headers(wire') = q
  BY <1>4, <1>6, <1>7, <1>8, HeadersFrom
<1> DEFINE D == Done(decoded)
           m == p.n
           y == <<m>>
           z == Numbers(q)
<1>14. D \in Seq(Nat) /\ m \in Nat
  BY <1>4, Wide, DoneFacts, PktShape
<1>15. Arrived(decoded, reconstructor, wire) = (D \o y) \o z
  BY <1>11, <1>13 DEF Arrived
<1>16. CASE k + 1 = Len(p.shape)
  <2>1. decoded' \in Seq(Rights) /\ Done(decoded') = D \o y
    BY <1>4, <1>12, <1>16, Wide, DoneFacts DEF Right
  <2>2. wire' = Flat(q)
    <3>1. From(p, k + 2) = <<>>
      BY <1>4, <1>7, <1>16, FromEnd
    <3> QED
      BY <1>6, <1>8, <3>1, FlatTyped, ConcatEmptySeq
  <2>3. Holding(wire', reconstructor')
    BY <1>6, <1>12, <1>16, <2>2 DEF Holding, HoldsNone
  <2>4. Arrived(decoded', reconstructor', wire') = ((D \o y) \o <<>>) \o z
    BY <1>12, <1>13, <1>16, <2>1 DEF Arrived, Held
  <2>5. (D \o y) \o <<>> = D \o y
    <3> HIDE DEF D, m
    <3>1. y \in Seq(Nat)
      BY <1>14
    <3> HIDE DEF y
    <3>2. D \o y \in Seq(Nat)
      BY ONLY <1>14, <3>1, ConcatProperties
    <3> QED
      BY ONLY <3>2, ConcatEmptySeq
  <2> QED
    BY <1>1, <1>2, <1>15, <2>1, <2>3, <2>4, <2>5, ReceivedKeeps
<1>17. CASE k + 1 # Len(p.shape)
  <2>1. reconstructor' = Partial(p, k + 1) /\ decoded' = decoded
    BY <1>12, <1>17
  <2>2. k + 1 \in 0..Len(p.shape) - 1
    BY <1>7, <1>17
  <2>3. HoldsSome(wire', reconstructor', p, k + 1)
    BY <1>6, <1>7, <1>8, <2>1 DEF HoldsSome
  <2>4. Holding(wire', reconstructor')
    BY <1>4, <2>2, <2>3 DEF Holding
  <2>5. Held(reconstructor') = y
    BY <1>4, <1>7, <2>1, PartialSome
  <2>6. Arrived(decoded', reconstructor', wire') = (D \o y) \o z
    BY <1>13, <2>1, <2>5 DEF Arrived
  <2> QED
    BY <1>1, <1>2, <1>15, <2>1, <2>4, <2>6, Wide, ReceivedKeeps
<1> QED
  BY <1>16, <1>17

LEMMA BinaryAlone ==
  ASSUME [Next]_vars
  PROVE  Binary!Next \/ UNCHANGED binary
BY DEF Next, vars, PayloadsRest, SocketioRest, FramesRest, CharactersRest, BinaryRest, RequestsRest

LEMMA BinarySteps ==
  ASSUME BinaryInv, [Next]_vars
  PROVE  BinaryInv'
<1>1. ASSUME NEW shape \in Shapes, Binary!Emit(shape) PROVE BinaryInv'
  <2>1. CASE manager.encoding
    BY <1>1, <2>1, EmitWaits
  <2>2. CASE ~manager.encoding
    BY <1>1, <2>2, EmitEncodes
  <2> QED
    BY <2>1, <2>2
<1>2. ASSUME NEW j \in jobs, NEW i \in j.left, Binary!BlobRead(j, i) PROVE BinaryInv'
  <2>1. CASE j.left \ {i} # {}
    BY <1>2, <2>1, BlobSteps
  <2>2. CASE j.left \ {i} = {}
    BY <1>2, <2>2, LastBlobSteps
  <2> QED
    BY <2>1, <2>2
<1>3. CASE Binary!Close
  BY <1>3, CloseSteps
<1>4. CASE Binary!Open
  BY <1>4, OpenSteps
<1>5. CASE Binary!AddPacket
  BY <1>5, AddPacketSteps
<1>6. CASE Binary!AddAttachment
  BY <1>6, AddAttachmentSteps
<1>7. CASE UNCHANGED binary
  <2>1. UNCHANGED <<manager, jobs, wire, reconstructor, decoded, history>>
    BY <1>7 DEF binary
  <2> QED
    BY <2>1 DEF BinaryInv, BinaryTyped, Receiving, Queueing, Ordered, Alone, Way, Arrived
<1> QED
  BY <1>1, <1>2, <1>3, <1>4, <1>5, <1>6, <1>7, BinaryAlone DEF Binary!Next

\* An event with binary arguments comes out of the Decoder (takeBinaryData) with
\* its own arguments at their places, though removeBlobs reads the blobs of
\* several packets side by side and connections are lost meanwhile.
THEOREM WholeArguments == Spec => []ArgumentsWhole
<1>1. Init => BinaryInv
  BY BinaryInits
<1>2. BinaryInv /\ [Next]_vars => BinaryInv'
  BY BinarySteps
<1>3. BinaryInv => ArgumentsWhole
  BY BinaryInvSays
<1> QED
  BY <1>1, <1>2, <1>3, PTL DEF Spec

\* Manager.packet and processPacketQueue keep the packets of a connection in the
\* order of their emits, each once, unless a packet of an earlier connection is
\* written on it; and what is in packetBuffer waits for a job of this connection.
THEOREM OrderKept == Spec => []EmittedInOrder
<1>1. Init => BinaryInv
  BY BinaryInits
<1>2. BinaryInv /\ [Next]_vars => BinaryInv'
  BY BinarySteps
<1>3. BinaryInv => EmittedInOrder
  BY BinaryInvSays
<1> QED
  BY <1>1, <1>2, <1>3, PTL DEF Spec
-----------------------------------------------------------------------------
(* The characters of numerals in base 64.                                  *)

CharactersOf(s, n) == {s[i] : i \in 1..n}
Stampable ==
  CharactersOf(Requests!Numeral, 10) \cup CharactersOf(Requests!Upper, 26)
    \cup CharactersOf(Requests!Lower, 26) \cup {"-", "_", "."}

LEMMA NumeralFacts ==
  /\ Requests!Numeral \in Seq(Stampable) /\ Len(Requests!Numeral) = 10
  /\ \A i, j \in 1..10 : Requests!Numeral[i] = Requests!Numeral[j] => i = j
<1>1. Requests!Numeral = [i \in 1..10 |-> Requests!Numeral[i]]
  BY DEF Requests!Numeral
<1>2. Len(Requests!Numeral) = 10
  BY DEF Requests!Numeral
<1>3. \A i, j \in 1..10 : Requests!Numeral[i] = Requests!Numeral[j] => i = j
  BY DEF Requests!Numeral
<1>4. \A i \in 1..10 : Requests!Numeral[i] \in Stampable
  BY DEF Stampable, CharactersOf
<1>5. Requests!Numeral \in [1..10 -> Stampable]
  BY ONLY <1>1, <1>4
<1>6. 10 \in Nat
  OBVIOUS
<1>7. Requests!Numeral \in Seq(Stampable)
  BY ONLY <1>5, <1>6, FunctionIsSeq
<1> QED
  BY ONLY <1>2, <1>3, <1>7

LEMMA UpperFacts ==
  /\ Requests!Upper \in Seq(Stampable) /\ Len(Requests!Upper) = 26
  /\ \A i, j \in 1..26 : Requests!Upper[i] = Requests!Upper[j] => i = j
<1>1. Requests!Upper = [i \in 1..26 |-> Requests!Upper[i]]
  BY DEF Requests!Upper
<1>2. Len(Requests!Upper) = 26
  BY DEF Requests!Upper
<1>3. \A i, j \in 1..26 : Requests!Upper[i] = Requests!Upper[j] => i = j
  BY DEF Requests!Upper
<1>4. \A i \in 1..26 : Requests!Upper[i] \in Stampable
  BY DEF Stampable, CharactersOf
<1>5. Requests!Upper \in [1..26 -> Stampable]
  BY ONLY <1>1, <1>4
<1>6. 26 \in Nat
  OBVIOUS
<1>7. Requests!Upper \in Seq(Stampable)
  BY ONLY <1>5, <1>6, FunctionIsSeq
<1> QED
  BY ONLY <1>2, <1>3, <1>7

LEMMA LowerFacts ==
  /\ Requests!Lower \in Seq(Stampable) /\ Len(Requests!Lower) = 26
  /\ \A i, j \in 1..26 : Requests!Lower[i] = Requests!Lower[j] => i = j
<1>1. Requests!Lower = [i \in 1..26 |-> Requests!Lower[i]]
  BY DEF Requests!Lower
<1>2. Len(Requests!Lower) = 26
  BY DEF Requests!Lower
<1>3. \A i, j \in 1..26 : Requests!Lower[i] = Requests!Lower[j] => i = j
  BY DEF Requests!Lower
<1>4. \A i \in 1..26 : Requests!Lower[i] \in Stampable
  BY DEF Stampable, CharactersOf
<1>5. Requests!Lower \in [1..26 -> Stampable]
  BY ONLY <1>1, <1>4
<1>6. 26 \in Nat
  OBVIOUS
<1>7. Requests!Lower \in Seq(Stampable)
  BY ONLY <1>5, <1>6, FunctionIsSeq
<1> QED
  BY ONLY <1>2, <1>3, <1>7

LEMMA CharactersDiffer ==
  /\ \A i \in 1..26, j \in 1..26 : Requests!Upper[i] # Requests!Lower[j]
  /\ \A i \in 1..26, j \in 1..10 : Requests!Upper[i] # Requests!Numeral[j]
  /\ \A i \in 1..26, j \in 1..10 : Requests!Lower[i] # Requests!Numeral[j]
  /\ \A i \in 1..26 : Requests!Upper[i] \notin {"-", "_", "."}
  /\ \A i \in 1..26 : Requests!Lower[i] \notin {"-", "_", "."}
  /\ \A i \in 1..10 : Requests!Numeral[i] \notin {"-", "_", "."}
BY DEF Requests!Upper, Requests!Lower, Requests!Numeral

LastTwo == <<"-", "_">>

LEMMA LastTwoFacts ==
  /\ LastTwo \in Seq(Stampable) /\ Len(LastTwo) = 2
  /\ \A i, j \in 1..2 : LastTwo[i] = LastTwo[j] => i = j
  /\ \A i \in 1..2 : LastTwo[i] \in {"-", "_"}
<1> DEFINE a == "-"
           b == "_"
<1>1. a \in Stampable /\ b \in Stampable /\ a # b
  BY DEF Stampable
<1>2. LastTwo = <<a, b>>
  BY DEF LastTwo
<1> HIDE DEF a, b
<1>3. <<a, b>> \in Seq(Stampable) /\ Len(<<a, b>>) = 2
  BY ONLY <1>1
<1>4. <<a, b>>[1] = a /\ <<a, b>>[2] = b
  OBVIOUS
<1>5. \A i \in 1..2 : i = 1 \/ i = 2
  OBVIOUS
<1>6. \A i, j \in 1..2 : <<a, b>>[i] = <<a, b>>[j] => i = j
  BY ONLY <1>1, <1>4, <1>5
<1>7. \A i \in 1..2 : <<a, b>>[i] \in {a, b}
  BY ONLY <1>4, <1>5
<1> QED
  BY <1>2, <1>3, <1>6, <1>7 DEF a, b

LEMMA AlphabetIs ==
  LET A == Requests!alphabet IN
  /\ OfLength(A, Stampable, 64)
  /\ \A i \in 1..64 : InRow(A, Requests!Numeral, 0, 10, i) \/ InRow(A, Requests!Upper, 10, 26, i)
                        \/ InRow(A, Requests!Lower, 36, 26, i) \/ InRow(A, LastTwo, 62, 2, i)
<1> DEFINE N == Requests!Numeral
           U == Requests!Upper
           L == Requests!Lower
<1>1. Requests!alphabet = N \o U \o L \o LastTwo
  BY DEF Requests!alphabet, LastTwo
<1>2. /\ OfLength(N, Stampable, 10) /\ OfLength(U, Stampable, 26)
      /\ OfLength(L, Stampable, 26) /\ OfLength(LastTwo, Stampable, 2)
  BY NumeralFacts, UpperFacts, LowerFacts, LastTwoFacts DEF OfLength
<1> DEFINE B == N \o U \o L \o LastTwo
<1> HIDE DEF N, U, L
<1>3. /\ OfLength(B, Stampable, 64)
      /\ \A i \in 1..64 : InRow(B, N, 0, 10, i) \/ InRow(B, U, 10, 26, i)
                            \/ InRow(B, L, 36, 26, i) \/ InRow(B, LastTwo, 62, 2, i)
  BY ONLY <1>2, AlphabetParts
<1>4. Requests!alphabet = B
  BY <1>1
<1> HIDE DEF B
<1>5. /\ OfLength(Requests!alphabet, Stampable, 64)
      /\ \A i \in 1..64 : InRow(Requests!alphabet, N, 0, 10, i)
                            \/ InRow(Requests!alphabet, U, 10, 26, i)
                            \/ InRow(Requests!alphabet, L, 36, 26, i)
                            \/ InRow(Requests!alphabet, LastTwo, 62, 2, i)
  BY <1>3, <1>4
<1> QED
  BY <1>5 DEF N, U, L

\* Each digit has its character, and none is the dot.
LEMMA AlphabetFacts ==
  /\ \A i, j \in 1..64 : Requests!alphabet[i] = Requests!alphabet[j] => i = j
  /\ \A i \in 1..64 : Requests!alphabet[i] \in Stampable /\ Requests!alphabet[i] # "."
<1> DEFINE A == Requests!alphabet
           N == Requests!Numeral
           U == Requests!Upper
           L == Requests!Lower
           XN == CharactersOf(N, 10)
           XU == CharactersOf(U, 26)
           XL == CharactersOf(L, 26)
           XE == CharactersOf(LastTwo, 2)
           Somewhere(i) == \/ InRow(A, N, 0, 10, i) \/ InRow(A, U, 10, 26, i)
                     \/ InRow(A, L, 36, 26, i) \/ InRow(A, LastTwo, 62, 2, i)
           dot == "."
<1>1. XN \cap XU = {} /\ XN \cap XL = {} /\ XN \cap XE = {} /\ XU \cap XL = {}
      /\ XU \cap XE = {} /\ XL \cap XE = {}
  <2>1. XE \subseteq {"-", "_"}
    BY LastTwoFacts, ZenonT(60) DEF CharactersOf
  <2>2. XN \cap XU = {} /\ XN \cap XL = {} /\ XU \cap XL = {}
    BY CharactersDiffer, ZenonT(60) DEF CharactersOf
  <2>3. XN \cap {"-", "_"} = {} /\ XU \cap {"-", "_"} = {} /\ XL \cap {"-", "_"} = {}
    BY CharactersDiffer, ZenonT(60) DEF CharactersOf
  <2> HIDE DEF XN, XU, XL, XE
  <2> QED
    BY ONLY <2>1, <2>2, <2>3
<1>2. dot \notin XN /\ dot \notin XU /\ dot \notin XL /\ dot \notin XE
  BY CharactersDiffer, LastTwoFacts, ZenonT(60) DEF CharactersOf
<1>3. \A i \in 1..64 : Somewhere(i)
  BY AlphabetIs
<1>4. /\ \A i, j \in 1..10 : N[i] = N[j] => i = j
      /\ \A i, j \in 1..26 : U[i] = U[j] => i = j
      /\ \A i, j \in 1..26 : L[i] = L[j] => i = j
      /\ \A i, j \in 1..2 : LastTwo[i] = LastTwo[j] => i = j
  BY NumeralFacts, UpperFacts, LowerFacts, LastTwoFacts
<1>5. \A i \in 1..64 : A[i] \in Stampable
  BY AlphabetIs, ElementOfSeq DEF OfLength
<1> HIDE DEF A, N, U, L, dot
<1>6. \A i : /\ InRow(A, N, 0, 10, i) => A[i] \in XN
             /\ InRow(A, U, 10, 26, i) => A[i] \in XU
             /\ InRow(A, L, 36, 26, i) => A[i] \in XL
             /\ InRow(A, LastTwo, 62, 2, i) => A[i] \in XE
  BY DEF InRow, CharactersOf
<1>7. \A i, j : A[i] = A[j] =>
             /\ InRow(A, N, 0, 10, i) /\ InRow(A, N, 0, 10, j) => i = j
             /\ InRow(A, U, 10, 26, i) /\ InRow(A, U, 10, 26, j) => i = j
             /\ InRow(A, L, 36, 26, i) /\ InRow(A, L, 36, 26, j) => i = j
             /\ InRow(A, LastTwo, 62, 2, i) /\ InRow(A, LastTwo, 62, 2, j) => i = j
  BY <1>4 DEF InRow
<1> HIDE DEF XN, XU, XL, XE
<1>8. ASSUME NEW i \in 1..64, NEW j \in 1..64, A[i] = A[j] PROVE i = j
  <2>1. Somewhere(i) /\ Somewhere(j)
    BY <1>3
  <2> QED
    BY ONLY <1>1, <1>6, <1>7, <1>8, <2>1
<1>9. ASSUME NEW i \in 1..64 PROVE A[i] # dot
  <2>1. Somewhere(i)
    BY <1>3
  <2> QED
    BY ONLY <1>2, <1>6, <2>1
<1> QED
  BY <1>5, <1>8, <1>9 DEF A, dot
-----------------------------------------------------------------------------
(* Texts that are split at a character.                                    *)

\* yeast's encode writes different numbers differently, and no dot.
LEMMA EncodeFacts ==
  ASSUME NEW n \in Nat
  PROVE  /\ Requests!encode(n) \in Seq(Stampable)
         /\ Lacks(Requests!encode(n), ".")
         /\ Len(Requests!encode(n)) = Len(InBase(n, 64))
         /\ \A i \in 1..Len(InBase(n, 64)) :
              Requests!encode(n)[i] = Requests!alphabet[InBase(n, 64)[i] + 1]
<1> DEFINE d == InBase(n, 64)
           e == [i \in DOMAIN d |-> Requests!alphabet[d[i] + 1]]
<1>1. Requests!encode(n) = e
  <2>1. Requests!InBase(n, 64) = InBase(n, 64)
    BY DEF Requests!InBase, InBase
  <2> QED
    BY <2>1 DEF Requests!encode
<1>2. d \in Seq(0..63) /\ Len(d) \in Nat /\ DOMAIN d = 1..Len(d)
  <2>2. d \in Seq(0..63)
    BY DigitsIn64
  <2> HIDE DEF d
  <2> QED
    BY <2>2, LenProperties
<1> DEFINE l == Len(d)
<1> HIDE DEF d
<1>3. \A i \in 1..l : d[i] \in 0..63
  BY <1>2, ElementOfSeq
<1>4. \A i \in 1..l : d[i] + 1 \in 1..64
  BY ONLY <1>3, OneMore
<1>5. \A i \in 1..l : e[i] = Requests!alphabet[d[i] + 1] /\ e[i] \in Stampable /\ e[i] # "."
  BY <1>2, <1>4, AlphabetFacts
<1>6. e \in [1..l -> Stampable]
  BY <1>2, <1>5
<1>7. e \in Seq(Stampable) /\ Len(e) = l
  BY ONLY <1>2, <1>6, FunctionIsSeq
<1> HIDE DEF e
<1>8. Lacks(e, ".")
  BY <1>5, <1>7 DEF Lacks
<1> QED
  BY <1>1, <1>5, <1>7, <1>8 DEF d

LEMMA EncodeOnce ==
  ASSUME NEW n \in Nat, NEW m \in Nat, Requests!encode(n) = Requests!encode(m)
  PROVE  n = m
<1> DEFINE d == InBase(n, 64)
           c == InBase(m, 64)
           A == Requests!alphabet
<1>1. /\ d \in Seq(0..63) /\ c \in Seq(0..63)
      /\ NumberOf(d, 64) = n /\ NumberOf(c, 64) = m
  BY DigitsIn64
<1>2. /\ Len(d) = Len(c)
      /\ \A i \in 1..Len(d) : A[d[i] + 1] = A[c[i] + 1]
  <2> DEFINE e == Requests!encode(n)
  <2>1. /\ Len(e) = Len(d) /\ \A i \in 1..Len(d) : e[i] = A[d[i] + 1]
    BY EncodeFacts
  <2>2. /\ Len(e) = Len(c) /\ \A i \in 1..Len(c) : e[i] = A[c[i] + 1]
    BY EncodeFacts
  <2> HIDE DEF e, d, c, A
  <2> QED
    BY <2>1, <2>2
<1> HIDE DEF d, c, A
<1>3. ASSUME NEW i \in 1..Len(d) PROVE d[i] = c[i]
  <2>1. d[i] \in 0..63 /\ c[i] \in 0..63
    BY <1>1, <1>2, ElementOfSeq
  <2>2. d[i] + 1 \in 1..64 /\ c[i] + 1 \in 1..64
    BY ONLY <2>1, OneMore
  <2>3. d[i] + 1 = c[i] + 1
    BY <1>2, <2>2, AlphabetFacts DEF A
  <2> QED
    BY ONLY <2>1, <2>3, OneMore
<1>4. d = c
  BY <1>1, <1>2, <1>3, SeqEqual
<1> QED
  BY <1>1, <1>4

-----------------------------------------------------------------------------
(* Timestamps.                                                             *)

\* The k-th timestamp, from 0, of the millisecond t.
Mark(t, k) == IF k = 0 THEN Requests!encode(t) ELSE Requests!Seeded(t, k - 1)

LEMMA MarkSplits ==
  ASSUME NEW t \in Nat, NEW k \in Nat, k # 0
  PROVE  Splits(Mark(t, k), Requests!encode(t), ".", Requests!encode(k - 1), Stampable)
<1>1. k - 1 \in Nat
  OBVIOUS
<1>2. Mark(t, k) = Requests!encode(t) \o <<".">> \o Requests!encode(k - 1)
  BY DEF Mark, Requests!Seeded
<1>3. "." \in Stampable
  BY DEF Stampable
<1>4. /\ Requests!encode(t) \in Seq(Stampable) /\ Lacks(Requests!encode(t), ".")
      /\ Requests!encode(k - 1) \in Seq(Stampable)
  BY <1>1, EncodeFacts
<1> QED
  BY <1>2, <1>3, <1>4 DEF Splits

\* Timestamps differ when their milliseconds or their numbers differ.
LEMMA MarkOnce ==
  ASSUME NEW t \in Nat, NEW k \in Nat, NEW u \in Nat, NEW j \in Nat, Mark(t, k) = Mark(u, j)
  PROVE  t = u /\ k = j
<1>1. CASE k = 0 /\ j = 0
  BY <1>1, EncodeOnce DEF Mark
<1>2. CASE k = 0 /\ j # 0
  <2>1. Lacks(Mark(t, k), ".")
    BY <1>2, EncodeFacts DEF Mark
  <2>2. ~Lacks(Mark(u, j), ".")
    BY <1>2, MarkSplits, SplitHas
  <2> QED
    BY <2>1, <2>2
<1>3. CASE k # 0 /\ j = 0
  <2>1. Lacks(Mark(u, j), ".")
    BY <1>3, EncodeFacts DEF Mark
  <2>2. ~Lacks(Mark(t, k), ".")
    BY <1>3, MarkSplits, SplitHas
  <2> QED
    BY <2>1, <2>2
<1>4. CASE k # 0 /\ j # 0
  <2> DEFINE s == Mark(t, k)
  <2>1. /\ Splits(s, Requests!encode(t), ".", Requests!encode(k - 1), Stampable)
        /\ Splits(s, Requests!encode(u), ".", Requests!encode(j - 1), Stampable)
    BY <1>4, MarkSplits
  <2> HIDE DEF s
  <2>2. Requests!encode(t) = Requests!encode(u)
        /\ Requests!encode(k - 1) = Requests!encode(j - 1)
    BY <2>1, SplitOnce
  <2>3. k - 1 \in Nat /\ j - 1 \in Nat
    BY <1>4
  <2>4. t = u /\ k - 1 = j - 1
    BY <2>2, <2>3, EncodeOnce
  <2> QED
    BY <2>3, <2>4
<1> QED
  BY <1>1, <1>2, <1>3, <1>4

\* The timestamp s is of a millisecond before prev, or one of the first of prev.
Earlier(s, prev, seed) ==
  \E t \in Nat, k \in Nat : s = Mark(t, k) /\ (t < prev \/ (t = prev /\ k <= seed))

Different(stamps) == \A i, j \in 1..Len(stamps) : stamps[i] = stamps[j] => i = j

\* While the clock has not been put back, all timestamps differ, and the next
\* one will differ from them.
StampInv ==
  /\ {"prev", "seed", "stamps", "back"} \subseteq DOMAIN requests
  /\ requests.prev \in Nat \cup {-1} /\ requests.seed \in Nat
  /\ requests.stamps \in Seq(Seq(Stampable))
  /\ ~requests.back =>
       /\ Different(requests.stamps)
       /\ \A i \in 1..Len(requests.stamps) :
            Earlier(requests.stamps[i], requests.prev, requests.seed)

LEMMA MarkTyped ==
  ASSUME NEW t \in Nat, NEW k \in Nat
  PROVE  Mark(t, k) \in Seq(Stampable)
<1>1. CASE k = 0
  BY <1>1, EncodeFacts DEF Mark
<1>2. CASE k # 0
  BY <1>2, MarkSplits, SplitFacts
<1> QED
  BY <1>1, <1>2

\* A new timestamp is different from the earlier ones.
LEMMA StampNext ==
  ASSUME NEW stamps \in Seq(Seq(Stampable)), Different(stamps),
         NEW prev \in Nat \cup {-1}, NEW seed \in Nat,
         \A i \in 1..Len(stamps) : Earlier(stamps[i], prev, seed),
         NEW now \in Nat, NEW k \in Nat, (prev < now /\ k = 0) \/ (prev = now /\ k = seed + 1)
  PROVE  LET s == Append(stamps, Mark(now, k)) IN
         /\ Different(s) /\ \A i \in 1..Len(s) : Earlier(s[i], now, k)
<1> DEFINE m == Mark(now, k)
           s == Append(stamps, m)
           n == Len(stamps)
<1>1. m \in Seq(Stampable) /\ n \in Nat
  BY MarkTyped, LenProperties
<1>2. s \in Seq(Seq(Stampable)) /\ Len(s) = n + 1 /\ s[n + 1] = m
      /\ \A i \in 1..n : s[i] = stamps[i]
  BY <1>1, AppendProperties
<1>3. ASSUME NEW i \in 1..n PROVE stamps[i] # m /\ Earlier(stamps[i], now, k)
  <2>1. PICK t \in Nat, j \in Nat : stamps[i] = Mark(t, j) /\ (t < prev \/ (t = prev /\ j <= seed))
    BY DEF Earlier
  <2>2. (t < now \/ (t = now /\ j < k))
    BY <2>1
  <2>3. ~(t = now /\ j = k)
    BY <2>2
  <2>4. stamps[i] # m
    BY <2>1, <2>3, MarkOnce
  <2>5. Earlier(stamps[i], now, k)
    BY <2>1, <2>2 DEF Earlier
  <2> QED
    BY <2>4, <2>5
<1>4. Earlier(m, now, k)
  BY DEF Earlier
<1> HIDE DEF m, s, n
<1>5. \A i \in 1..n + 1 : i \in 1..n \/ i = n + 1
  BY <1>1
<1>6. \A i \in 1..n + 1 : Earlier(s[i], now, k)
  BY <1>2, <1>3, <1>4, <1>5
<1>7. ASSUME NEW i \in 1..n + 1, NEW j \in 1..n + 1, s[i] = s[j] PROVE i = j
  <2>1. CASE i \in 1..n /\ j \in 1..n
    <3>1. stamps[i] = stamps[j]
      BY <1>2, <1>7, <2>1
    <3> QED
      BY <2>1, <3>1 DEF Different, n
  <2>2. CASE i = n + 1 \/ j = n + 1
    BY <1>2, <1>3, <1>5, <1>7, <2>2
  <2> QED
    BY <1>5, <2>1, <2>2
<1> QED
  BY <1>2, <1>6, <1>7 DEF Different, s, m, n

LEMMA StampInits ==
  ASSUME Init
  PROVE  StampInv
<1>1. requests = [option |-> <<>>, binary |-> TRUE, polling |-> <<>>, id |-> <<>>,
                  prev |-> -1, seed |-> 0, stamps |-> <<>>, back |-> FALSE,
                  uri |-> <<>>, transport |-> "polling", method |-> "GET"]
  BY DEF Init, Requests!Init
<1>2. /\ {"prev", "seed", "stamps", "back"} \subseteq DOMAIN requests
      /\ requests.prev = -1 /\ requests.seed = 0 /\ requests.stamps = <<>>
  BY <1>1
<1>3. <<>> \in Seq(Seq(Stampable)) /\ Len(<<>>) = 0 /\ 1..0 = {}
  BY EmptySeq
<1> QED
  BY <1>2, <1>3 DEF StampInv, Different

\* What the fields of requests become, as far as timestamps are concerned.
Stamped(prev, seed, stamps, back) ==
  /\ {"prev", "seed", "stamps", "back"} \subseteq (DOMAIN requests)'
  /\ requests'.prev = prev /\ requests'.seed = seed
  /\ requests'.stamps = stamps /\ requests'.back = back

LEMMA PollStamps ==
  ASSUME StampInv, NEW method, Requests!Poll(method)
  PROVE  \E now \in Nat, k \in Nat :
           /\ k = IF now = requests.prev THEN requests.seed + 1 ELSE 0
           /\ Stamped(now, k, Append(requests.stamps, Mark(now, k)),
                      requests.back \/ now < requests.prev)
<1>1. PICK now \in Times :
        LET again == now = requests.prev
            stamp == IF again THEN Requests!Seeded(now, requests.seed)
                              ELSE Requests!encode(now)
            stamped == Requests!Put(requests.polling, Requests!Key.t, stamp)
            query == IF ~requests.binary /\ requests.id = <<>>
                     THEN Requests!Put(stamped, Requests!Key.b64, <<"1">>) ELSE stamped
        IN  requests' = [requests EXCEPT
                           !.prev = now, !.seed = IF again THEN @ + 1 ELSE 0,
                           !.stamps = Append(@, stamp),
                           !.back = @ \/ now < requests.prev,
                           !.polling = query, !.uri = Requests!Uri(query),
                           !.transport = "polling", !.method = method]
  BY DEF Requests!Poll
<1>2. now \in Nat
  BY TimesAssumption
<1> DEFINE k == IF now = requests.prev THEN requests.seed + 1 ELSE 0
           stamp == IF now = requests.prev THEN Requests!Seeded(now, requests.seed)
                                           ELSE Requests!encode(now)
           stamped == Requests!Put(requests.polling, Requests!Key.t, stamp)
           query == IF ~requests.binary /\ requests.id = <<>>
                    THEN Requests!Put(stamped, Requests!Key.b64, <<"1">>) ELSE stamped
           uri == Requests!Uri(query)
           stamps == Append(requests.stamps, stamp)
           back == requests.back \/ now < requests.prev
<1>3. requests.seed \in Nat
  BY DEF StampInv
<1>4. k \in Nat /\ (k # 0 => now = requests.prev /\ k - 1 = requests.seed)
      /\ (k = 0 => now # requests.prev)
  BY <1>3
<1>5. stamp = Mark(now, k)
  <2> DEFINE a == Requests!Seeded(now, requests.seed)
             b == Requests!encode(now)
  <2>1. stamp = (IF now = requests.prev THEN a ELSE b)
    OBVIOUS
  <2>2. Mark(now, k) = (IF k = 0 THEN b ELSE Requests!Seeded(now, k - 1))
    BY DEF Mark
  <2> HIDE DEF k, stamp
  <2> QED
    BY <1>4, <2>1, <2>2
<1>6. requests' = [requests EXCEPT
                     !.prev = now, !.seed = k, !.stamps = stamps, !.back = back,
                     !.polling = query, !.uri = uri,
                     !.transport = "polling", !.method = method]
  BY <1>1
<1> HIDE DEF stamps, query, uri, back, stamp, k
<1>7. Stamped(now, k, stamps, back)
  BY <1>6 DEF StampInv, Stamped
<1> QED
  BY <1>2, <1>4, <1>5, <1>7 DEF stamps, back, k

LEMMA OtherStamps ==
  ASSUME StampInv, Requests!Open \/ Requests!Handshake \/ Requests!Probe
  PROVE  Stamped(requests.prev, requests.seed, requests.stamps, requests.back)
<1>1. CASE Requests!Open
  BY <1>1 DEF Requests!Open, StampInv, Stamped
<1>2. CASE Requests!Handshake
  BY <1>2 DEF Requests!Handshake, StampInv, Stamped
<1>3. CASE Requests!Probe
  BY <1>3 DEF Requests!Probe, StampInv, Stamped
<1> QED
  BY <1>1, <1>2, <1>3

LEMMA ClockMoves ==
  ASSUME NEW prev \in Nat \cup {-1}, NEW now \in Nat, NEW seed \in Nat, ~(now < prev),
         NEW k, k = IF now = prev THEN seed + 1 ELSE 0
  PROVE  (prev < now /\ k = 0) \/ (prev = now /\ k = seed + 1)
<1>1. prev \in Int
  OBVIOUS
<1>2. CASE now = prev
  BY <1>2
<1>3. CASE now # prev
  <2>1. k = 0
    BY <1>3
  <2>2. prev < now
    BY ONLY <1>1, <1>3, now \in Nat, ~(now < prev)
  <2> QED
    BY <2>1, <2>2
<1> QED
  BY <1>2, <1>3

LEMMA StampSteps ==
  ASSUME StampInv, [Next]_vars
  PROVE  StampInv'
<1>1. Requests!Next \/ UNCHANGED requests
  BY DEF Next, vars, RequestsRest
<1>2. ASSUME NEW method, Requests!Poll(method) PROVE StampInv'
  <2>1. PICK now \in Nat, k \in Nat :
           /\ k = IF now = requests.prev THEN requests.seed + 1 ELSE 0
           /\ Stamped(now, k, Append(requests.stamps, Mark(now, k)),
                      requests.back \/ now < requests.prev)
    BY <1>2, PollStamps
  <2> DEFINE m == Mark(now, k)
             s == Append(requests.stamps, m)
  <2>2. m \in Seq(Stampable) /\ s \in Seq(Seq(Stampable))
    BY MarkTyped, AppendProperties DEF StampInv
  <2>3. ASSUME ~requests.back, ~(now < requests.prev)
        PROVE  Different(s) /\ \A i \in 1..Len(s) : Earlier(s[i], now, k)
    <3>1. (requests.prev < now /\ k = 0)
              \/ (requests.prev = now /\ k = requests.seed + 1)
      <4>1. /\ requests.prev \in Nat \cup {-1} /\ now \in Nat /\ requests.seed \in Nat
            /\ ~(now < requests.prev)
            /\ k = IF now = requests.prev THEN requests.seed + 1 ELSE 0
        BY <2>1, <2>3 DEF StampInv
      <4> QED
        BY ONLY <4>1, ClockMoves
    <3> QED
      BY <2>3, <3>1, StampNext DEF StampInv
  <2> HIDE DEF s, m
  <2>4. /\ {"prev", "seed", "stamps", "back"} \subseteq (DOMAIN requests)'
        /\ requests'.prev = now /\ requests'.seed = k /\ requests'.stamps = s
        /\ requests'.back = (requests.back \/ now < requests.prev)
    BY <2>1 DEF s, m, Stamped
  <2> QED
    BY <2>2, <2>3, <2>4 DEF StampInv
<1>3. CASE Requests!Open \/ Requests!Handshake \/ Requests!Probe
  BY <1>3, OtherStamps DEF StampInv, Stamped
<1>4. CASE UNCHANGED requests
  BY <1>4 DEF StampInv
<1> QED
  BY <1>1, <1>2, <1>3, <1>4 DEF Requests!Next

LEMMA StampsInjective ==
  ASSUME StampInv
  PROVE  UrisDistinct
<1>1. CASE requests.back
  BY <1>1 DEF UrisDistinct, Requests!UrisDistinct
<1>2. CASE ~requests.back
  <2> DEFINE s == requests.stamps
  <2>1. Different(s) /\ DOMAIN s = 1..Len(s)
    BY <1>2, LenProperties DEF StampInv
  <2>2. \A i, j \in DOMAIN s : s[i] = s[j] => i = j
    BY <2>1 DEF Different
  <2> QED
    BY <2>2 DEF UrisDistinct, Requests!UrisDistinct, Requests!IsInjective
<1> QED
  BY <1>1, <1>2

\* Whatever the clock shows, as long as it is not put back: yeast, with the seed
\* for the requests of one millisecond and the dot in front of it, never returns
\* a timestamp twice, so no two polling requests of a page have the same URI.
THEOREM StampsDiffer == Spec => []UrisDistinct
<1>1. Init => StampInv
  BY StampInits
<1>2. StampInv /\ [Next]_vars => StampInv'
  BY StampSteps
<1>3. StampInv => UrisDistinct
  BY StampsInjective
<1> QED
  BY <1>1, <1>2, <1>3, PTL DEF Spec

-----------------------------------------------------------------------------
(* Where a character is.                                                   *)

LEMMA IndexIs ==
  ASSUME NEW s, NEW c
  PROVE  Payloads!Index(s, c) = IndexOf(s, c)
BY DEF Payloads!Index, Payloads!SelectInSeq, Payloads!Passing, Payloads!Min, IndexOf, Places, First

-----------------------------------------------------------------------------
(* Texts that are read piece by piece, from the front.                     *)

Message == [type : Nat, body : Seq(Nat)]

LEMMA AfterTyped ==
  ASSUME NEW S, NEW s \in Seq(S), NEW i \in Nat
  PROVE  /\ Payloads!After(s, i) \in Seq(S)
         /\ i \in 1..Len(s) => Len(Payloads!After(s, i)) < Len(s)
         /\ i >= Len(s) => Payloads!After(s, i) = <<>>
<1> DEFINE n == Len(s)
           t == SubSeq(s, i + 1, n)
<1>1. n \in Nat /\ \A k \in i + 1..n : s[k] \in S
  BY LenProperties, ElementOfSeq
<1> HIDE DEF n
<1>2. /\ t \in Seq(S) /\ Len(t) = IF i + 1 <= n THEN n - (i + 1) + 1 ELSE 0
  BY <1>1, SubSeqProperties
<1> HIDE DEF t
<1>3. i \in 1..n => Len(t) < n
  BY <1>1, <1>2
<1>4. i >= n => t = <<>>
  BY <1>1, <1>2, EmptySeq
<1> QED
  BY <1>2, <1>3, <1>4 DEF t, n, Payloads!After

LEMMA SliceTyped ==
  ASSUME NEW S, NEW s \in Seq(S), NEW i \in Nat, NEW n \in Nat
  PROVE  Payloads!Slice(s, i, n) \in Seq(S)
<1> DEFINE l == Len(s)
           e == IF i + n > l THEN l ELSE i + n
<1>1. l \in Nat /\ e \in Nat /\ e <= l
  BY LenProperties
<1>2. \A k \in i + 1..e : s[k] \in S
  <2>1. \A k \in i + 1..e : k \in 1..l
    BY <1>1
  <2> QED
    BY <2>1, ElementOfSeq
<1> HIDE DEF l, e
<1>3. SubSeq(s, i + 1, e) \in Seq(S)
  BY <1>1, <1>2, SubSeqProperties
<1> QED
  BY <1>3 DEF Payloads!Slice, e, l

LEMMA PacketsTyped ==
  ASSUME NEW m \in Seq(Nat)
  PROVE  Payloads!Packets(m) \in Seq(Message)
<1>1. CASE m = <<>>
  BY <1>1, EmptySeq DEF Payloads!Packets
<1>2. CASE m # <<>>
  <2>1. Tail(m) \in Seq(Nat)
    BY <1>2, HeadTailProperties
  <2>2. m[1] \in Nat
    <3>1. Len(m) \in Nat /\ Len(m) # 0
      BY <1>2, EmptySeq, LenProperties
    <3>2. 1 \in 1..Len(m)
      BY <3>1
    <3> QED
      BY <3>2, ElementOfSeq
  <2>3. Payloads!DecodePacket(m) \in Message
    BY <2>1, <2>2 DEF Payloads!DecodePacket, Payloads!Zero, Message
  <2> DEFINE p == Payloads!DecodePacket(m)
  <2> HIDE DEF p
  <2>4. <<p>> \in Seq(Message)
    BY <2>3 DEF p
  <2> QED
    BY <1>2, <2>4 DEF Payloads!Packets, p
<1> QED
  BY <1>1, <1>2

\* F makes nothing of a text in Stop; of another the packet in the n[d] characters
\* after the at[d]-th, and then what it makes of the rest.
Reader(F, Stop, at, n) ==
  \A d \in Seq(Nat) :
    F[d] = IF d \in Stop THEN <<>>
           ELSE Payloads!Packets(Payloads!Slice(d, at[d], n[d]))
                  \o F[Payloads!After(d, at[d] + n[d])]

LEMMA ReaderExists ==
  ASSUME NEW Stop, NEW at \in [Seq(Nat) -> Nat], NEW n \in [Seq(Nat) -> Nat],
         \A d \in Seq(Nat) : d \in Stop \/ at[d] \in 1..Len(d)
  PROVE  \E F \in [Seq(Nat) -> Seq(Message)] : Reader(F, Stop, at, n)
<1> DEFINE D == Seq(Nat)
           V == Seq(Message)
           size == [d \in D |-> Len(d)]
           none == [d \in D |-> <<>>]
           found == [d \in D |-> Payloads!Packets(Payloads!Slice(d, at[d], n[d]))]
           next == [d \in D |-> Payloads!After(d, at[d] + n[d])]
           st == [d \in D |-> [v \in V |-> found[d] \o v]]
<1>1. size \in [D -> Nat]
  BY LenProperties
<1>2. none \in [D -> V]
  <2>1. <<>> \in V
    BY EmptySeq
  <2> QED
    BY <2>1
<1>3. \A d \in D : at[d] \in Nat /\ n[d] \in Nat /\ at[d] + n[d] \in Nat
  OBVIOUS
<1>4. found \in [D -> V]
  <2>1. ASSUME NEW d \in D PROVE Payloads!Packets(Payloads!Slice(d, at[d], n[d])) \in V
    BY <1>3, SliceTyped, PacketsTyped
  <2> QED
    BY <2>1
<1>5. next \in [D -> D]
  <2>1. ASSUME NEW d \in D PROVE Payloads!After(d, at[d] + n[d]) \in D
    BY <1>3, AfterTyped
  <2> QED
    BY <2>1
<1>6. st \in [D -> [V -> V]]
  <2>1. \A d \in D, v \in V : found[d] \o v \in V
    BY <1>4, ConcatProperties
  <2> HIDE DEF found, D, V
  <2> QED
    BY <2>1
<1>7. ASSUME NEW d \in D, d \notin Stop PROVE size[next[d]] < size[d]
  <2> DEFINE k == at[d] + n[d]
  <2>1. k \in Nat /\ k >= 1 /\ Len(d) \in Nat /\ Len(d) >= 1
    BY <1>3, <1>7, LenProperties
  <2>2. Len(Payloads!After(d, k)) < Len(d)
    <3>1. CASE k <= Len(d)
      <4>1. k \in 1..Len(d)
        BY <2>1, <3>1
      <4> HIDE DEF k
      <4> QED
        BY <2>1, <4>1, AfterTyped
    <3>2. CASE ~(k <= Len(d))
      <4>1. k >= Len(d)
        BY <2>1, <3>2
      <4> HIDE DEF k
      <4>2. Payloads!After(d, k) = <<>>
        BY <2>1, <4>1, AfterTyped
      <4> QED
        BY <2>1, <4>2, EmptySeq
    <3> QED
      BY <3>1, <3>2
  <2>3. next[d] = Payloads!After(d, k) /\ next[d] \in D
    BY <1>5
  <2> QED
    BY <2>2, <2>3
<1>8. /\ \A d \in D, v \in V : st[d][v] = found[d] \o v
      /\ \A d \in D : found[d] = Payloads!Packets(Payloads!Slice(d, at[d], n[d]))
      /\ \A d \in D : next[d] = Payloads!After(d, at[d] + n[d])
      /\ \A d \in D : none[d] = <<>>
  OBVIOUS
<1> HIDE DEF V, size, none, found, next, st
<1>9. Descends(D, V, size, Stop, none, next, st)
  <2>1. \A d \in D : d \in Stop \/ size[next[d]] < size[d]
    BY <1>7
  <2> HIDE DEF D
  <2> QED
    BY <1>1, <1>2, <1>5, <1>6, <2>1 DEF Descends
<1>10. PICK F \in [D -> V] : Solves(F, D, Stop, none, next, st)
  BY <1>9, SizeRecursion
<1>11. ASSUME NEW d \in D
       PROVE  F[d] = IF d \in Stop THEN <<>>
                     ELSE Payloads!Packets(Payloads!Slice(d, at[d], n[d]))
                            \o F[Payloads!After(d, at[d] + n[d])]
  <2>1. F[d] = IF d \in Stop THEN none[d] ELSE st[d][F[next[d]]]
    BY <1>10 DEF Solves
  <2>2. next[d] \in D /\ F[next[d]] \in V
    BY <1>5, <1>10
  <2>3. st[d][F[next[d]]] = found[d] \o F[next[d]]
    BY <1>8, <2>2
  <2> QED
    BY <1>8, <2>1, <2>3
<1>12. Reader(F, Stop, at, n)
  BY <1>11 DEF Reader
<1> QED
  BY <1>10, <1>12 DEF V

\* What a reader makes of a text is a sequence of packets.
LEMMA ReaderTyped ==
  ASSUME NEW Stop, NEW at \in [Seq(Nat) -> Nat], NEW n \in [Seq(Nat) -> Nat],
         \A d \in Seq(Nat) : d \in Stop \/ at[d] \in 1..Len(d),
         NEW F, Reader(F, Stop, at, n), NEW e \in Seq(Nat)
  PROVE  F[e] \in Seq(Message)
<1> DEFINE V == Seq(Message)
           T == {m \in Nat : \A d \in Seq(Nat) : Len(d) <= m => F[d] \in V}
<1>1. ASSUME NEW d \in Seq(Nat), d \notin Stop,
             F[Payloads!After(d, at[d] + n[d])] \in V
      PROVE  F[d] \in V
  <2> DEFINE p == Payloads!Packets(Payloads!Slice(d, at[d], n[d]))
             t == F[Payloads!After(d, at[d] + n[d])]
  <2>1. p \in V
    BY SliceTyped, PacketsTyped
  <2>2. F[d] = p \o t
    BY <1>1 DEF Reader
  <2>3. t \in V
    BY <1>1
  <2> HIDE DEF p, t, V
  <2>4. p \o t \in V
    BY ONLY <2>1, <2>3, ConcatProperties DEF V
  <2> QED
    BY <2>2, <2>4
<1>2. ASSUME NEW d \in Seq(Nat), d \in Stop
      PROVE  F[d] \in V
  <2>1. F[d] = <<>>
    BY <1>2 DEF Reader
  <2> QED
    BY <2>1, EmptySeq
<1>3. ASSUME NEW d \in Seq(Nat), d \notin Stop
      PROVE  /\ Payloads!After(d, at[d] + n[d]) \in Seq(Nat)
             /\ Len(d) \in Nat /\ Len(Payloads!After(d, at[d] + n[d])) \in Nat
             /\ Len(Payloads!After(d, at[d] + n[d])) < Len(d)
  <2> DEFINE k == at[d] + n[d]
             t == Payloads!After(d, k)
             l == Len(d)
  <2>1. k \in Nat /\ k >= 1 /\ l \in Nat /\ l >= 1
    BY <1>3, LenProperties
  <2> HIDE DEF k
  <2>2. t \in Seq(Nat) /\ Len(t) \in Nat
    BY <2>1, AfterTyped, LenProperties
  <2>3. CASE k <= l
    <3>1. k \in 1..Len(d)
      BY <2>1, <2>3
    <3> QED
      BY <2>1, <2>2, <3>1, AfterTyped DEF k
  <2>4. CASE ~(k <= l)
    <3>1. k >= Len(d)
      BY <2>1, <2>4
    <3>2. t = <<>>
      BY <2>1, <3>1, AfterTyped
    <3> QED
      BY <2>1, <2>2, <3>2, EmptySeq DEF k
  <2> QED
    BY <2>3, <2>4
<1>4. 0 \in T
  <2> SUFFICES ASSUME NEW d \in Seq(Nat), Len(d) <= 0 PROVE F[d] \in V
    OBVIOUS
  <2>1. CASE d \in Stop
    BY <1>2, <2>1
  <2>2. CASE d \notin Stop
    BY <1>3, <2>2
  <2> QED
    BY <2>1, <2>2
<1>5. ASSUME NEW m \in T PROVE m + 1 \in T
  <2> SUFFICES ASSUME NEW d \in Seq(Nat), Len(d) <= m + 1 PROVE F[d] \in V
    OBVIOUS
  <2>1. CASE d \in Stop
    BY <1>2, <2>1
  <2>2. CASE d \notin Stop
    <3> DEFINE t == Payloads!After(d, at[d] + n[d])
    <3>1. t \in Seq(Nat) /\ Len(d) \in Nat /\ Len(t) \in Nat /\ Len(t) < Len(d) /\ m \in Nat
      BY <1>3, <2>2
    <3>2. Len(t) <= m
      BY <3>1
    <3>3. F[t] \in V
      BY <3>1, <3>2
    <3> QED
      BY <1>1, <2>2, <3>3
  <2> QED
    BY <2>1, <2>2
<1>6. T = Nat
  <2> HIDE DEF T
  <2>1. T \in SUBSET Nat
    BY DEF T
  <2> QED
    BY <1>4, <1>5, <2>1, NumberInduction
<1>7. Len(e) \in Nat /\ Len(e) <= Len(e)
  BY LenProperties
<1> QED
  BY <1>6, <1>7

\* d is a, then c, which is not in a, then p, then r.
Parts(d, a, c, p, r) ==
  /\ a \in Seq(Nat) /\ p \in Seq(Nat) /\ r \in Seq(Nat) /\ c \in Nat /\ Lacks(a, c)
  /\ d = ((a \o <<c>>) \o p) \o r

LEMMA PartsFacts ==
  ASSUME NEW d, NEW a, NEW c, NEW p, NEW r, Parts(d, a, c, p, r)
  PROVE  /\ d \in Seq(Nat) /\ IndexOf(d, c) = Len(a) + 1
         /\ Len(a) \in Nat /\ Len(p) \in Nat /\ Len(d) \in Nat
         /\ (Len(a) + 1) + Len(p) <= Len(d)
         /\ \A k \in 1..Len(a) : d[k] = a[k]
         /\ Payloads!Slice(d, Len(a) + 1, Len(p)) = p
         /\ Payloads!After(d, (Len(a) + 1) + Len(p)) = r
<1> DEFINE h == a \o <<c>>
           q == p \o r
           l == Len(a)
           m == Len(p)
           z == Len(r)
           s == (h \o p) \o r
<1>1. a \in Seq(Nat) /\ p \in Seq(Nat) /\ r \in Seq(Nat) /\ c \in Nat /\ Lacks(a, c) /\ d = s
  BY DEF Parts
<1>2. l \in Nat /\ m \in Nat /\ z \in Nat
  BY <1>1, LenProperties
<1>3. h \in Seq(Nat) /\ Len(h) = l + 1 /\ q \in Seq(Nat)
  <2>1. <<c>> \in Seq(Nat) /\ Len(<<c>>) = 1
    BY <1>1
  <2> HIDE DEF l
  <2> QED
    BY <1>1, <2>1, ConcatProperties DEF l
<1>4. Splits(d, a, c, q, Nat)
  <2>1. d = h \o q
    <3>1. Triple(Nat, h, p, r)
      BY <1>1, <1>3 DEF Triple
    <3> HIDE DEF h
    <3> QED
      BY <1>1, <3>1, Associate
  <2> QED
    BY <1>1, <1>3, <2>1 DEF Splits
<1>5. d \in Seq(Nat) /\ \A k \in 1..l : d[k] = a[k]
  BY <1>4, SplitFacts
<1>6. IndexOf(d, c) = l + 1
  BY <1>4, IndexSplit
<1>7. /\ Len(s) = Len(h) + m + z
      /\ SubSeq(s, Len(h) + 1, Len(h) + m) = p
      /\ SubSeq(s, Len(h) + m + 1, Len(h) + m + z) = r
  BY <1>1, <1>3, ThreeParts
<1> HIDE DEF s, h, l, m, z, q
<1>8. Len(d) = (l + 1) + m + z /\ SubSeq(d, (l + 1) + 1, (l + 1) + m) = p
      /\ SubSeq(d, (l + 1) + m + 1, Len(d)) = r
  BY <1>1, <1>3, <1>7
<1>9. Len(d) \in Nat /\ (l + 1) + m <= Len(d) /\ ~((l + 1) + m > Len(d))
  BY <1>2, <1>8
<1>10. Payloads!Slice(d, l + 1, m) = p
  BY <1>8, <1>9 DEF Payloads!Slice
<1>11. Payloads!After(d, (l + 1) + m) = r
  BY <1>8 DEF Payloads!After
<1> QED
  BY <1>2, <1>5, <1>6, <1>9, <1>10, <1>11 DEF l, m

-----------------------------------------------------------------------------
(* What payloads are made of.                                              *)

LEMMA DigitsIn10 ==
  ASSUME NEW n \in Nat
  PROVE  /\ Payloads!Digits(n) \in Seq(0..9) /\ Payloads!Digits(n) \in Seq(Nat)
         /\ Payloads!Digits(n) # <<>> /\ NumberOf(Payloads!Digits(n), 10) = n
<1> DEFINE b == 10
<1>1. b \in Base /\ b - 1 = 9
  BY DEF Base
<1>2. Payloads!Digits(n) = InBase(n, b)
  BY DEF Payloads!Digits, Payloads!InBase, InBase
<1> HIDE DEF b
<1>3. /\ InBase(n, b) \in Seq(0..b - 1) /\ InBase(n, b) \in Seq(Nat)
      /\ InBase(n, b) # <<>> /\ NumberOf(InBase(n, b), b) = n
  BY <1>1, DigitsRead
<1> QED
  BY <1>1, <1>2, <1>3 DEF b

LEMMA SingleDigit ==
  ASSUME NEW n \in 1..6
  PROVE  Payloads!Digits(n) = <<n>>
<1>1. 10 \in Base /\ n \in Nat /\ n < 10
  BY DEF Base
<1>2. InBase(n, 10) = <<n>>
  BY <1>1, InBaseFacts
<1> QED
  BY <1>2 DEF Payloads!Digits, Payloads!InBase, InBase

LEMMA NumeralDigits ==
  ASSUME NEW n \in Nat
  PROVE  /\ Payloads!IntToString(n) \in Seq(Nat)
         /\ Len(Payloads!IntToString(n)) = Len(Payloads!Digits(n))
         /\ Len(Payloads!Digits(n)) \in Nat
         /\ Len(Payloads!Digits(n)) >= 1
         /\ \A i \in 1..Len(Payloads!Digits(n)) :
              /\ Payloads!Digits(n)[i] \in 0..9
              /\ Payloads!IntToString(n)[i] = 48 + Payloads!Digits(n)[i]
         /\ Lacks(Payloads!IntToString(n), 58)
<1> DEFINE d == Payloads!Digits(n)
           s == [i \in DOMAIN d |-> 48 + d[i]]
           l == Len(d)
<1>1. Payloads!IntToString(n) = s
  BY DEF Payloads!IntToString, Payloads!Zero
<1>2. d \in Seq(0..9) /\ d # <<>>
  BY DigitsIn10
<1> HIDE DEF d
<1>3. l \in Nat /\ l # 0 /\ DOMAIN d = 1..l /\ \A i \in 1..l : d[i] \in 0..9
  BY <1>2, LenProperties, ElementOfSeq, EmptySeq
<1>4. \A i \in 1..l : 48 + d[i] \in Nat /\ 48 + d[i] # 58
  BY <1>3
<1>5. s \in [1..l -> Nat] /\ \A i \in 1..l : s[i] = 48 + d[i]
  BY <1>3, <1>4
<1> HIDE DEF s
<1>6. s \in Seq(Nat) /\ Len(s) = l
  BY <1>3, <1>5, FunctionIsSeq
<1>7. Lacks(s, 58)
  BY <1>4, <1>5, <1>6 DEF Lacks
<1>8. l >= 1
  BY <1>3
<1> QED
  BY <1>1, <1>3, <1>5, <1>6, <1>7, <1>8 DEF d

\* The packets there are, with any contents.
AnyPacket == [type : 1..6, body : Seq(Nat), raw : BOOLEAN]

LEMMA PacketShape ==
  ASSUME NEW p \in AnyPacket
  PROVE  p.type \in 1..6 /\ p.body \in Seq(Nat) /\ p.raw \in BOOLEAN
BY DEF AnyPacket

LEMMA QueuedShape ==
  ASSUME NEW p \in Payloads!Packet
  PROVE  p \in AnyPacket
<1>1. CASE p \in [type : Types, body : Texts, raw : {FALSE}]
  BY <1>1, PayloadsAssumption DEF AnyPacket
<1>2. CASE p \in [type : {4}, body : Blobs, raw : {TRUE}]
  <2>1. Blobs \subseteq Seq(Nat)
    BY PayloadsAssumption
  <2>2. 4 \in 1..6
    OBVIOUS
  <2> QED
    BY ONLY <1>2, <2>1, <2>2 DEF AnyPacket
<1> QED
  BY <1>1, <1>2 DEF Payloads!Packet

\* What a packet is without its kind of contents.
Strip == [p \in AnyPacket |-> [type |-> p.type, body |-> p.body]]

LEMMA StripTyped == Mapping(Strip, AnyPacket, Message)
<1>1. \A p \in AnyPacket : [type |-> p.type, body |-> p.body] \in Message
  BY PacketShape DEF Message
<1> QED
  BY <1>1 DEF Strip, Mapping

LEMMA StrippedIs ==
  ASSUME NEW q \in Seq(AnyPacket)
  PROVE  Payloads!Stripped(q) = Image(Strip, q)
<1>1. DOMAIN q = 1..Len(q) /\ \A i \in 1..Len(q) : q[i] \in AnyPacket
  BY LenProperties, ElementOfSeq
<1> QED
  BY <1>1 DEF Payloads!Stripped, Image, Strip

\* A text that starts with a type is the packet again.
LEMMA PacketRead ==
  ASSUME NEW t \in Nat, NEW c \in Nat, NEW b \in Seq(Nat),
         (c = t /\ t <= 48) \/ (c = 48 + t /\ t > 0)
  PROVE  /\ <<c>> \o b \in Seq(Nat) /\ <<c>> \o b # <<>>
         /\ Payloads!DecodePacket(<<c>> \o b) = [type |-> t, body |-> b]
<1> DEFINE s == <<c>> \o b
<1>1. Tail(s) = b /\ s # <<>> /\ Head(s) = c
  BY HeadTailOne
<1>2. s \in Seq(Nat)
  BY ConcatProperties
<1> HIDE DEF s
<1>3. s[1] = c
  BY <1>1, <1>2
<1>4. (IF s[1] > 48 THEN s[1] - 48 ELSE s[1]) = t
  <2>1. (IF c > 48 THEN c - 48 ELSE c) = t
    OBVIOUS
  <2> QED
    BY <1>3, <2>1
<1>5. Payloads!DecodePacket(s) = [type |-> t, body |-> b]
  BY <1>1, <1>4 DEF Payloads!DecodePacket, Payloads!Zero
<1> QED
  BY <1>1, <1>2, <1>5 DEF s

LEMMA EncodedRead ==
  ASSUME NEW p \in AnyPacket
  PROVE  LET e == Payloads!EncodePacket(p) IN
         e \in Seq(Nat) /\ e # <<>> /\ Payloads!DecodePacket(e) = Strip[p]
<1> DEFINE t == p.type
           b == p.body
           c == 48 + t
<1>1. t \in 1..6 /\ b \in Seq(Nat)
  BY PacketShape
<1>2. Payloads!Digits(t) = <<t>>
  BY <1>1, SingleDigit
<1>3. Payloads!IntToString(t) = <<c>>
  BY <1>2 DEF Payloads!IntToString, Payloads!Zero
<1>4. Payloads!EncodePacket(p) = <<c>> \o b /\ Strip[p] = [type |-> t, body |-> b]
  BY <1>3 DEF Payloads!EncodePacket, Strip
<1>5. t \in Nat /\ c \in Nat /\ c = 48 + t /\ t > 0
  BY <1>1
<1> HIDE DEF t, b, c
<1> QED
  BY <1>1, <1>4, <1>5, PacketRead

LEMMA ClientPacketRead ==
  ASSUME NEW p \in AnyPacket
  PROVE  LET e == Payloads!ClientPacket(p) IN
         e \in Seq(Nat) /\ e # <<>> /\ Payloads!DecodePacket(e) = Strip[p]
<1>1. CASE p.raw
  <2> DEFINE t == p.type
             b == p.body
  <2>1. Payloads!ClientPacket(p) = <<t>> \o b /\ Strip[p] = [type |-> t, body |-> b]
    BY <1>1 DEF Payloads!ClientPacket, Strip
  <2>2. b \in Seq(Nat) /\ t \in Nat /\ t <= 48
    BY PacketShape
  <2> HIDE DEF t, b
  <2> QED
    BY <2>1, <2>2, PacketRead
<1>2. CASE ~p.raw
  <2>1. Payloads!ClientPacket(p) = Payloads!EncodePacket(p)
    BY <1>2 DEF Payloads!ClientPacket, Payloads!EncodePacket
  <2> QED
    BY <2>1, EncodedRead
<1> QED
  BY <1>1, <1>2

-----------------------------------------------------------------------------
(* The client reads textual payloads.                                      *)

\* The recursion of decodePayload.
ReadsBy(f) ==
  f = [d \in Seq(Nat) |->
        LET i == Payloads!Index(d, Payloads!Colon)
            length == [k \in 1..i - 1 |-> d[k] - Payloads!Zero]
            n == Payloads!ClientNumber(length)
        IN  IF i <= 1 \/ ~(Payloads!Range(length) \subseteq 0..9) \/ i + n > Len(d)
            THEN <<>>
            ELSE Payloads!Packets(Payloads!Slice(d, i, n)) \o f[Payloads!After(d, i + n)]]

LEMMA ClientReadsIs ==
  ASSUME NEW data
  PROVE  Payloads!ClientReads(data) = (CHOOSE f : ReadsBy(f))[data]
BY DEF Payloads!ClientReads, ReadsBy

LengthOf(d) == [k \in 1..IndexOf(d, 58) - 1 |-> d[k] - 48]
TextStop == {d \in Seq(Nat) : \/ IndexOf(d, 58) <= 1
                              \/ ~(Payloads!Range(LengthOf(d)) \subseteq 0..9)
                              \/ IndexOf(d, 58) + NumberOf(LengthOf(d), 10) > Len(d)}
TextAt == [d \in Seq(Nat) |-> IndexOf(d, 58)]
TextLength == [d \in Seq(Nat) |-> IF d \in TextStop THEN 0 ELSE NumberOf(LengthOf(d), 10)]

LEMMA ReadsByIs ==
  ASSUME NEW f
  PROVE  ReadsBy(f) <=>
           f = [d \in Seq(Nat) |->
                 IF d \in TextStop THEN <<>>
                 ELSE Payloads!Packets(Payloads!Slice(d, TextAt[d], TextLength[d]))
                        \o f[Payloads!After(d, TextAt[d] + TextLength[d])]]
<1> DEFINE one(d) ==
             LET i == Payloads!Index(d, Payloads!Colon)
                 length == [k \in 1..i - 1 |-> d[k] - Payloads!Zero]
                 n == Payloads!ClientNumber(length)
             IN  IF i <= 1 \/ ~(Payloads!Range(length) \subseteq 0..9) \/ i + n > Len(d)
                 THEN <<>>
                 ELSE Payloads!Packets(Payloads!Slice(d, i, n))
                        \o f[Payloads!After(d, i + n)]
           two(d) ==
             IF d \in TextStop THEN <<>>
             ELSE Payloads!Packets(Payloads!Slice(d, TextAt[d], TextLength[d]))
                    \o f[Payloads!After(d, TextAt[d] + TextLength[d])]
<1>1. ASSUME NEW d \in Seq(Nat) PROVE one(d) = two(d)
  <2> DEFINE i == IndexOf(d, 58)
             n == NumberOf(LengthOf(d), 10)
             stop == i <= 1 \/ ~(Payloads!Range(LengthOf(d)) \subseteq 0..9) \/ i + n > Len(d)
             rest(j, m) == Payloads!Packets(Payloads!Slice(d, j, m))
                             \o f[Payloads!After(d, j + m)]
  <2>1. one(d) = IF stop THEN <<>> ELSE rest(i, n)
    <3>1. Payloads!Index(d, Payloads!Colon) = i
      BY IndexIs DEF Payloads!Colon
    <3>2. [k \in 1..i - 1 |-> d[k] - Payloads!Zero] = LengthOf(d)
      BY DEF LengthOf, Payloads!Zero
    <3>3. Payloads!ClientNumber(LengthOf(d)) = n
      BY DEF Payloads!ClientNumber, Payloads!NumberOf, NumberOf
    <3> QED
      BY <3>1, <3>2, <3>3
  <2>2. d \in TextStop <=> stop
    BY DEF TextStop
  <2>3. TextAt[d] = i /\ TextLength[d] = IF d \in TextStop THEN 0 ELSE n
    BY DEF TextAt, TextLength
  <2>4. two(d) = IF d \in TextStop THEN <<>> ELSE rest(TextAt[d], TextLength[d])
    OBVIOUS
  <2> HIDE DEF one, two, stop, rest, i, n
  <2> QED
    BY <2>1, <2>2, <2>3, <2>4
<1>2. [d \in Seq(Nat) |-> one(d)] = [d \in Seq(Nat) |-> two(d)]
  <2> HIDE DEF one, two
  <2> QED
    BY <1>1
<1>3. ReadsBy(f) <=> f = [d \in Seq(Nat) |-> one(d)]
  BY DEF ReadsBy
<1> HIDE DEF one
<1> QED
  BY <1>2, <1>3

LEMMA TextTyped ==
  /\ TextAt \in [Seq(Nat) -> Nat] /\ TextLength \in [Seq(Nat) -> Nat]
  /\ \A d \in Seq(Nat) : d \in TextStop \/ TextAt[d] \in 1..Len(d)
<1>1. ASSUME NEW d \in Seq(Nat)
      PROVE  /\ IndexOf(d, 58) \in 0..Len(d) /\ IndexOf(d, 58) \in Nat
             /\ d \in TextStop \/ IndexOf(d, 58) \in 1..Len(d)
  <2>1. IndexOf(d, 58) \in 0..Len(d) /\ Len(d) \in Nat
    BY IndexTyped, LenProperties
  <2> QED
    BY <2>1 DEF TextStop
<1>2. ASSUME NEW d \in Seq(Nat), d \notin TextStop PROVE NumberOf(LengthOf(d), 10) \in Nat
  <2> DEFINE s == LengthOf(d)
             m == IndexOf(d, 58) - 1
  <2>1. m \in Nat
    BY <1>1, <1>2 DEF TextStop
  <2>2. DOMAIN s = 1..m
    BY DEF LengthOf
  <2>3. Payloads!Range(s) \subseteq 0..9
    BY <1>2 DEF TextStop
  <2>4. s = [k \in 1..m |-> s[k]]
    BY DEF LengthOf
  <2> HIDE DEF s, m
  <2>5. \A k \in 1..m : s[k] \in Nat
    BY <2>2, <2>3 DEF Payloads!Range
  <2>6. s \in [1..m -> Nat]
    BY <2>4, <2>5
  <2>7. s \in Seq(Nat)
    BY <2>1, <2>6, FunctionIsSeq
  <2>8. 10 \in Base
    BY DEF Base
  <2> QED
    BY <2>7, <2>8, NumberTypedOf DEF s
<1>3. TextAt \in [Seq(Nat) -> Nat]
  BY <1>1 DEF TextAt
<1>4. TextLength \in [Seq(Nat) -> Nat]
  BY <1>2 DEF TextLength
<1> QED
  BY <1>1, <1>3, <1>4 DEF TextAt

\* What the client makes of a text, as a reader.
ClientReader == CHOOSE f : ReadsBy(f)

LEMMA ClientReaderReads == Reader(ClientReader, TextStop, TextAt, TextLength)
<1>1. PICK F \in [Seq(Nat) -> Seq(Message)] : Reader(F, TextStop, TextAt, TextLength)
  BY TextTyped, ReaderExists
<1> DEFINE two(f, d) ==
             IF d \in TextStop THEN <<>>
             ELSE Payloads!Packets(Payloads!Slice(d, TextAt[d], TextLength[d]))
                    \o f[Payloads!After(d, TextAt[d] + TextLength[d])]
<1>2. \A f : ReadsBy(f) <=> f = [d \in Seq(Nat) |-> two(f, d)]
  BY ReadsByIs
<1>3. \A f : Reader(f, TextStop, TextAt, TextLength) <=> \A d \in Seq(Nat) : f[d] = two(f, d)
  BY DEF Reader
<1> HIDE DEF two
<1>4. F = [d \in Seq(Nat) |-> two(F, d)]
  <2>1. F = [d \in Seq(Nat) |-> F[d]]
    BY <1>1
  <2>2. \A d \in Seq(Nat) : F[d] = two(F, d)
    BY <1>1, <1>3
  <2> QED
    BY ONLY <2>1, <2>2
<1>5. ReadsBy(ClientReader)
  BY <1>2, <1>4 DEF ClientReader
<1> DEFINE G == ClientReader
<1>6. G = [d \in Seq(Nat) |-> two(G, d)]
  BY <1>2, <1>5
<1> HIDE DEF G
<1>7. \A d \in Seq(Nat) : G[d] = two(G, d)
  BY <1>6
<1> QED
  BY <1>3, <1>7 DEF G

\* One packet of the server, as text.
TextualPiece(p) ==
  LET r == Payloads!EncodePacket(p) IN
  (Payloads!IntToString(Len(r)) \o <<Payloads!Colon>>) \o r
TextPiece == [p \in AnyPacket |-> TextualPiece(p)]

LEMMA TextParts ==
  ASSUME NEW p \in AnyPacket, NEW r \in Seq(Nat)
  PROVE  /\ TextPiece[p] \in Seq(Nat)
         /\ Parts(TextPiece[p] \o r, Payloads!IntToString(Len(Payloads!EncodePacket(p))), 58,
                  Payloads!EncodePacket(p), r)
<1> DEFINE e == Payloads!EncodePacket(p)
           a == Payloads!IntToString(Len(e))
<1>1. e \in Seq(Nat) /\ Len(e) \in Nat
  BY EncodedRead, LenProperties
<1>2. a \in Seq(Nat) /\ Lacks(a, 58)
  BY <1>1, NumeralDigits
<1>3. TextPiece[p] = (a \o << 58 >>) \o e
  BY DEF TextPiece, TextualPiece, Payloads!Colon
<1> HIDE DEF e, a
<1>4. << 58 >> \in Seq(Nat)
  OBVIOUS
<1>5. (a \o << 58 >>) \o e \in Seq(Nat)
  <2> DEFINE c == << 58 >>
             h == a \o c
  <2>1. c \in Seq(Nat)
    BY <1>4
  <2> HIDE DEF c
  <2>2. h \in Seq(Nat)
    BY ONLY <1>2, <2>1, ConcatProperties
  <2> HIDE DEF h
  <2>3. h \o e \in Seq(Nat)
    BY ONLY <1>1, <2>2, ConcatProperties
  <2> QED
    BY <2>3 DEF h, c
<1>6. Parts(TextPiece[p] \o r, a, 58, e, r)
  BY <1>1, <1>2, <1>3 DEF Parts
<1> QED
  BY <1>3, <1>5, <1>6 DEF e, a

\* decodePayload takes the packet off that the server has put in front.
LEMMA TextPieceRead ==
  ASSUME NEW p \in AnyPacket, NEW r \in Seq(Nat)
  PROVE  ClientReader[TextPiece[p] \o r] = <<Strip[p]>> \o ClientReader[r]
<1> DEFINE e == Payloads!EncodePacket(p)
           n == Len(e)
           a == Payloads!IntToString(n)
           g == Payloads!Digits(n)
           d == TextPiece[p] \o r
           s == LengthOf(d)
<1>1. /\ e \in Seq(Nat) /\ e # <<>> /\ Payloads!DecodePacket(e) = Strip[p] /\ n \in Nat
  BY EncodedRead, LenProperties
<1>2. Parts(d, a, 58, e, r)
  BY TextParts
<1>3. /\ g \in Seq(0..9) /\ NumberOf(g, 10) = n
      /\ Len(a) = Len(g) /\ Len(g) \in Nat /\ Len(g) >= 1
      /\ \A i \in 1..Len(g) : g[i] \in 0..9 /\ a[i] = 48 + g[i]
  BY <1>1, DigitsIn10, NumeralDigits
<1> HIDE DEF e, n, a, g, d
<1>4. /\ d \in Seq(Nat) /\ IndexOf(d, 58) = Len(a) + 1 /\ Len(d) \in Nat
      /\ (Len(a) + 1) + Len(e) <= Len(d)
      /\ \A k \in 1..Len(a) : d[k] = a[k]
  BY <1>2, PartsFacts
<1>5. s = g
  <2> DEFINE l == Len(g)
  <2>1. IndexOf(d, 58) - 1 = l
    BY <1>3, <1>4
  <2>2. s = [k \in 1..l |-> d[k] - 48]
    BY <2>1 DEF LengthOf
  <2>3. g = [k \in 1..l |-> g[k]]
    BY <1>3, LenProperties
  <2>4. ASSUME NEW k \in 1..l PROVE d[k] - 48 = g[k]
    <3>1. d[k] = a[k] /\ a[k] = 48 + g[k] /\ g[k] \in 0..9
      BY <1>3, <1>4
    <3> QED
      BY <3>1
  <2> HIDE DEF s, l
  <2> QED
    BY ONLY <2>2, <2>3, <2>4
<1> HIDE DEF s
<1>6. Payloads!Range(s) \subseteq 0..9
  BY <1>3, <1>5, LenProperties DEF Payloads!Range
<1>7. IndexOf(d, 58) > 1 /\ ~(IndexOf(d, 58) <= 1)
  BY <1>3, <1>4
<1>8. ~(IndexOf(d, 58) + NumberOf(s, 10) > Len(d))
  BY <1>1, <1>3, <1>4, <1>5 DEF n
<1>9. d \notin TextStop
  BY <1>6, <1>7, <1>8 DEF TextStop, s
<1>10. TextAt[d] = Len(a) + 1 /\ TextLength[d] = Len(e)
  <2>1. TextLength[d] = NumberOf(s, 10)
    BY <1>4, <1>9 DEF TextLength, s
  <2> QED
    BY <1>3, <1>4, <1>5, <2>1 DEF TextAt, n
<1>11. ClientReader[d] = <<Payloads!DecodePacket(e)>> \o ClientReader[r]
  <2> DEFINE i == TextAt[d]
             m == TextLength[d]
  <2>1. ClientReader[d] = Payloads!Packets(Payloads!Slice(d, i, m))
                            \o ClientReader[Payloads!After(d, i + m)]
    BY <1>4, <1>9, ClientReaderReads DEF Reader
  <2>2. i = Len(a) + 1 /\ m = Len(e)
    BY <1>10
  <2>3. Payloads!Slice(d, i, m) = e /\ Payloads!After(d, i + m) = r
    BY <1>2, <2>2, PartsFacts
  <2> HIDE DEF i, m
  <2>4. Payloads!Packets(e) = <<Payloads!DecodePacket(e)>>
    BY <1>1 DEF Payloads!Packets
  <2> QED
    BY <2>1, <2>3, <2>4
<1> QED
  BY <1>1, <1>11 DEF d

LEMMA FlattenSame ==
  ASSUME NEW ss
  PROVE  Payloads!FlattenSeq(ss) = Strung(ss)
BY DEF Payloads!FlattenSeq, Strung

LEMMA TextPieces ==
  ASSUME NEW q \in Seq(AnyPacket)
  PROVE  Payloads!EncodePayloadAsText(q) = Strung(Image(TextPiece, q))
<1>1. DOMAIN q = 1..Len(q) /\ \A i \in 1..Len(q) : q[i] \in AnyPacket
  BY LenProperties, ElementOfSeq
<1>2. Image(TextPiece, q) = [i \in 1..Len(q) |-> TextualPiece(q[i])]
  BY <1>1 DEF Image, TextPiece
<1> DEFINE s == [i \in 1..Len(q) |-> TextualPiece(q[i])]
<1>3. Payloads!EncodePayloadAsText(q) = Payloads!FlattenSeq(s)
  BY DEF Payloads!EncodePayloadAsText, TextualPiece
<1> HIDE DEF s
<1> QED
  BY <1>2, <1>3, FlattenSame DEF s

LEMMA TextPieceTyped == Mapping(TextPiece, AnyPacket, Seq(Nat))
<1>1. \A p \in AnyPacket : TextPiece[p] \in Seq(Nat)
  <2>1. <<>> \in Seq(Nat)
    BY EmptySeq
  <2> QED
    BY <2>1, TextParts
<1>2. TextPiece = [p \in AnyPacket |-> TextPiece[p]]
  BY DEF TextPiece
<1> QED
  BY <1>1, <1>2 DEF Mapping

LEMMA TextualRead ==
  ASSUME NEW q \in Seq(AnyPacket)
  PROVE  Payloads!ClientReads(Payloads!EncodePayloadAsText(q)) = Payloads!Stripped(q)
<1> DEFINE F == ClientReader
           P == AnyPacket
<1>1. \A d \in Seq(Nat) : F[d] \in Seq(Message)
  <2> SUFFICES ASSUME NEW d \in Seq(Nat) PROVE F[d] \in Seq(Message)
    OBVIOUS
  <2> QED
    BY ClientReaderReads, TextTyped, ReaderTyped
<1>2. F[<<>>] = <<>>
  <2>1. <<>> \in Seq(Nat) /\ Len(<<>>) = 0
    BY EmptySeq
  <2>2. IndexOf(<<>>, 58) \in 0..0
    BY <2>1, IndexTyped
  <2>3. <<>> \in TextStop
    BY <2>1, <2>2 DEF TextStop
  <2> QED
    BY <2>1, <2>3, ClientReaderReads DEF Reader
<1>3. Mapping(TextPiece, P, Seq(Nat)) /\ Mapping(Strip, P, Message)
  BY TextPieceTyped, StripTyped
<1>4. \A p \in P, r \in Seq(Nat) : F[TextPiece[p] \o r] = <<Strip[p]>> \o F[r]
  BY TextPieceRead
<1>5. q \in Seq(P)
  OBVIOUS
<1> HIDE DEF F, P
<1>6. F[Strung(Image(TextPiece, q))] = Image(Strip, q)
  <2>1. Reads(F, Nat, Message, P, TextPiece, Strip)
    BY ONLY <1>1, <1>2, <1>3, <1>4 DEF Reads
  <2> HIDE DEF P
  <2> QED
    BY ONLY <1>5, <2>1, ReadsAll
<1>7. Payloads!ClientReads(Payloads!EncodePayloadAsText(q))
        = F[Payloads!EncodePayloadAsText(q)]
  BY ClientReadsIs DEF F, ClientReader
<1> QED
  BY <1>6, <1>7, TextPieces, StrippedIs DEF P

-----------------------------------------------------------------------------
(* Both sides read lengths in digits.                                      *)

\* The recursion of the server's decoder.
DecodesBy(f, skipped, separator) ==
  f = [d \in Seq(Nat) |->
        LET i == Payloads!Index(d, separator)
            len == Payloads!BinaryStringToInt(SubSeq(d, skipped + 1, i - 1))
        IN  IF i <= skipped + 1 \/ i + len > Len(d) THEN <<>>
            ELSE Payloads!Packets(Payloads!Slice(d, i, len))
                   \o f[Payloads!After(d, i + len)]]

LEMMA DecodeFromIs ==
  ASSUME NEW data, NEW skipped, NEW separator
  PROVE  Payloads!DecodeFrom(data, skipped, separator)
           = (CHOOSE f : DecodesBy(f, skipped, separator))[data]
BY DEF Payloads!DecodeFrom, DecodesBy

\* The recursion of decodePayloadAsBinary.
UnpacksBy(f) ==
  f = [d \in Seq(Nat) |->
        LET i == Payloads!Index(d, 255)
            n == Payloads!ClientNumber(SubSeq(d, 2, i - 1))
        IN  IF i = 0 THEN <<>>
            ELSE Payloads!Packets(Payloads!Slice(d, i, n))
                   \o f[Payloads!After(d, i + n)]]

LEMMA ClientReadsBinaryIs ==
  ASSUME NEW data
  PROVE  Payloads!ClientReadsBinary(data) = (CHOOSE f : UnpacksBy(f))[data]
BY DEF Payloads!ClientReadsBinary, UnpacksBy

\* The number between the first k characters and the separator c.
Number(d, k, c) == NumberOf(SubSeq(d, k + 1, IndexOf(d, c) - 1), 10)
ServerStop(k, c) ==
  {d \in Seq(Nat) : IndexOf(d, c) <= k + 1 \/ IndexOf(d, c) + Number(d, k, c) > Len(d)}
ClientStop == {d \in Seq(Nat) : IndexOf(d, 255) = 0}
At(c) == [d \in Seq(Nat) |-> IndexOf(d, c)]
Lengthy(k, c) == [d \in Seq(Nat) |-> Number(d, k, c)]

LEMMA BetweenTyped ==
  ASSUME NEW d \in Seq(Nat), NEW k \in Nat, NEW c \in Nat
  PROVE  Number(d, k, c) \in Nat
<1> DEFINE i == IndexOf(d, c)
           m == k + 1
           n == i - 1
           s == SubSeq(d, m, n)
<1>1. i \in 0..Len(d) /\ Len(d) \in Nat
  BY IndexTyped, LenProperties
<1>2. m \in Int /\ n \in Int /\ \A j \in m..n : d[j] \in Nat
  <2>1. \A j \in m..n : j \in 1..Len(d)
    BY <1>1
  <2> QED
    BY <1>1, <2>1, ElementOfSeq
<1> HIDE DEF m, n
<1>3. s \in Seq(Nat)
  BY <1>2, SubSeqProperties
<1>4. 10 \in Base
  BY DEF Base
<1> QED
  BY <1>3, <1>4, NumberTypedOf DEF Number, s, m, n

LEMMA LengthsTyped ==
  ASSUME NEW k \in Nat, NEW c \in Nat
  PROVE  /\ At(c) \in [Seq(Nat) -> Nat] /\ Lengthy(k, c) \in [Seq(Nat) -> Nat]
         /\ \A d \in Seq(Nat) : d \in ServerStop(k, c) \/ At(c)[d] \in 1..Len(d)
         /\ \A d \in Seq(Nat) : d \in ClientStop \/ At(255)[d] \in 1..Len(d)
<1>1. ASSUME NEW d \in Seq(Nat), NEW e \in Nat
      PROVE  IndexOf(d, e) \in 0..Len(d) /\ Len(d) \in Nat /\ IndexOf(d, e) \in Nat
  <2>1. IndexOf(d, e) \in 0..Len(d) /\ Len(d) \in Nat
    BY IndexTyped, LenProperties
  <2> QED
    BY <2>1
<1>2. ASSUME NEW d \in Seq(Nat) PROVE d \in ServerStop(k, c) \/ At(c)[d] \in 1..Len(d)
  <2>1. CASE IndexOf(d, c) <= k + 1
    BY <2>1 DEF ServerStop
  <2>2. CASE ~(IndexOf(d, c) <= k + 1)
    BY <1>1, <2>2 DEF At
  <2> QED
    BY <2>1, <2>2
<1>3. ASSUME NEW d \in Seq(Nat) PROVE d \in ClientStop \/ At(255)[d] \in 1..Len(d)
  BY <1>1 DEF ClientStop, At
<1>4. At(c) \in [Seq(Nat) -> Nat]
  BY <1>1 DEF At
<1>5. Lengthy(k, c) \in [Seq(Nat) -> Nat]
  BY BetweenTyped DEF Lengthy
<1> QED
  BY <1>2, <1>3, <1>4, <1>5

ServerReader(k, c) == CHOOSE f : DecodesBy(f, k, c)

LEMMA ServerReaderReads ==
  ASSUME NEW k \in Nat, NEW c \in Nat
  PROVE  Reader(ServerReader(k, c), ServerStop(k, c), At(c), Lengthy(k, c))
<1> DEFINE rest(f, d, j, m) ==
             Payloads!Packets(Payloads!Slice(d, j, m)) \o f[Payloads!After(d, j + m)]
           one(f, d) ==
             LET i == Payloads!Index(d, c)
                 len == Payloads!BinaryStringToInt(SubSeq(d, k + 1, i - 1))
             IN  IF i <= k + 1 \/ i + len > Len(d) THEN <<>> ELSE rest(f, d, i, len)
           two(f, d) ==
             IF d \in ServerStop(k, c) THEN <<>> ELSE rest(f, d, At(c)[d], Lengthy(k, c)[d])
<1>1. ASSUME NEW f, NEW d \in Seq(Nat) PROVE one(f, d) = two(f, d)
  <2> DEFINE i == IndexOf(d, c)
             n == Number(d, k, c)
             stop == i <= k + 1 \/ i + n > Len(d)
  <2>1. Payloads!Index(d, c) = i
    BY IndexIs
  <2>2. Payloads!BinaryStringToInt(SubSeq(d, k + 1, i - 1)) = n
    BY DEF Number, Payloads!BinaryStringToInt, Payloads!NumberOf, NumberOf
  <2>3. one(f, d) = IF stop THEN <<>> ELSE rest(f, d, i, n)
    <3> HIDE DEF rest
    <3> QED
      BY <2>1, <2>2
  <2>4. d \in ServerStop(k, c) <=> stop
    BY DEF ServerStop
  <2>5. At(c)[d] = i /\ Lengthy(k, c)[d] = n
    BY DEF At, Lengthy
  <2> HIDE DEF one, rest, stop, i, n
  <2> QED
    BY <2>3, <2>4, <2>5
<1>2. \A f : DecodesBy(f, k, c) <=> f = [d \in Seq(Nat) |-> one(f, d)]
  BY DEF DecodesBy
<1>3. \A f : Reader(f, ServerStop(k, c), At(c), Lengthy(k, c))
               <=> \A d \in Seq(Nat) : f[d] = two(f, d)
  BY DEF Reader
<1>4. PICK F \in [Seq(Nat) -> Seq(Message)] :
             Reader(F, ServerStop(k, c), At(c), Lengthy(k, c))
  BY LengthsTyped, ReaderExists
<1> HIDE DEF one, two
<1>5. F = [d \in Seq(Nat) |-> one(F, d)]
  <2>1. F = [d \in Seq(Nat) |-> F[d]]
    BY <1>4
  <2>2. \A d \in Seq(Nat) : F[d] = one(F, d)
    BY <1>1, <1>3, <1>4
  <2> QED
    BY ONLY <2>1, <2>2
<1>6. DecodesBy(ServerReader(k, c), k, c)
  BY <1>2, <1>5 DEF ServerReader
<1> DEFINE G == ServerReader(k, c)
<1>7. G = [d \in Seq(Nat) |-> one(G, d)]
  BY <1>2, <1>6
<1> HIDE DEF G
<1>8. \A d \in Seq(Nat) : G[d] = one(G, d)
  BY <1>7
<1>9. \A d \in Seq(Nat) : G[d] = two(G, d)
  BY <1>1, <1>8
<1> QED
  BY <1>3, <1>9 DEF G

BinaryReader == CHOOSE f : UnpacksBy(f)

LEMMA BinaryReaderReads == Reader(BinaryReader, ClientStop, At(255), Lengthy(1, 255))
<1> DEFINE c == 255
           rest(f, d, j, m) ==
             Payloads!Packets(Payloads!Slice(d, j, m)) \o f[Payloads!After(d, j + m)]
           one(f, d) ==
             LET i == Payloads!Index(d, c)
                 n == Payloads!ClientNumber(SubSeq(d, 2, i - 1))
             IN  IF i = 0 THEN <<>> ELSE rest(f, d, i, n)
           two(f, d) ==
             IF d \in ClientStop THEN <<>> ELSE rest(f, d, At(c)[d], Lengthy(1, c)[d])
<1>1. ASSUME NEW f, NEW d \in Seq(Nat) PROVE one(f, d) = two(f, d)
  <2> DEFINE i == IndexOf(d, c)
             n == Number(d, 1, c)
  <2>1. Payloads!Index(d, c) = i
    BY IndexIs
  <2>2. Payloads!ClientNumber(SubSeq(d, 2, i - 1)) = n
    <3>1. 1 + 1 = 2
      OBVIOUS
    <3> QED
      BY <3>1 DEF Number, Payloads!ClientNumber, Payloads!NumberOf, NumberOf
  <2>3. one(f, d) = IF i = 0 THEN <<>> ELSE rest(f, d, i, n)
    <3> HIDE DEF rest
    <3> QED
      BY <2>1, <2>2
  <2>4. d \in ClientStop <=> i = 0
    BY DEF ClientStop
  <2>5. At(c)[d] = i /\ Lengthy(1, c)[d] = n
    BY DEF At, Lengthy
  <2> HIDE DEF one, rest, i, n
  <2> QED
    BY <2>3, <2>4, <2>5
<1>2. \A f : UnpacksBy(f) <=> f = [d \in Seq(Nat) |-> one(f, d)]
  BY DEF UnpacksBy
<1>3. \A f : Reader(f, ClientStop, At(c), Lengthy(1, c))
               <=> \A d \in Seq(Nat) : f[d] = two(f, d)
  BY DEF Reader
<1>4. PICK F \in [Seq(Nat) -> Seq(Message)] : Reader(F, ClientStop, At(c), Lengthy(1, c))
  BY LengthsTyped, ReaderExists, ZenonT(60)
<1> HIDE DEF one, two
<1>5. F = [d \in Seq(Nat) |-> one(F, d)]
  <2>1. F = [d \in Seq(Nat) |-> F[d]]
    BY <1>4
  <2>2. \A d \in Seq(Nat) : F[d] = one(F, d)
    BY <1>1, <1>3, <1>4
  <2> QED
    BY ONLY <2>1, <2>2
<1>6. UnpacksBy(BinaryReader)
  BY <1>2, <1>5 DEF BinaryReader
<1> DEFINE G == BinaryReader
<1>7. G = [d \in Seq(Nat) |-> one(G, d)]
  BY <1>2, <1>6
<1> HIDE DEF G
<1>8. \A d \in Seq(Nat) : G[d] = one(G, d)
  BY <1>7
<1>9. \A d \in Seq(Nat) : G[d] = two(G, d)
  BY <1>1, <1>8
<1> QED
  BY <1>3, <1>9 DEF G

\* One packet: a flag, the digits of its length, 255 and what is encoded.
Packed(flag, e) == ((<<flag>> \o Payloads!Digits(Len(e))) \o << 255 >>) \o e

LEMMA PackedParts ==
  ASSUME NEW flag \in {0, 1}, NEW e \in Seq(Nat), NEW r \in Seq(Nat)
  PROVE  /\ Packed(flag, e) \in Seq(Nat)
         /\ Parts(Packed(flag, e) \o r, <<flag>> \o Payloads!Digits(Len(e)), 255, e, r)
         /\ Len(<<flag>> \o Payloads!Digits(Len(e))) = 1 + Len(Payloads!Digits(Len(e)))
         /\ (<<flag>> \o Payloads!Digits(Len(e)))[1] = flag
         /\ \A i \in 1..Len(Payloads!Digits(Len(e))) :
              (<<flag>> \o Payloads!Digits(Len(e)))[i + 1] = Payloads!Digits(Len(e))[i]
<1> DEFINE g == Payloads!Digits(Len(e))
           one == <<flag>>
           a == one \o g
           l == Len(g)
           c == << 255 >>
<1>1. Len(e) \in Nat
  BY LenProperties
<1>2. g \in Seq(Nat) /\ l \in Nat /\ \A i \in 1..l : g[i] \in 0..9
  BY <1>1, DigitsIn10, NumeralDigits
<1>3. one \in Seq(Nat) /\ Len(one) = 1 /\ one[1] = flag /\ c \in Seq(Nat)
  OBVIOUS
<1> HIDE DEF g, one, c
<1>4. /\ a \in Seq(Nat) /\ Len(a) = Len(one) + Len(g)
      /\ \A i \in 1..Len(one) + Len(g) : a[i] = IF i <= Len(one) THEN one[i] ELSE g[i - Len(one)]
  BY <1>2, <1>3, ConcatProperties
<1> HIDE DEF a, l
<1>5. Len(a) = 1 + l /\ \A i \in 1..1 + l : a[i] = IF i <= 1 THEN one[i] ELSE g[i - 1]
  BY <1>3, <1>4 DEF l
<1>6. a[1] = flag /\ \A i \in 1..l : a[i + 1] = g[i]
  <2>1. a[1] = flag
    BY <1>2, <1>3, <1>5
  <2>2. ASSUME NEW i \in 1..l PROVE a[i + 1] = g[i]
    <3>1. i + 1 \in 1..1 + l /\ ~(i + 1 <= 1) /\ (i + 1) - 1 = i
      BY <1>2
    <3>2. a[i + 1] = g[(i + 1) - 1]
      BY <1>5, <3>1
    <3> QED
      BY <3>1, <3>2
  <2> QED
    BY <2>1, <2>2
<1>7. Lacks(a, 255)
  <2> SUFFICES ASSUME NEW i \in 1..1 + l PROVE a[i] # 255
    BY <1>5 DEF Lacks
  <2>1. CASE i = 1
    BY <1>6, <2>1
  <2>2. CASE i # 1
    <3>1. i - 1 \in 1..l /\ (i - 1) + 1 = i
      BY <1>2, <2>2
    <3>2. a[(i - 1) + 1] = g[i - 1] /\ g[i - 1] \in 0..9
      BY <1>2, <1>6, <3>1
    <3> QED
      BY <3>1, <3>2
  <2> QED
    BY <2>1, <2>2
<1>8. Packed(flag, e) = (a \o c) \o e
  BY DEF Packed, a, g, one, c
<1>9. a \o c \in Seq(Nat)
  BY ONLY <1>3, <1>4, ConcatProperties
<1>10. (a \o c) \o e \in Seq(Nat)
  <2> DEFINE h == a \o c
  <2>1. h \in Seq(Nat) /\ e \in Seq(Nat)
    BY <1>9
  <2> HIDE DEF h
  <2>2. h \o e \in Seq(Nat)
    BY ONLY <2>1, ConcatProperties
  <2> QED
    BY <2>2 DEF h
<1>11. Parts(Packed(flag, e) \o r, a, 255, e, r)
  BY <1>4, <1>7, <1>8 DEF Parts, c
<1> QED
  BY <1>5, <1>6, <1>8, <1>10, <1>11 DEF a, one, g, l

\* Both sides take it off what it is in front of.
LEMMA PackedRead ==
  ASSUME NEW flag \in {0, 1}, NEW e \in Seq(Nat), e # <<>>, NEW r \in Seq(Nat)
  PROVE  /\ ServerReader(1, 255)[Packed(flag, e) \o r]
              = <<Payloads!DecodePacket(e)>> \o ServerReader(1, 255)[r]
         /\ BinaryReader[Packed(flag, e) \o r]
              = <<Payloads!DecodePacket(e)>> \o BinaryReader[r]
<1> DEFINE g == Payloads!Digits(Len(e))
           a == <<flag>> \o g
           d == Packed(flag, e) \o r
           l == Len(g)
           n == Len(e)
           s == SubSeq(d, 2, Len(a))
<1>1. n \in Nat
  BY LenProperties
<1>2. /\ g \in Seq(Nat) /\ l \in Nat /\ l >= 1 /\ NumberOf(g, 10) = n
  BY <1>1, DigitsIn10, NumeralDigits
<1>3. Parts(d, a, 255, e, r) /\ Len(a) = 1 + l /\ \A i \in 1..l : a[i + 1] = g[i]
  BY PackedParts, ZenonT(60)
<1> HIDE DEF a, d, g
<1>4. /\ d \in Seq(Nat) /\ IndexOf(d, 255) = Len(a) + 1
      /\ Len(a) \in Nat /\ Len(d) \in Nat
      /\ (Len(a) + 1) + n <= Len(d)
      /\ \A k \in 1..Len(a) : d[k] = a[k]
      /\ Payloads!Slice(d, Len(a) + 1, n) = e
      /\ Payloads!After(d, (Len(a) + 1) + n) = r
  <2>1. /\ d \in Seq(Nat) /\ IndexOf(d, 255) = Len(a) + 1
        /\ Len(a) \in Nat /\ Len(d) \in Nat
        /\ (Len(a) + 1) + Len(e) <= Len(d)
        /\ \A k \in 1..Len(a) : d[k] = a[k]
    BY ONLY <1>3, PartsFacts
  <2>2. Payloads!Slice(d, Len(a) + 1, Len(e)) = e
    BY ONLY <1>3, PartsFacts
  <2>3. Payloads!After(d, (Len(a) + 1) + Len(e)) = r
    <3>1. Parts(d, a, 255, e, r)
      BY <1>3
    <3> QED
      BY ONLY <3>1, PartsFacts
  <2> QED
    BY <2>1, <2>2, <2>3
<1>5. s = g
  <2> DEFINE m == Len(a)
  <2>1. m = 1 + l /\ m \in Int
    BY <1>2, <1>3
  <2>2. \A j \in 2..m : d[j] \in Nat
    <3>1. \A j \in 2..m : j \in 1..Len(d)
      BY <1>1, <1>4
    <3> QED
      BY <1>4, <3>1, ElementOfSeq
  <2> HIDE DEF m, l
  <2>3. /\ SubSeq(d, 2, m) \in Seq(Nat)
        /\ Len(SubSeq(d, 2, m)) = IF 2 <= m THEN m - 2 + 1 ELSE 0
        /\ \A i \in 1..m - 2 + 1 : SubSeq(d, 2, m)[i] = d[2 + i - 1]
    BY <2>1, <2>2, SubSeqProperties
  <2> HIDE DEF s
  <2>4. s = SubSeq(d, 2, m)
    BY DEF s, m
  <2>5. s \in Seq(Nat) /\ Len(s) = l
    BY <1>2, <2>1, <2>3, <2>4
  <2>6. ASSUME NEW i \in 1..l PROVE s[i] = g[i]
    <3>1. i \in 1..m - 2 + 1 /\ 2 + i - 1 = i + 1 /\ i + 1 \in 1..m
      BY <1>2, <2>1
    <3>2. s[i] = d[i + 1] /\ d[i + 1] = a[i + 1]
      BY <1>4, <2>3, <2>4, <3>1 DEF m
    <3> QED
      BY <1>3, <3>2
  <2> QED
    BY <1>2, <2>5, <2>6, SeqEqual DEF l
<1>6. Number(d, 1, 255) = n
  <2>1. IndexOf(d, 255) - 1 = Len(a) /\ 1 + 1 = 2
    BY <1>4
  <2>2. SubSeq(d, 1 + 1, IndexOf(d, 255) - 1) = g
    BY <1>5, <2>1
  <2> QED
    BY <1>2, <2>2 DEF Number
<1> HIDE DEF s, n, l
<1>7. d \notin ServerStop(1, 255)
  <2>1. ~(IndexOf(d, 255) <= 1 + 1)
    BY <1>2, <1>3, <1>4
  <2>2. ~(IndexOf(d, 255) + Number(d, 1, 255) > Len(d))
    BY <1>1, <1>4, <1>6
  <2> QED
    BY <2>1, <2>2 DEF ServerStop
<1>8. d \notin ClientStop
  BY <1>2, <1>3, <1>4 DEF ClientStop
<1>9. At(255)[d] = Len(a) + 1 /\ Lengthy(1, 255)[d] = n
  BY <1>4, <1>6 DEF At, Lengthy
<1>10. Payloads!Packets(e) = <<Payloads!DecodePacket(e)>>
  BY DEF Payloads!Packets
<1> DEFINE i == At(255)[d]
           m == Lengthy(1, 255)[d]
<1>11. Payloads!Slice(d, i, m) = e /\ Payloads!After(d, i + m) = r
  BY <1>4, <1>9
<1>12. ServerReader(1, 255)[d] = Payloads!Packets(Payloads!Slice(d, i, m))
                                   \o ServerReader(1, 255)[Payloads!After(d, i + m)]
  <2>1. 1 \in Nat /\ 255 \in Nat
    OBVIOUS
  <2>2. Reader(ServerReader(1, 255), ServerStop(1, 255), At(255), Lengthy(1, 255))
    BY ONLY <2>1, ServerReaderReads
  <2> QED
    BY <1>4, <1>7, <2>2, ZenonT(60) DEF Reader
<1>13. BinaryReader[d] = Payloads!Packets(Payloads!Slice(d, i, m))
                           \o BinaryReader[Payloads!After(d, i + m)]
  BY <1>4, <1>8, BinaryReaderReads, ZenonT(60) DEF Reader
<1> HIDE DEF i, m
<1> QED
  BY <1>10, <1>11, <1>12, <1>13 DEF d

\* One packet of the client, as bytes.
BinaryPiece ==
  [p \in AnyPacket |-> Packed(IF p.raw THEN 1 ELSE 0, Payloads!ClientPacket(p))]

LEMMA BinaryPieceTyped == Mapping(BinaryPiece, AnyPacket, Seq(Nat))
<1>1. ASSUME NEW p \in AnyPacket PROVE BinaryPiece[p] \in Seq(Nat)
  <2> DEFINE flag == IF p.raw THEN 1 ELSE 0
             e == Payloads!ClientPacket(p)
  <2>1. flag \in {0, 1} /\ e \in Seq(Nat) /\ <<>> \in Seq(Nat)
    BY ClientPacketRead, EmptySeq
  <2>2. BinaryPiece[p] = Packed(flag, e)
    BY DEF BinaryPiece
  <2> HIDE DEF flag, e
  <2>3. Packed(flag, e) \in Seq(Nat)
    BY <2>1, PackedParts
  <2> QED
    BY <2>2, <2>3
<1>2. BinaryPiece = [p \in AnyPacket |-> BinaryPiece[p]]
  BY DEF BinaryPiece
<1> QED
  BY <1>1, <1>2 DEF Mapping

LEMMA BinaryPieces ==
  ASSUME NEW q \in Seq(AnyPacket)
  PROVE  Payloads!ClientBinary(q) = Strung(Image(BinaryPiece, q))
<1>1. DOMAIN q = 1..Len(q) /\ \A i \in 1..Len(q) : q[i] \in AnyPacket
  BY LenProperties, ElementOfSeq
<1> DEFINE t(p) == Packed(IF p.raw THEN 1 ELSE 0, Payloads!ClientPacket(p))
           s == [i \in 1..Len(q) |-> t(q[i])]
<1>2. Image(BinaryPiece, q) = s
  BY <1>1 DEF Image, BinaryPiece
<1>3. Payloads!ClientBinary(q) = Payloads!FlattenSeq(s)
  BY DEF Payloads!ClientBinary, Packed
<1> HIDE DEF s
<1> QED
  BY <1>2, <1>3, FlattenSame

LEMMA EmptyReads == ServerReader(1, 255)[<<>>] = <<>> /\ BinaryReader[<<>>] = <<>>
<1>1. <<>> \in Seq(Nat) /\ Len(<<>>) = 0
  BY EmptySeq
<1>2. IndexOf(<<>>, 255) \in 0..0
  BY <1>1, IndexTyped
<1>3. <<>> \in ClientStop /\ <<>> \in ServerStop(1, 255)
  BY <1>1, <1>2 DEF ClientStop, ServerStop
<1>4. 1 \in Nat /\ 255 \in Nat
  OBVIOUS
<1>5. Reader(ServerReader(1, 255), ServerStop(1, 255), At(255), Lengthy(1, 255))
  BY ONLY <1>4, ServerReaderReads
<1> QED
  BY <1>1, <1>3, <1>5, BinaryReaderReads, ZenonT(60) DEF Reader

\* A binary payload of the client, packet by packet.
LEMMA BinaryRead ==
  ASSUME NEW q \in Seq(AnyPacket), q # <<>>
  PROVE  Payloads!DecodePayload(Payloads!ClientBinary(q)) = Payloads!Stripped(q)
<1> DEFINE F == ServerReader(1, 255)
           P == AnyPacket
           data == Payloads!ClientBinary(q)
<1>1. \A d \in Seq(Nat) : F[d] \in Seq(Message)
  <2> SUFFICES ASSUME NEW d \in Seq(Nat) PROVE F[d] \in Seq(Message)
    OBVIOUS
  <2> DEFINE c == 255
             k == 1
  <2>1. k \in Nat /\ c \in Nat
    OBVIOUS
  <2> HIDE DEF k, c
  <2> DEFINE at == At(c)
             n == Lengthy(k, c)
             stop == ServerStop(k, c)
             f == ServerReader(k, c)
  <2>2. /\ at \in [Seq(Nat) -> Nat] /\ n \in [Seq(Nat) -> Nat]
        /\ \A e \in Seq(Nat) : e \in stop \/ at[e] \in 1..Len(e)
        /\ Reader(f, stop, at, n)
    BY ONLY <2>1, LengthsTyped, ServerReaderReads
  <2> HIDE DEF at, n, stop, f
  <2>3. f[d] \in Seq(Message)
    BY ONLY <2>2, d \in Seq(Nat), ReaderTyped
  <2> QED
    BY <2>3 DEF f, k, c
<1>2. F[<<>>] = <<>>
  BY EmptyReads
<1>3. Mapping(BinaryPiece, P, Seq(Nat)) /\ Mapping(Strip, P, Message)
  BY BinaryPieceTyped, StripTyped
<1>4. \A p \in P, r \in Seq(Nat) : F[BinaryPiece[p] \o r] = <<Strip[p]>> \o F[r]
  <2> SUFFICES ASSUME NEW p \in P, NEW r \in Seq(Nat)
               PROVE  F[BinaryPiece[p] \o r] = <<Strip[p]>> \o F[r]
    OBVIOUS
  <2> DEFINE flag == IF p.raw THEN 1 ELSE 0
             e == Payloads!ClientPacket(p)
  <2>1. flag \in {0, 1} /\ e \in Seq(Nat) /\ e # <<>> /\ Payloads!DecodePacket(e) = Strip[p]
    BY ClientPacketRead
  <2>2. BinaryPiece[p] = Packed(flag, e)
    BY DEF BinaryPiece
  <2> HIDE DEF flag, e
  <2> QED
    BY <2>1, <2>2, PackedRead, SMTT(60)
<1>5. q \in Seq(P)
  OBVIOUS
<1> HIDE DEF F
<1>6. F[Strung(Image(BinaryPiece, q))] = Image(Strip, q)
  <2>1. Reads(F, Nat, Message, P, BinaryPiece, Strip)
    BY ONLY <1>1, <1>2, <1>3, <1>4 DEF Reads
  <2> HIDE DEF P
  <2> QED
    BY ONLY <1>5, <2>1, ReadsAll
<1>7. F[data] = Payloads!Stripped(q)
  BY <1>6, BinaryPieces, StrippedIs
<1>8. data[1] \in {0, 1}
  <2> DEFINE ss == Image(BinaryPiece, q)
  <2>1. ss \in Seq(Seq(Nat)) /\ Len(ss) = Len(q) /\ \A i \in 1..Len(q) : ss[i] = BinaryPiece[q[i]]
    BY BinaryPieceTyped, ImageTyped
  <2>2. Len(q) \in Nat /\ Len(q) # 0
    BY LenProperties, EmptySeq
  <2>3. 1 \in 1..Len(q) /\ ss # <<>>
    BY <2>1, <2>2, EmptySeq
  <2>4. data = Strung(ss)
    BY BinaryPieces
  <2> HIDE DEF ss, data
  <2>5. PICK r \in Seq(Nat) : Strung(ss) = ss[1] \o r
    BY <2>1, <2>3, FlattenFirst
  <2> DEFINE p == q[1]
             flag == IF p.raw THEN 1 ELSE 0
             e == Payloads!ClientPacket(p)
             a == <<flag>> \o Payloads!Digits(Len(e))
  <2>6. p \in P
    BY <2>3, ElementOfSeq
  <2>7. flag \in {0, 1} /\ e \in Seq(Nat) /\ Len(e) \in Nat
    BY <2>6, ClientPacketRead, LenProperties
  <2>8. data = Packed(flag, e) \o r
    <3>1. ss[1] = BinaryPiece[p]
      BY <2>1, <2>3
    <3> QED
      BY <2>4, <2>5, <2>6, <3>1 DEF BinaryPiece
  <2> HIDE DEF p, flag, e
  <2>9. Parts(data, a, 255, e, r) /\ Len(a) = 1 + Len(Payloads!Digits(Len(e))) /\ a[1] = flag
    BY <2>7, <2>8, PackedParts, ZenonT(60)
  <2>10. Len(Payloads!Digits(Len(e))) \in Nat
    BY <2>7, NumeralDigits
  <2> HIDE DEF a
  <2>11. 1 \in 1..Len(a)
    BY <2>9, <2>10
  <2>12. data[1] = a[1]
    BY <2>9, <2>11, PartsFacts
  <2> QED
    BY <2>7, <2>9, <2>12
<1> HIDE DEF data
<1>9. Payloads!DecodePayload(data) = F[data]
  <2>1. ~(data[1] > 48)
    BY <1>8
  <2>2. Payloads!DecodePayload(data) = Payloads!DecodeFrom(data, 1, 255)
    BY <2>1 DEF Payloads!DecodePayload, Payloads!DecodePayloadAsBinary, Payloads!Zero
  <2> QED
    BY <2>2, DecodeFromIs DEF F, ServerReader
<1> QED
  BY <1>7, <1>9 DEF data

\* A binary payload of the server: its last packet.
LEMMA LastRead ==
  ASSUME NEW q \in Seq(AnyPacket), q # <<>>
  PROVE  Payloads!ClientReadsBinary(Payloads!EncodePayloadAsBinary(q))
           = Payloads!Stripped(<<q[Len(q)]>>)
<1> DEFINE p == q[Len(q)]
           e == Payloads!EncodePacket(p)
           F == BinaryReader
<1>1. p \in AnyPacket
  <2>1. Len(q) \in Nat /\ Len(q) # 0
    BY LenProperties, EmptySeq
  <2>2. Len(q) \in 1..Len(q)
    BY <2>1
  <2> QED
    BY <2>2, ElementOfSeq
<1>2. e \in Seq(Nat) /\ e # <<>> /\ Payloads!DecodePacket(e) = Strip[p]
  BY <1>1, EncodedRead
<1>3. Payloads!EncodePayloadAsBinary(q) = Packed(0, e)
  BY DEF Payloads!EncodePayloadAsBinary, Packed
<1>4. Payloads!Stripped(<<p>>) = <<Strip[p]>>
  <2>1. <<p>> \in Seq(AnyPacket)
    BY <1>1
  <2>2. Payloads!Stripped(<<p>>) = Image(Strip, <<p>>)
    BY <2>1, StrippedIs
  <2> QED
    BY <2>2, ImageOne
<1>5. Payloads!ClientReadsBinary(Packed(0, e)) = F[Packed(0, e)]
  BY ClientReadsBinaryIs DEF BinaryReader
<1> HIDE DEF e, p, F
<1>6. F[Packed(0, e) \o <<>>] = <<Payloads!DecodePacket(e)>> \o F[<<>>]
  <2>1. <<>> \in Seq(Nat) /\ 0 \in {0, 1}
    BY EmptySeq
  <2> QED
    BY <1>2, <2>1, PackedRead, ZenonT(60) DEF F
<1>7. Packed(0, e) \o <<>> = Packed(0, e)
  <2>1. <<>> \in Seq(Nat) /\ 0 \in {0, 1}
    BY EmptySeq
  <2>2. Packed(0, e) \in Seq(Nat)
    BY <1>2, <2>1, PackedParts
  <2> QED
    BY <2>2, ConcatEmptySeq
<1>8. F[Packed(0, e)] = <<Strip[p]>>
  <2> DEFINE one == <<Strip[p]>>
  <2>1. one \in Seq(Message)
    <3> DEFINE m == Strip[p]
    <3>1. m \in Message
      BY <1>1, StripTyped DEF Mapping
    <3> HIDE DEF m
    <3>2. <<m>> \in Seq(Message)
      BY <3>1
    <3> QED
      BY <3>2 DEF m
  <2>2. F[Packed(0, e)] = one \o <<>>
    BY <1>2, <1>6, <1>7, EmptyReads DEF F
  <2> HIDE DEF one
  <2> QED
    BY <2>1, <2>2, ConcatEmptySeq DEF one
<1>9. Payloads!ClientReadsBinary(Payloads!EncodePayloadAsBinary(q)) = <<Strip[p]>>
  BY <1>3, <1>5, <1>8
<1> QED
  BY <1>4, <1>9 DEF p

\* A numeral starts with a zero only if it is the zero.
LEMMA LeadingDigit ==
  ASSUME NEW n \in Nat, n >= 1
  PROVE  Payloads!Digits(n)[1] >= 1
<1> DEFINE b == 10
           Fine(k) == k >= 1 => InBase(k, b)[1] >= 1
           P == {k \in Nat : Fine(k)}
<1>1. b \in Base /\ b \in Nat
  BY DEF Base
<1> HIDE DEF b
<1>2. ASSUME NEW k \in Nat, k < b PROVE k \in P
  <2>1. InBase(k, b) = <<k>>
    BY <1>1, <1>2, InBaseFacts
  <2> QED
    BY <2>1
<1>3. ASSUME NEW k \in Nat, k >= b, k \div b \in P PROVE k \in P
  <2> DEFINE s == InBase(k \div b, b)
             d == k % b
  <2>1. InBase(k, b) = Append(s, d)
    <3>1. ~(k < b)
      BY <1>1, <1>3
    <3> QED
      BY <1>1, <3>1, InBaseFacts
  <2>2. k \div b \in Nat /\ k \div b >= 1
    BY <1>1, <1>3, Divided
  <2>3. s \in Seq(Nat) /\ s # <<>> /\ d \in Nat
    <3>1. d \in 0..b - 1
      BY <1>1, Divided
    <3>2. d \in Nat
      BY <1>1, <3>1
    <3> QED
      BY <1>1, <2>2, <3>2, DigitsRead
  <2>4. s[1] >= 1
    BY <1>3, <2>2
  <2> HIDE DEF s, d
  <2>5. Len(s) \in Nat /\ Len(s) # 0
    BY <2>3, LenProperties, EmptySeq
  <2>6. 1 \in 1..Len(s)
    BY <2>5
  <2>7. Append(s, d)[1] = s[1]
    BY <2>3, <2>6, AppendProperties
  <2> QED
    BY <2>1, <2>4, <2>7
<1>4. P = Nat
  <2>1. P \in SUBSET Nat
    OBVIOUS
  <2>2. /\ \A k \in Nat : k < b => k \in P
        /\ \A k \in Nat : k >= b /\ k \div b \in P => k \in P
    BY <1>2, <1>3
  <2> HIDE DEF P
  <2> QED
    BY ONLY <1>1, <2>1, <2>2, DigitInduction
<1>5. Fine(n)
  BY <1>4
<1>6. Payloads!Digits(n) = InBase(n, b)
  BY DEF Payloads!Digits, Payloads!InBase, InBase, b
<1> QED
  BY <1>5, <1>6

\* The length the server reads from a textual payload is that of codes of digits.
LEMMA ShortRefused ==
  ASSUME NEW q \in Seq(AnyPacket), q # <<>>,
         Len(Payloads!EncodePayloadAsText(q)) < 48
  PROVE  Payloads!DecodePayload(Payloads!EncodePayloadAsText(q)) = <<>>
<1> DEFINE ss == Image(TextPiece, q)
           data == Payloads!EncodePayloadAsText(q)
           p == q[1]
           e == Payloads!EncodePacket(p)
           n == Len(e)
           a == Payloads!IntToString(n)
           g == Payloads!Digits(n)
<1>1. ss \in Seq(Seq(Nat)) /\ Len(ss) = Len(q) /\ \A i \in 1..Len(q) : ss[i] = TextPiece[q[i]]
  BY TextPieceTyped, ImageTyped
<1>2. Len(q) \in Nat /\ Len(q) # 0
  BY LenProperties, EmptySeq
<1>3. 1 \in 1..Len(q) /\ ss # <<>>
  BY <1>1, <1>2, EmptySeq
<1>4. data = Strung(ss) /\ p \in AnyPacket
  BY <1>3, TextPieces, ElementOfSeq
<1> HIDE DEF ss
<1>5. PICK r \in Seq(Nat) : Strung(ss) = ss[1] \o r
  BY <1>1, <1>3, FlattenFirst
<1>6. data = TextPiece[p] \o r
  BY <1>1, <1>3, <1>4, <1>5
<1>7. Parts(data, a, 58, e, r)
  BY <1>4, <1>6, TextParts
<1>8. e \in Seq(Nat) /\ e # <<>>
  BY <1>4, EncodedRead
<1>9. n \in Nat /\ n >= 1
  BY <1>8, LenProperties, EmptySeq
<1>10. Len(data) < 48
  OBVIOUS
<1> HIDE DEF data, p, e, n
<1>11. /\ a \in Seq(Nat) /\ Len(a) = Len(g) /\ Len(g) \in Nat /\ Len(g) >= 1
       /\ \A i \in 1..Len(g) : g[i] \in 0..9 /\ a[i] = 48 + g[i]
       /\ g[1] >= 1
  BY <1>9, NumeralDigits, LeadingDigit
<1> HIDE DEF a, g
<1>12. /\ data \in Seq(Nat) /\ IndexOf(data, 58) = Len(a) + 1 /\ Len(data) \in Nat
       /\ (Len(a) + 1) + Len(e) <= Len(data) /\ Len(e) \in Nat
       /\ \A k \in 1..Len(a) : data[k] = a[k]
  BY ONLY <1>7, PartsFacts
<1>13. data[1] > 48
  <2>1. 1 \in 1..Len(a) /\ 1 \in 1..Len(g)
    BY <1>11
  <2>2. data[1] = a[1] /\ a[1] = 48 + g[1] /\ g[1] \in 0..9
    BY <1>11, <1>12, <2>1
  <2> QED
    BY <1>11, <2>2
<1>14. SubSeq(data, 1, Len(a)) = a
  <2>1. Len(a) <= Len(data)
    BY <1>11, <1>12
  <2> QED
    BY <1>11, <1>12, <2>1, PrefixIs
<1>15. NumberOf(a, 10) \in Nat /\ NumberOf(a, 10) >= 48
  <2>1. ASSUME NEW i \in 1..Len(a) PROVE a[i] >= 48
    <3>1. g[i] \in 0..9 /\ a[i] = 48 + g[i]
      BY <1>11
    <3> QED
      BY <3>1
  <2>2. a # <<>>
    BY <1>11, EmptySeq
  <2>3. 48 \in Nat
    OBVIOUS
  <2> QED
    BY <1>11, <2>1, <2>2, <2>3, NumberAtLeast
<1>16. Number(data, 0, 58) = NumberOf(a, 10)
  <2>1. 0 + 1 = 1 /\ IndexOf(data, 58) - 1 = Len(a)
    BY <1>11, <1>12, SMTT(60)
  <2> QED
    BY <1>14, <2>1 DEF Number
<1>17. data \in ServerStop(0, 58)
  <2>1. IndexOf(data, 58) + Number(data, 0, 58) > Len(data)
    BY <1>10, <1>11, <1>12, <1>15, <1>16, SMTT(60)
  <2> QED
    BY <1>12, <2>1 DEF ServerStop
<1>18. Payloads!DecodePayload(data) = ServerReader(0, 58)[data]
  <2>1. Payloads!DecodePayload(data) = Payloads!DecodeFrom(data, 0, 58)
    BY <1>13 DEF Payloads!DecodePayload, Payloads!Zero, Payloads!Colon
  <2> QED
    BY <2>1, DecodeFromIs DEF ServerReader
<1>19. Reader(ServerReader(0, 58), ServerStop(0, 58), At(58), Lengthy(0, 58))
  <2>1. 0 \in Nat /\ 58 \in Nat
    OBVIOUS
  <2> QED
    BY ONLY <2>1, ServerReaderReads
<1>20. ServerReader(0, 58)[data] = <<>>
  BY <1>12, <1>17, <1>19 DEF Reader
<1> QED
  BY <1>18, <1>20 DEF data

PayloadTyped == packets \in Seq(AnyPacket)

LEMMA PayloadSteps ==
  ASSUME PayloadTyped, [Next]_vars
  PROVE  PayloadTyped'
<1>1. Payloads!Write \/ packets' = packets
  BY DEF Next, vars, PayloadsRest
<1>2. CASE Payloads!Write
  <2>1. PICK p \in AnyPacket : packets' = Append(packets, p)
    BY <1>2, QueuedShape DEF Payloads!Write
  <2> QED
    BY <2>1, AppendProperties DEF PayloadTyped
<1>3. CASE packets' = packets
  BY <1>3 DEF PayloadTyped
<1> QED
  BY <1>1, <1>2, <1>3

LEMMA PayloadTypedSays ==
  ASSUME PayloadTyped
  PROVE  PayloadsRead
<1>1. packets \in Seq(AnyPacket)
  BY DEF PayloadTyped
<1>2. Payloads!TextReadByClient
  BY <1>1, TextualRead DEF Payloads!TextReadByClient
<1>3. Payloads!BinaryReadByServer
  <2> SUFFICES ASSUME ~Payloads!Strings(packets)
               PROVE  Payloads!DecodePayload(Payloads!ClientPayload(packets))
                        = Payloads!Stripped(packets)
    BY DEF Payloads!BinaryReadByServer
  <2>1. packets # <<>>
    <3>1. packets = <<>> => 1..Len(packets) = {}
      BY EmptySeq
    <3> QED
      BY <3>1 DEF Payloads!Strings
  <2> QED
    BY <1>1, <2>1, BinaryRead DEF Payloads!ClientPayload
<1>4. Payloads!LastReadByClient
  BY <1>1, LastRead DEF Payloads!LastReadByClient
<1>5. Payloads!ShortTextRefused
  BY <1>1, ShortRefused DEF Payloads!ShortTextRefused, Payloads!ClientPayload, Payloads!Zero
<1> QED
  BY <1>2, <1>3, <1>4, <1>5 DEF PayloadsRead

\* Whatever the packets of a payload and however many: the client's decodePayload
\* reads the text of EncodePayload packet by packet, and DecodePayloadAsBinary
\* the bytes of encodePayloadAsArrayBuffer; of the bytes of EncodePayloadAsBinary
\* the client has the last packet, whole; and of a text that is shorter than the
\* code of a digit the server makes no packet.
THEOREM PayloadsAreRead == Spec => []PayloadsRead
<1>1. Init => PayloadTyped
  BY EmptySeq DEF Init, Payloads!Init, PayloadTyped
<1>2. PayloadTyped /\ [Next]_vars => PayloadTyped'
  BY PayloadSteps
<1>3. PayloadTyped => PayloadsRead
  BY PayloadTypedSays
<1> QED
  BY <1>1, <1>2, <1>3, PTL DEF Spec

-----------------------------------------------------------------------------
(* Socket.io packets: characters and ids.                                  *)

Chars == STRING

LEMMA FigureFacts ==
  /\ Socketio!Digit \in Seq(Chars) /\ Len(Socketio!Digit) = 10
  /\ \A i, j \in 1..10 : Socketio!Digit[i] = Socketio!Digit[j] => i = j
  /\ \A i \in 1..10 : Socketio!Digit[i] \in Figures
  /\ \A c \in Figures : \E i \in 1..10 : Socketio!Digit[i] = c
<1> DEFINE D == Socketio!Digit
<1>1. D = [i \in 1..10 |-> D[i]]
  BY DEF Socketio!Digit
<1>2. Len(D) = 10
  BY DEF Socketio!Digit
<1>3. \A i, j \in 1..10 : D[i] = D[j] => i = j
  BY DEF Socketio!Digit
<1>4. \A i \in 1..10 : D[i] \in Figures
  BY DEF Socketio!Digit, Figures
<1>5. \A c \in Figures : \E i \in 1..10 : D[i] = c
  <2>1. /\ D[1] = "0" /\ D[2] = "1" /\ D[3] = "2" /\ D[4] = "3" /\ D[5] = "4"
        /\ D[6] = "5" /\ D[7] = "6" /\ D[8] = "7" /\ D[9] = "8" /\ D[10] = "9"
    BY DEF Socketio!Digit
  <2> HIDE DEF D
  <2>2. /\ "0" \in CharactersOf(D, 10) /\ "1" \in CharactersOf(D, 10)
        /\ "2" \in CharactersOf(D, 10) /\ "3" \in CharactersOf(D, 10)
        /\ "4" \in CharactersOf(D, 10) /\ "5" \in CharactersOf(D, 10)
        /\ "6" \in CharactersOf(D, 10) /\ "7" \in CharactersOf(D, 10)
        /\ "8" \in CharactersOf(D, 10) /\ "9" \in CharactersOf(D, 10)
    BY <2>1 DEF CharactersOf
  <2>3. \A c \in CharactersOf(D, 10) : \E i \in 1..10 : D[i] = c
    BY DEF CharactersOf
  <2> QED
    BY <2>2, <2>3 DEF Figures
<1> HIDE DEF D
<1>6. Figures \subseteq Chars
  BY LiteralsAssumption DEF Chars
<1>7. D \in [1..10 -> Chars] /\ 10 \in Nat
  BY ONLY <1>1, <1>4, <1>6
<1>8. D \in Seq(Chars)
  BY ONLY <1>7, FunctionIsSeq
<1> QED
  BY <1>2, <1>3, <1>4, <1>5, <1>8 DEF D

LEMMA SlashAndComma ==
  "/" \in Chars /\ "," \in Chars /\ "/" \notin Figures /\ "," \notin Figures /\ "/" # ","
<1>1. "/" \in Chars /\ "," \in Chars
  BY LiteralsAssumption DEF Chars
<1>2. "/" \notin Figures /\ "," \notin Figures /\ "/" # ","
  BY DEF Figures
<1> QED
  BY <1>1, <1>2

LEMMA IsDigitIs ==
  ASSUME NEW c
  PROVE  Socketio!IsDigit(c) <=> c \in Figures
<1>1. Socketio!IsDigit(c) <=> \E i \in 1..10 : Socketio!Digit[i] = c
  BY FigureFacts DEF Socketio!IsDigit, Socketio!Range
<1> QED
  BY <1>1, FigureFacts

LEMMA PlaceOf ==
  ASSUME NEW s, NEW c
  PROVE  Socketio!SelectInSeq(s, LAMBDA x : x = c) = IndexOf(s, c)
BY DEF Socketio!SelectInSeq, Socketio!Passing, Socketio!Min, IndexOf, Places, First

LEMMA ValueOf ==
  ASSUME NEW k \in 0..9
  PROVE  /\ Socketio!Digit[k + 1] \in Chars /\ Socketio!Digit[k + 1] \in Figures
         /\ Socketio!Value(Socketio!Digit[k + 1]) = k
<1> DEFINE D == Socketio!Digit
           i == k + 1
           c == D[i]
<1>1. i \in 1..10 /\ i - 1 = k
  OBVIOUS
<1>2. D \in Seq(Chars) /\ Len(D) = 10 /\ (\A m, n \in 1..10 : D[m] = D[n] => m = n)
      /\ c \in Figures /\ c \in Chars
  BY <1>1, FigureFacts, ElementOfSeq
<1>3. \A j \in 1..i - 1 : j \in 1..10 /\ j # i
  BY <1>1
<1> HIDE DEF D, i
<1>4. \A j \in 1..i - 1 : D[j] # c
  BY <1>1, <1>2, <1>3
<1>5. i \in 1..Len(D) /\ D[i] = c
  BY <1>1, <1>2
<1> HIDE DEF c
<1>6. IndexOf(D, c) = i
  BY ONLY <1>2, <1>4, <1>5, IndexFirst
<1>7. Socketio!Value(c) = IndexOf(D, c) - 1
  BY PlaceOf DEF Socketio!Value, D
<1> QED
  BY <1>1, <1>2, <1>6, <1>7 DEF c, D, i

\* All characters of s are digits.
AllFigures(s) == \A i \in 1..Len(s) : s[i] \in Figures

\* What ends an id: nothing, or a character that is no digit.
NoFigure(s) == s = <<>> \/ s[1] \notin Figures

LEMMA IdWritten ==
  ASSUME NEW n \in Nat
  PROVE  /\ Socketio!IntToString(n) \in Seq(Chars)
         /\ Socketio!IntToString(n) # <<>>
         /\ AllFigures(Socketio!IntToString(n))
         /\ Socketio!StringToInt(Socketio!IntToString(n)) = n
<1> DEFINE d == InBase(n, 10)
           s == [i \in DOMAIN d |-> Socketio!Digit[d[i] + 1]]
           l == Len(d)
           v == [i \in DOMAIN s |-> Socketio!Value(s[i])]
<1>1. Socketio!IntToString(n) = s
  BY DEF Socketio!IntToString, Socketio!InBase, InBase
<1>2. d \in Seq(0..9) /\ d # <<>> /\ NumberOf(d, 10) = n
  <2>1. d = Payloads!Digits(n)
    BY DEF Payloads!Digits, Payloads!InBase, InBase
  <2> HIDE DEF d
  <2> QED
    BY <2>1, DigitsIn10
<1> HIDE DEF d
<1>3. l \in Nat /\ l # 0 /\ DOMAIN d = 1..l /\ d \in [1..l -> 0..9]
      /\ \A i \in 1..l : d[i] \in 0..9
  BY <1>2, LenProperties, ElementOfSeq, EmptySeq
<1>4. \A i \in 1..l : s[i] = Socketio!Digit[d[i] + 1]
  BY <1>3
<1>5. \A i \in 1..l : s[i] \in Chars /\ s[i] \in Figures /\ Socketio!Value(s[i]) = d[i]
  BY <1>3, <1>4, ValueOf
<1>6. s \in [1..l -> Chars]
  BY <1>3, <1>5
<1>7. DOMAIN s = 1..l
  BY <1>3
<1> HIDE DEF s
<1>8. s \in Seq(Chars) /\ Len(s) = l
  BY ONLY <1>3, <1>6, FunctionIsSeq
<1>9. s # <<>>
  BY <1>3, <1>8, EmptySeq
<1>10. AllFigures(s)
  BY <1>5, <1>8 DEF AllFigures
<1>11. v = d
  <2>1. v = [i \in 1..l |-> v[i]] /\ \A i \in 1..l : v[i] = d[i]
    BY <1>5, <1>7
  <2>2. d = [i \in 1..l |-> d[i]]
    BY <1>3
  <2> HIDE DEF v
  <2> QED
    BY <2>1, <2>2
<1>12. Socketio!StringToInt(s) = NumberOf(v, 10)
  BY DEF Socketio!StringToInt, Socketio!NumberOf, NumberOf
<1> QED
  BY <1>1, <1>2, <1>8, <1>9, <1>10, <1>11, <1>12

\* The digits in front of what is none are the number.
LEMMA NumberIs ==
  ASSUME NEW a \in Seq(Chars), NEW b \in Seq(Chars), AllFigures(a), NoFigure(b)
  PROVE  Socketio!Number(a \o b) = a
<1> DEFINE s == a \o b
           W == {i \in 1..Len(s) : ~Socketio!IsDigit(s[i])}
           l == Len(a)
           m == Len(b)
<1>1. l \in Nat /\ m \in Nat
  BY LenProperties
<1>2. Len(s) = l + m /\ \A i \in 1..l + m : s[i] = IF i <= l THEN a[i] ELSE b[i - l]
  BY ConcatProperties
<1>3. SubSeq(s, 1, l) = a
  BY SplitConcat
<1>4. Socketio!Number(s) = LET k == IF W # {} THEN First(W) ELSE 0
                           IN  IF k = 0 THEN s ELSE SubSeq(s, 1, k - 1)
  BY DEF Socketio!Number, Socketio!SelectInSeq, Socketio!Passing, Socketio!Min, First
<1>5. \A i \in 1..l : s[i] \in Figures
  BY <1>1, <1>2 DEF AllFigures
<1> HIDE DEF s
<1>6. CASE b = <<>>
  <2>1. s = a
    BY <1>6, ConcatEmptySeq DEF s
  <2>2. W = {}
    BY <1>5, <2>1, IsDigitIs
  <2> HIDE DEF W
  <2> QED
    BY <1>4, <2>1, <2>2 DEF s
<1>7. CASE b # <<>>
  <2>1. m # 0 /\ b[1] \notin Figures
    BY <1>7, EmptySeq DEF NoFigure
  <2>2. l + 1 \in 1..Len(s) /\ l + 1 \in 1..l + m /\ ~(l + 1 <= l) /\ (l + 1) - l = 1
    BY <1>1, <1>2, <2>1
  <2>3. s[l + 1] \notin Figures
    BY <1>2, <2>1, <2>2
  <2>4. l + 1 \in W
    BY <2>2, <2>3, IsDigitIs
  <2>5. ASSUME NEW j \in W PROVE l + 1 <= j
    <3>1. j \in 1..Len(s) /\ s[j] \notin Figures
      BY IsDigitIs
    <3>2. j \notin 1..l
      BY <1>5, <3>1
    <3> HIDE DEF W
    <3> QED
      BY <1>1, <1>2, <3>1, <3>2
  <2>6. W \in SUBSET Nat
    BY <1>1, <1>2
  <2> HIDE DEF W
  <2>7. First(W) = l + 1 /\ W # {}
    BY ONLY <2>4, <2>5, <2>6, FirstIs
  <2>8. l + 1 # 0 /\ (l + 1) - 1 = l
    BY <1>1
  <2> HIDE DEF l
  <2> QED
    BY <1>3, <1>4, <2>7, <2>8 DEF s
<1> QED
  BY <1>6, <1>7

-----------------------------------------------------------------------------
(* Socket.io packets: what follows the type.                               *)

Slash == "/"
Comma == ","

\* An id, if it counts, and a body.
Rest(hasId, id, body) ==
  (IF hasId THEN Socketio!IntToString(id) ELSE <<>>) \o body

NoSlash(s) == s = <<>> \/ s[1] # Slash

LEMMA RestFacts ==
  ASSUME NEW h \in BOOLEAN, NEW id, h => id \in Nat, NEW body \in Seq(Chars), NoSlash(body)
  PROVE  Rest(h, id, body) \in Seq(Chars) /\ NoSlash(Rest(h, id, body))
<1>1. CASE ~h
  <2>1. Rest(h, id, body) = <<>> \o body
    BY <1>1 DEF Rest
  <2>2. <<>> \o body = body
    BY ConcatEmptySeq
  <2> QED
    BY <2>1, <2>2
<1>2. CASE h
  <2> DEFINE a == Socketio!IntToString(id)
  <2>1. Rest(h, id, body) = a \o body
    BY <1>2 DEF Rest
  <2>2. a \in Seq(Chars) /\ a # <<>> /\ AllFigures(a)
    BY <1>2, IdWritten
  <2> HIDE DEF a
  <2>3. Len(a) \in Nat /\ Len(a) # 0 /\ Len(body) \in Nat
    BY <2>2, EmptySeq, LenProperties
  <2>4. 1 \in 1..Len(a) /\ 1 \in 1..Len(a) + Len(body) /\ 1 <= Len(a)
    BY <2>3
  <2>5. a \o body \in Seq(Chars) /\ (a \o body)[1] = a[1]
    BY <2>2, <2>4, ConcatProperties
  <2>6. a[1] \in Figures
    BY <2>2, <2>4 DEF AllFigures
  <2> QED
    BY <2>1, <2>5, <2>6, SlashAndComma DEF NoSlash, Slash
<1> QED
  BY <1>1, <1>2

LEMMA RestRead ==
  ASSUME NEW h \in BOOLEAN, NEW id, h => id \in Nat, NEW body \in Seq(Chars), NoFigure(body)
  PROVE  Socketio!ReadRest(Rest(h, id, body)) = [id |-> IF h THEN id ELSE -1, body |-> body]
<1> DEFINE a == IF h THEN Socketio!IntToString(id) ELSE <<>>
           s == a \o body
<1>1. a \in Seq(Chars) /\ AllFigures(a) /\ (a = <<>> <=> ~h)
      /\ (h => Socketio!StringToInt(a) = id)
  <2>1. CASE h
    BY <2>1, IdWritten
  <2>2. CASE ~h
    BY <2>2, EmptySeq DEF AllFigures
  <2> QED
    BY <2>1, <2>2
<1>2. Rest(h, id, body) = s
  BY DEF Rest
<1> HIDE DEF a
<1>3. Socketio!Number(s) = a
  BY <1>1, NumberIs
<1>4. Socketio!From(s, Len(a)) = body
  BY <1>1, SplitConcat DEF Socketio!From
<1> HIDE DEF s
<1>5. Socketio!ReadRest(s) = [id |-> IF a = <<>> THEN -1 ELSE Socketio!StringToInt(a), body |-> body]
  BY <1>3, <1>4 DEF Socketio!ReadRest
<1>6. (IF a = <<>> THEN -1 ELSE Socketio!StringToInt(a)) = IF h THEN id ELSE -1
  BY <1>1
<1> QED
  BY <1>2, <1>5, <1>6

LEMMA RootRest ==
  ASSUME NEW p, NEW h, p.nsp = Socketio!Root, NEW r \in Seq(Chars), r = Rest(h, p.id, p.body)
  PROVE  Socketio!WriteRest(p, h) = r
<1> DEFINE nsp == <<>>
<1>1. Socketio!WriteRest(p, h) = (nsp \o <<>>) \o r
  BY DEF Socketio!WriteRest, Rest
<1>2. nsp \o <<>> = <<>> /\ <<>> \o r = r
  BY EmptySeq, ConcatEmptySeq
<1> HIDE DEF nsp
<1> QED
  BY <1>1, <1>2

\* A name of a namespace other than the root.
Named(n) == n \in Seq(Chars) /\ Len(n) > 1 /\ n[1] = Slash /\ Lacks(n, Comma)

LEMMA NamedRest ==
  ASSUME NEW p, NEW h, Named(p.nsp), NEW r \in Seq(Chars), r = Rest(h, p.id, p.body)
  PROVE  \/ r = <<>> /\ Socketio!WriteRest(p, h) = p.nsp
         \/ r # <<>> /\ Splits(Socketio!WriteRest(p, h), p.nsp, Comma, r, Chars)
<1> DEFINE n == p.nsp
<1>1. n \in Seq(Chars) /\ Len(n) > 1 /\ Lacks(n, Comma)
  BY DEF Named
<1>2. n # Socketio!Root /\ n # <<>>
  <2>1. Len(Socketio!Root) = 1
    BY DEF Socketio!Root
  <2> HIDE DEF n
  <2>2. Len(n) # 1 /\ Len(n) # 0
    <3> DEFINE l == Len(n)
    <3>1. l \in Nat /\ l > 1
      BY <1>1, LenProperties
    <3> HIDE DEF l
    <3>2. l # 1 /\ l # 0
      BY <3>1
    <3> QED
      BY <3>2 DEF l
  <2> QED
    BY <2>1, <2>2, EmptySeq
<1>3. Socketio!WriteRest(p, h) = (n \o (IF r # <<>> THEN <<Comma>> ELSE <<>>)) \o r
  BY <1>2 DEF Socketio!WriteRest, Rest, Comma
<1> HIDE DEF n
<1>4. CASE r = <<>>
  <2>1. (n \o <<>>) \o <<>> = n
    BY <1>1, ConcatEmptySeq
  <2>2. Socketio!WriteRest(p, h) = (n \o <<>>) \o <<>>
    BY <1>3, <1>4
  <2> QED
    BY <1>4, <2>1, <2>2 DEF n
<1>5. CASE r # <<>>
  <2>1. Socketio!WriteRest(p, h) = (n \o <<Comma>>) \o r
    BY <1>3, <1>5
  <2> QED
    BY <1>1, <1>5, <2>1, SlashAndComma DEF Splits, n, Comma
<1> QED
  BY <1>4, <1>5

\* The name of the namespace that is read from what follows the type.
NameIn(rest) ==
  IF rest # <<>> /\ Head(rest) = "/" THEN Socketio!UpTo(rest, ",") ELSE <<>>

LEMMA NoNameIn ==
  ASSUME NEW r \in Seq(Chars), NoSlash(r)
  PROVE  NameIn(r) = <<>> /\ Socketio!From(r, Len(NameIn(r))) = r
<1>1. NameIn(r) = <<>>
  <2>1. CASE r = <<>>
    BY <2>1 DEF NameIn
  <2>2. CASE r # <<>>
    <3>1. r[1] # Slash /\ Head(r) = r[1]
      BY <2>2 DEF NoSlash
    <3> QED
      BY <3>1 DEF NameIn, Slash
  <2> QED
    BY <2>1, <2>2
<1>2. Len(NameIn(r)) = 0
  BY <1>1
<1>3. SubSeq(r, 0 + 1, Len(r)) = r
  BY SubSeqFull
<1> QED
  BY <1>1, <1>2, <1>3 DEF Socketio!From

LEMMA NameAlone ==
  ASSUME NEW n, Named(n)
  PROVE  NameIn(n) = n
<1>1. n \in Seq(Chars) /\ Len(n) > 1 /\ n[1] = Slash /\ Lacks(n, Comma)
  BY DEF Named
<1>2. n # <<>> /\ Head(n) = Slash
  <2>1. n # <<>>
    BY <1>1, EmptySeq
  <2> QED
    BY <1>1, <2>1
<1>3. ~(Comma \in Socketio!Range(n))
  BY <1>1 DEF Socketio!Range, Lacks
<1> QED
  BY <1>2, <1>3 DEF NameIn, Socketio!UpTo, Slash, Comma

LEMMA NameSplit ==
  ASSUME NEW n, Named(n), NEW r, NEW s, Splits(s, n, Comma, r, Chars)
  PROVE  /\ NameIn(s) = n /\ Len(n) < Len(s)
         /\ Socketio!From(s, Len(n) + 1) = r
<1> DEFINE l == Len(n)
           c == Comma
<1>1. n \in Seq(Chars) /\ l > 1 /\ n[1] = Slash /\ Lacks(n, Comma)
  BY DEF Named
<1>2. r \in Seq(Chars) /\ s = (n \o <<c>>) \o r /\ c \in Chars
  BY DEF Splits
<1>3. /\ s \in Seq(Chars) /\ Len(s) = l + 1 + Len(r) /\ l \in Nat /\ Len(r) \in Nat
      /\ \A i \in 1..l : s[i] = n[i]
      /\ s[l + 1] = c
  BY SplitFacts
<1>4. IndexOf(s, c) = l + 1
  BY IndexSplit
<1>5. (c \in Socketio!Range(s))
  <2>1. l + 1 \in 1..Len(s)
    BY <1>3
  <2> QED
    BY <1>3, <2>1 DEF Socketio!Range
<1> DEFINE one == <<c>>
           h == n \o one
<1> HIDE DEF c
<1>6. one \in Seq(Chars) /\ Len(one) = 1
  BY <1>2
<1>7. h \in Seq(Chars) /\ Len(h) = l + 1
  <2> HIDE DEF one
  <2>1. n \in Seq(Chars)
    BY <1>1
  <2>2. n \o one \in Seq(Chars) /\ Len(n \o one) = Len(n) + Len(one)
    BY ONLY <1>6, <2>1, ConcatProperties
  <2> QED
    BY ONLY <1>6, <2>2
<1>8. SubSeq(s, (l + 1) + 1, Len(s)) = r
  <2>1. s = h \o r
    BY <1>2
  <2> HIDE DEF h
  <2> QED
    BY <1>2, <1>7, <2>1, SplitConcat
<1>9. SubSeq(s, 1, l) = n
  <2> DEFINE t == one \o r
  <2>1. t \in Seq(Chars)
    <3> HIDE DEF one
    <3> QED
      BY <1>2, <1>6, ConcatProperties
  <2>2. s = n \o t
    <3>1. Triple(Chars, n, one, r)
      BY <1>1, <1>2, <1>6 DEF Triple
    <3> HIDE DEF one
    <3> QED
      BY <1>2, <3>1, Associate DEF one
  <2> HIDE DEF t
  <2> QED
    BY <1>1, <2>1, <2>2, SplitConcat
<1>10. Socketio!UpTo(s, c) = n
  <2>1. (l + 1) - 1 = l
    BY <1>3
  <2>2. Socketio!SelectInSeq(s, LAMBDA x : x = c) = l + 1
    BY <1>4, PlaceOf
  <2> HIDE DEF l
  <2> QED
    BY <1>5, <1>9, <2>1, <2>2 DEF Socketio!UpTo
<1>11. s # <<>> /\ Head(s) = Slash
  <2>1. Len(s) # 0 /\ 1 \in 1..l
    BY <1>1, <1>3
  <2>2. s # <<>> /\ s[1] = Slash
    BY <1>1, <1>3, <2>1, EmptySeq
  <2> QED
    BY <1>3, <2>2
<1>12. l < Len(s)
  BY <1>3
<1> HIDE DEF l
<1>13. NameIn(s) = n
  BY <1>10, <1>11 DEF NameIn, c, Slash, Comma
<1> QED
  BY <1>8, <1>12, <1>13 DEF l, Socketio!From

-----------------------------------------------------------------------------
(* Socket.io packets: what is read of them.                                *)

SocketioBody == Json \cup Plain \cup {<<>>}

SocketioPacket ==
  [type : 0..4, nsp : Names \cup {Socketio!Root}, id : Nat \cup {-1}, body : SocketioBody]

LEMMA BodyFacts ==
  ASSUME NEW b \in SocketioBody
  PROVE  b \in Seq(Chars) /\ NoSlash(b) /\ (b \notin Plain => NoFigure(b))
<1>1. CASE b = <<>>
  BY <1>1, EmptySeq DEF NoSlash, NoFigure
<1>2. CASE b \in Json \cup Plain
  BY <1>2, PacketsAssumption DEF Chars, NoSlash, NoFigure, Slash
<1> QED
  BY <1>1, <1>2 DEF SocketioBody

LEMMA NameFacts ==
  ASSUME NEW n \in Names
  PROVE  Named(n)
<1>1. n \in Seq(Chars)
  BY PacketsAssumption DEF Chars
<1>2. Len(n) > 1
  BY PacketsAssumption
<1>3. n[1] = Slash /\ Lacks(n, Comma)
  BY PacketsAssumption DEF Slash, Comma, Lacks
<1> QED
  BY <1>1, <1>2, <1>3 DEF Named

\* A text that starts with a type.
LEMMA TypeRead ==
  ASSUME NEW t \in 0..4, NEW r \in Seq(Chars)
  PROVE  LET data == <<Socketio!Digit[t + 1]>> \o r IN
         /\ Tail(data) = r /\ Socketio!Value(Head(data)) = t
<1> DEFINE c == Socketio!Digit[t + 1]
<1>1. t \in 0..9
  OBVIOUS
<1>2. c \in Chars /\ Socketio!Value(c) = t
  BY <1>1, ValueOf
<1> HIDE DEF c
<1>3. Head(<<c>> \o r) = c /\ Tail(<<c>> \o r) = r
  BY <1>2, HeadTailOne
<1> QED
  BY <1>2, <1>3 DEF c

\* What the server makes of what follows the type.
LEMMA DecodeIs ==
  ASSUME NEW t \in 0..4, NEW r \in Seq(Chars)
  PROVE  Socketio!Decode(<<Socketio!Digit[t + 1]>> \o r)
           = LET read == Socketio!ReadRest(Socketio!From(r, Len(NameIn(r))))
             IN  [type |-> t, nsp |-> IF NameIn(r) = <<>> THEN Socketio!Root ELSE NameIn(r),
                  id |-> read.id, body |-> read.body]
<1> DEFINE data == <<Socketio!Digit[t + 1]>> \o r
<1>1. Tail(data) = r /\ Socketio!Value(Head(data)) = t
  BY TypeRead
<1> HIDE DEF data
<1>2. Socketio!Decode(data)
        = LET read == Socketio!ReadRest(Socketio!From(r, Len(NameIn(r))))
          IN  [type |-> t, nsp |-> IF NameIn(r) = <<>> THEN Socketio!Root ELSE NameIn(r),
               id |-> read.id, body |-> read.body]
  BY <1>1 DEF Socketio!Decode, NameIn
<1> QED
  BY <1>2 DEF data

\* What a packet has after its type is a text, in either of two forms.
LEMMA RestOf ==
  ASSUME NEW p \in SocketioPacket, NEW h \in BOOLEAN, h => p.id \in Nat
  PROVE  LET r == Rest(h, p.id, p.body)
             w == Socketio!WriteRest(p, h)
         IN  /\ r \in Seq(Chars) /\ NoSlash(r) /\ w \in Seq(Chars)
             /\ \/ p.nsp = Socketio!Root /\ w = r
                \/ Named(p.nsp) /\ r = <<>> /\ w = p.nsp
                \/ Named(p.nsp) /\ r # <<>> /\ Splits(w, p.nsp, Comma, r, Chars)
<1> DEFINE id == p.id
           body == p.body
           r == Rest(h, id, body)
           w == Socketio!WriteRest(p, h)
<1>1. body \in Seq(Chars) /\ NoSlash(body)
  BY BodyFacts DEF SocketioPacket
<1>2. h => id \in Nat
  OBVIOUS
<1>3. r = Rest(h, p.id, p.body)
  OBVIOUS
<1> HIDE DEF id, body
<1>4. r \in Seq(Chars) /\ NoSlash(r)
  BY <1>1, <1>2, RestFacts
<1> HIDE DEF r
<1>5. CASE p.nsp = Socketio!Root
  <2>1. w = r
    BY <1>3, <1>4, <1>5, RootRest
  <2> QED
    BY <1>3, <1>4, <1>5, <2>1
<1>6. CASE p.nsp # Socketio!Root
  <2>1. Named(p.nsp)
    BY <1>6, NameFacts DEF SocketioPacket
  <2>2. \/ r = <<>> /\ w = p.nsp
        \/ r # <<>> /\ Splits(w, p.nsp, Comma, r, Chars)
    BY <1>3, <1>4, <2>1, NamedRest
  <2> HIDE DEF w
  <2>3. w \in Seq(Chars)
    <3>1. CASE w = p.nsp
      BY <2>1, <3>1 DEF Named
    <3>2. CASE Splits(w, p.nsp, Comma, r, Chars)
      BY <3>2, SplitFacts
    <3> QED
      BY <2>2, <3>1, <3>2
  <2> QED
    BY <1>3, <1>4, <2>1, <2>2, <2>3 DEF w
<1> QED
  BY <1>5, <1>6

\* The name is read whole.
LEMMA NameRead ==
  ASSUME NEW p \in SocketioPacket, NEW h \in BOOLEAN, h => p.id \in Nat
  PROVE  (IF NameIn(Socketio!WriteRest(p, h)) = <<>> THEN Socketio!Root
          ELSE NameIn(Socketio!WriteRest(p, h))) = p.nsp
<1> DEFINE r == Rest(h, p.id, p.body)
           w == Socketio!WriteRest(p, h)
           n == p.nsp
<1>1. /\ r \in Seq(Chars) /\ NoSlash(r) /\ w \in Seq(Chars)
      /\ \/ n = Socketio!Root /\ w = r
         \/ Named(n) /\ r = <<>> /\ w = n
         \/ Named(n) /\ r # <<>> /\ Splits(w, n, Comma, r, Chars)
  BY RestOf
<1> HIDE DEF r, w, n
<1>2. CASE n = Socketio!Root /\ w = r
  BY <1>1, <1>2, NoNameIn DEF w, n
<1>3. CASE Named(n) /\ (w = n \/ Splits(w, n, Comma, r, Chars))
  <2>1. NameIn(w) = n
    BY <1>3, NameAlone, NameSplit
  <2>2. n # <<>>
    <3>1. Len(n) > 1 /\ n \in Seq(Chars)
      BY <1>3 DEF Named
    <3> QED
      BY <3>1, EmptySeq
  <2> QED
    BY <2>1, <2>2 DEF w, n
<1> QED
  BY <1>1, <1>2, <1>3

LEMMA ClientIdTyped ==
  ASSUME NEW p \in SocketioPacket
  PROVE  (p.id # -1) \in BOOLEAN /\ (p.id # -1 => p.id \in Nat)
BY DEF SocketioPacket

LEMMA Routed ==
  ASSUME NEW p \in SocketioPacket
  PROVE  LET read == Socketio!Decode(Socketio!ClientEncode(p)) IN
         read.type = p.type /\ read.nsp = p.nsp
<1> DEFINE h == p.id # -1
           t == p.type
           w == Socketio!WriteRest(p, h)
<1>1. h \in BOOLEAN /\ (h => p.id \in Nat) /\ t \in 0..4
  BY ClientIdTyped DEF SocketioPacket
<1>2. Socketio!ClientEncode(p) = <<Socketio!Digit[t + 1]>> \o w
  BY DEF Socketio!ClientEncode
<1> HIDE DEF h, t
<1>3. w \in Seq(Chars) /\ (IF NameIn(w) = <<>> THEN Socketio!Root ELSE NameIn(w)) = p.nsp
  BY <1>1, RestOf, NameRead
<1> HIDE DEF w
<1> DEFINE data == <<Socketio!Digit[t + 1]>> \o w
           read == Socketio!ReadRest(Socketio!From(w, Len(NameIn(w))))
           n == IF NameIn(w) = <<>> THEN Socketio!Root ELSE NameIn(w)
<1>4. Socketio!Decode(data) = [type |-> t, nsp |-> n, id |-> read.id, body |-> read.body]
  BY <1>1, <1>3, DecodeIs
<1> HIDE DEF data, read, n
<1>5. Socketio!Decode(data).type = t /\ Socketio!Decode(data).nsp = n
  BY <1>4
<1> QED
  BY <1>2, <1>3, <1>5 DEF t, data, n

LEMMA RootRead ==
  ASSUME NEW p \in SocketioPacket, p.nsp = Socketio!Root, p.body \notin Plain
  PROVE  Socketio!Decode(Socketio!ClientEncode(p)) = p
<1> DEFINE h == p.id # -1
           t == p.type
           id == p.id
           body == p.body
           w == Socketio!WriteRest(p, h)
           r == Rest(h, id, body)
<1>1. h \in BOOLEAN /\ (h => id \in Nat) /\ t \in 0..4 /\ (~h => id = -1)
  BY ClientIdTyped DEF SocketioPacket
<1>2. Socketio!ClientEncode(p) = <<Socketio!Digit[t + 1]>> \o w
  BY DEF Socketio!ClientEncode
<1>3. body \in Seq(Chars) /\ NoFigure(body) /\ NoSlash(body)
  BY BodyFacts DEF SocketioPacket
<1>4. p = [type |-> t, nsp |-> Socketio!Root, id |-> id, body |-> body]
  BY DEF SocketioPacket
<1>5. r = Rest(h, p.id, p.body)
  OBVIOUS
<1> HIDE DEF h, t, id, body
<1>6. r \in Seq(Chars) /\ NoSlash(r)
  BY <1>1, <1>3, RestFacts
<1>7. w = r
  BY <1>5, <1>6, RootRest
<1>8. Socketio!ReadRest(r) = [id |-> IF h THEN id ELSE -1, body |-> body]
  BY <1>1, <1>3, RestRead
<1> HIDE DEF w, r
<1>9. NameIn(r) = <<>> /\ Socketio!From(r, Len(NameIn(r))) = r
  BY <1>6, NoNameIn
<1>10. Socketio!Decode(<<Socketio!Digit[t + 1]>> \o r)
         = [type |-> t, nsp |-> Socketio!Root, id |-> IF h THEN id ELSE -1, body |-> body]
  BY <1>1, <1>6, <1>8, <1>9, DecodeIs
<1>11. (IF h THEN id ELSE -1) = id
  BY <1>1
<1> QED
  BY <1>2, <1>4, <1>7, <1>10, <1>11

\* The packet is one of the client or of the server.
PacketTyped == packet \in SocketioPacket

LEMMA PacketInits == Socketio!Init => PacketTyped
<1>1. Socketio!Root \in Names \cup {Socketio!Root} /\ <<>> \in SocketioBody
      /\ -1 \in Nat \cup {-1} /\ 0 \in 0..4
  BY DEF SocketioBody
<1> DEFINE root == Socketio!Root
           none == <<>>
<1>2. root \in Names \cup {Socketio!Root} /\ none \in SocketioBody
  BY <1>1
<1> HIDE DEF root, none
<1>3. [type |-> 0, nsp |-> root, id |-> -1, body |-> none] \in SocketioPacket
  BY <1>1, <1>2 DEF SocketioPacket
<1> QED
  BY <1>3 DEF Socketio!Init, Socketio!Connect, PacketTyped, root, none

LEMMA PacketSteps ==
  ASSUME PacketTyped, [Next]_vars
  PROVE  PacketTyped'
<1>1. CASE Socketio!Another
  <2>1. packet' \in Socketio!Packet
    BY <1>1 DEF Socketio!Another
  <2>2. Socketio!Packet \subseteq SocketioPacket
    <3>1. {0, 1, 2, 3, 4} \subseteq 0..4
      OBVIOUS
    <3>3. Ids \subseteq Nat \cup {-1}
      BY PacketsAssumption
    <3>2. Socketio!Packet = [type : {0, 1, 2, 3, 4}, nsp : Names \cup {Socketio!Root},
                             id : Ids, body : SocketioBody]
      BY DEF Socketio!Packet, SocketioBody
    <3> QED
      BY ONLY <3>1, <3>2, <3>3 DEF SocketioPacket
  <2> QED
    BY <2>1, <2>2 DEF PacketTyped
<1>2. CASE packet' = packet
  BY <1>2 DEF PacketTyped
<1> QED
  BY <1>1, <1>2 DEF Next, SocketioRest, vars

LEMMA PacketTypedSays ==
  ASSUME PacketTyped
  PROVE  PacketsRead
<1>1. packet \in SocketioPacket
  BY DEF PacketTyped
<1>2. Socketio!RoutedByServer
  BY <1>1, Routed DEF Socketio!RoutedByServer
<1>3. Socketio!RootReadByServer
  BY <1>1, RootRead DEF Socketio!RootReadByServer
<1> QED
  BY <1>2, <1>3 DEF PacketsRead

\* Every packet of the client is routed right, whatever the id, the namespace and
\* the body, and is read whole if its namespace is the root.
THEOREM PacketsAreRead == Spec => []PacketsRead
<1>1. Init => PacketTyped
  BY PacketInits DEF Init
<1>2. PacketTyped /\ [Next]_vars => PacketTyped'
  BY PacketSteps
<1>3. PacketTyped => PacketsRead
  BY PacketTypedSays
<1> QED
  BY <1>1, <1>2, <1>3, PTL DEF Spec

-----------------------------------------------------------------------------
(* Socket.io packets of the server in payloads.                            *)

\* How much the client passes over: the name of a namespace, and a comma.
Passed(w) ==
  Len(NameIn(w)) + (IF NameIn(w) # <<>> /\ Len(NameIn(w)) < Len(w) THEN 1 ELSE 0)

LEMMA PassedRest ==
  ASSUME NEW p \in SocketioPacket, NEW h \in BOOLEAN, h => p.id \in Nat
  PROVE  Socketio!From(Socketio!WriteRest(p, h), Passed(Socketio!WriteRest(p, h)))
           = Rest(h, p.id, p.body)
<1> DEFINE r == Rest(h, p.id, p.body)
           w == Socketio!WriteRest(p, h)
           n == p.nsp
<1>1. /\ r \in Seq(Chars) /\ NoSlash(r) /\ w \in Seq(Chars)
      /\ \/ n = Socketio!Root /\ w = r
         \/ Named(n) /\ r = <<>> /\ w = n
         \/ Named(n) /\ r # <<>> /\ Splits(w, n, Comma, r, Chars)
  BY RestOf
<1> HIDE DEF r, w, n
<1>2. CASE n = Socketio!Root /\ w = r
  <2>1. NameIn(w) = <<>> /\ Socketio!From(w, Len(NameIn(w))) = r
    BY <1>1, <1>2, NoNameIn
  <2>2. Passed(w) = Len(NameIn(w))
    BY <2>1 DEF Passed
  <2> QED
    BY <2>1, <2>2 DEF r, w
<1>3. CASE Named(n) /\ r = <<>> /\ w = n
  <2>1. NameIn(w) = w /\ Len(w) \in Nat
    BY <1>1, <1>3, NameAlone, LenProperties
  <2>2. Passed(w) = Len(w)
    <3> DEFINE l == Len(w)
    <3>1. Passed(w) = l + (IF w # <<>> /\ l < l THEN 1 ELSE 0) /\ l \in Nat
      BY <2>1 DEF Passed
    <3> HIDE DEF l
    <3>2. Passed(w) = l
      BY <3>1
    <3> QED
      BY <3>2 DEF l
  <2>3. SubSeq(w, Len(w) + 1, Len(w)) = <<>>
    BY <2>1, SubSeqEmpty
  <2>4. Socketio!From(w, Len(w)) = <<>>
    BY <2>3 DEF Socketio!From
  <2> QED
    BY <1>3, <2>2, <2>4 DEF r, w
<1>4. CASE Named(n) /\ Splits(w, n, Comma, r, Chars)
  <2>1. NameIn(w) = n /\ Len(n) < Len(w) /\ Socketio!From(w, Len(n) + 1) = r
    BY <1>4, NameSplit
  <2>2. n # <<>>
    <3>1. Len(n) > 1 /\ n \in Seq(Chars)
      BY <1>4 DEF Named
    <3> QED
      BY <3>1, EmptySeq
  <2>3. Passed(w) = Len(n) + 1
    BY <2>1, <2>2 DEF Passed
  <2> QED
    BY <2>1, <2>3 DEF r, w
<1> QED
  BY <1>1, <1>2, <1>3, <1>4

LEMMA ServerIdTyped ==
  ASSUME NEW p \in SocketioPacket, p.id # 0
  PROVE  (p.id > 0) \in BOOLEAN /\ (p.id > 0 => p.id \in Nat) /\ (~(p.id > 0) => p.id = -1)
<1>1. p.id \in Nat \/ p.id = -1
  BY DEF SocketioPacket
<1> DEFINE i == p.id
<1>2. i \in Nat \/ i = -1
  BY <1>1
<1>3. i # 0
  OBVIOUS
<1> HIDE DEF i
<1>4. (i > 0) \in BOOLEAN /\ (i > 0 => i \in Nat) /\ (~(i > 0) => i = -1)
  BY <1>2, <1>3
<1> QED
  BY <1>4 DEF i

LEMMA ServerPacketRead ==
  ASSUME NEW p \in SocketioPacket, p.id # 0, p.body \notin Plain
  PROVE  Socketio!ClientDecode(Socketio!Encode(p)) = p
<1> DEFINE h == p.id > 0
           t == p.type
           id == p.id
           body == p.body
           n == p.nsp
           w == Socketio!WriteRest(p, h)
           r == Rest(h, id, body)
           data == <<Socketio!Digit[t + 1]>> \o w
<1>1. h \in BOOLEAN /\ (h => id \in Nat) /\ (~h => id = -1)
  BY ServerIdTyped
<1>2. Socketio!Encode(p) = data
  BY DEF Socketio!Encode
<1>3. t \in 0..4 /\ body \in Seq(Chars) /\ NoFigure(body)
  BY BodyFacts DEF SocketioPacket
<1>4. p = [type |-> t, nsp |-> n, id |-> id, body |-> body] /\ body \notin Plain
  BY DEF SocketioPacket
<1>5. (h => p.id \in Nat) /\ r = Rest(h, p.id, p.body)
  BY <1>1
<1> HIDE DEF h
<1>6. /\ w \in Seq(Chars)
      /\ (IF NameIn(w) = <<>> THEN Socketio!Root ELSE NameIn(w)) = n
      /\ Socketio!From(w, Passed(w)) = r
  BY <1>1, <1>5, RestOf, NameRead, PassedRest
<1> HIDE DEF t, id, body, n
<1>7. Socketio!ReadRest(r) = [id |-> IF h THEN id ELSE -1, body |-> body]
  BY <1>1, <1>3, RestRead
<1> HIDE DEF r, w
<1>8. Tail(data) = w /\ Socketio!Value(Head(data)) = t
  BY <1>3, <1>6, TypeRead
<1> HIDE DEF data
<1>9. (IF h THEN id ELSE -1) = id
  BY <1>1
<1>10. Socketio!ReadRest(r).body = body /\ Socketio!ReadRest(r).id = id
  BY <1>7, <1>9
<1>11. Socketio!ClientDecode(data)
         = LET read == Socketio!ReadRest(Socketio!From(w, Passed(w)))
           IN  IF read.body \in Plain THEN Socketio!ParserError
               ELSE [type |-> t, nsp |-> IF NameIn(w) = <<>> THEN Socketio!Root ELSE NameIn(w),
                     id |-> read.id, body |-> read.body]
  BY <1>8 DEF Socketio!ClientDecode, Passed, NameIn
<1>12. Socketio!ClientDecode(data) = [type |-> t, nsp |-> n, id |-> id, body |-> body]
  BY <1>4, <1>6, <1>10, <1>11
<1> QED
  BY <1>2, <1>4, <1>12

\* The characters that have a code.
Coded == CharactersOf(Ascii.char, 19)

\* The characters, with c for the comma.
CharRow(c) ==
  <<"quote", c, "/", "0", "1", "2", "3", "4", "5", "6", "7", "8", "9", "I", "[", "]", "a",
    "n", "v">>

LEMMA CharRowFacts ==
  ASSUME NEW c, c \notin {"quote", "/", "0", "1", "2", "3", "4", "5", "6", "7", "8", "9",
                          "I", "[", "]", "a", "n", "v"}
  PROVE  /\ Len(CharRow(c)) = 19 /\ DOMAIN CharRow(c) = 1..19
         /\ \A i, j \in 1..19 : CharRow(c)[i] = CharRow(c)[j] => i = j
<1>1. Len(CharRow(c)) = 19
  BY DEF CharRow
<1>2. DOMAIN CharRow(c) = 1..19
  BY DEF CharRow
<1>3. \A i, j \in 1..19 : CharRow(c)[i] = CharRow(c)[j] => i = j
  BY DEF CharRow
<1> QED
  BY <1>1, <1>2, <1>3

LEMMA AsciiFacts ==
  /\ Len(Ascii.char) = 19 /\ Len(Ascii.code) = 19
  /\ DOMAIN Ascii.char = 1..19 /\ DOMAIN Ascii.code = 1..19
  /\ Ascii.code \in Seq(Nat)
  /\ \A i, j \in 1..19 : Ascii.char[i] = Ascii.char[j] => i = j
  /\ \A i, j \in 1..19 : Ascii.code[i] = Ascii.code[j] => i = j
<1> DEFINE A == CharRow(",")
           C == <<34, 44, 47, 48, 49, 50, 51, 52, 53, 54, 55, 56,
                  57, 73, 91, 93, 97, 110, 118>>
<1>1. Ascii.char = A /\ Ascii.code = C
  BY DEF Ascii, CharRow
<1>0. "," \notin {"quote", "/", "0", "1", "2", "3", "4", "5", "6", "7", "8", "9",
                  "I", "[", "]", "a", "n", "v"}
  OBVIOUS
<1>2. Len(A) = 19 /\ DOMAIN A = 1..19
  BY <1>0, CharRowFacts
<1>3. Len(C) = 19 /\ DOMAIN C = 1..19
  OBVIOUS
<1>4. \A i, j \in 1..19 : A[i] = A[j] => i = j
  BY <1>0, CharRowFacts
<1>5. \A i, j \in 1..19 : C[i] = C[j] => i = j
  OBVIOUS
<1>6. \A i \in 1..19 : C[i] \in Nat
  OBVIOUS
<1>7. C = [i \in 1..19 |-> C[i]]
  OBVIOUS
<1> HIDE DEF A, C
<1>8. C \in [1..19 -> Nat] /\ 19 \in Nat
  BY ONLY <1>6, <1>7
<1>9. C \in Seq(Nat)
  BY ONLY <1>8, FunctionIsSeq
<1> QED
  BY <1>1, <1>2, <1>3, <1>4, <1>5, <1>9

LEMMA FigureCoded ==
  Figures \subseteq Coded /\ Slash \in Coded /\ Comma \in Coded
<1> DEFINE A == Ascii.char
<1>1. /\ A[2] = "," /\ A[3] = "/" /\ A[4] = "0" /\ A[5] = "1" /\ A[6] = "2" /\ A[7] = "3"
      /\ A[8] = "4" /\ A[9] = "5" /\ A[10] = "6" /\ A[11] = "7" /\ A[12] = "8"
      /\ A[13] = "9"
  BY DEF Ascii
<1> HIDE DEF A
<1>2. \A i \in 1..19 : A[i] \in CharactersOf(A, 19)
  BY DEF CharactersOf
<1>3. /\ 2 \in 1..19 /\ 3 \in 1..19 /\ 4 \in 1..19 /\ 5 \in 1..19 /\ 6 \in 1..19
      /\ 7 \in 1..19 /\ 8 \in 1..19 /\ 9 \in 1..19 /\ 10 \in 1..19 /\ 11 \in 1..19
      /\ 12 \in 1..19 /\ 13 \in 1..19
  OBVIOUS
<1> DEFINE X == CharactersOf(A, 19)
<1> HIDE DEF X
<1>4. "," \in X /\ "/" \in X
  BY <1>1, <1>2, <1>3 DEF X
<1>5. /\ "0" \in X /\ "1" \in X /\ "2" \in X /\ "3" \in X /\ "4" \in X
      /\ "5" \in X /\ "6" \in X /\ "7" \in X /\ "8" \in X /\ "9" \in X
  BY <1>1, <1>2, <1>3 DEF X
<1>6. Coded = X
  BY DEF Coded, X, A
<1> QED
  BY <1>4, <1>5, <1>6 DEF Figures, Slash, Comma

LEMMA PlaceIn ==
  ASSUME NEW s, NEW c
  PROVE  SelectInSeq(s, LAMBDA x : x = c) = IndexOf(s, c)
BY DEF SelectInSeq, Passing, Min, IndexOf, Places, First

LEMMA CodedBack ==
  ASSUME NEW s \in Seq(Coded)
  PROVE  BytesOf(s) \in Seq(Nat) /\ TextOf(BytesOf(s)) = s
<1> DEFINE A == Ascii.char
           C == Ascii.code
           n == Len(s)
           b == [i \in DOMAIN s |-> C[IndexOf(A, s[i])]]
           t == [i \in DOMAIN b |-> A[IndexOf(C, b[i])]]
<1>1. BytesOf(s) = b
  BY PlaceIn DEF BytesOf
<1>2. TextOf(b) = t
  BY PlaceIn DEF TextOf
<1>3. n \in Nat /\ DOMAIN s = 1..n /\ s \in [1..n -> Coded] /\ \A i \in 1..n : s[i] \in Coded
  BY LenProperties, ElementOfSeq
<1>4. /\ Len(A) = 19 /\ Len(C) = 19 /\ C \in Seq(Nat)
      /\ \A i, j \in 1..19 : A[i] = A[j] => i = j
      /\ \A i, j \in 1..19 : C[i] = C[j] => i = j
  BY AsciiFacts
<1>5. Coded = {A[k] : k \in 1..19}
  BY DEF Coded, CharactersOf
<1>6. \A i \in DOMAIN s : b[i] = C[IndexOf(A, s[i])]
  OBVIOUS
<1>7. DOMAIN b = DOMAIN s
  OBVIOUS
<1>8. \A i \in DOMAIN b : t[i] = A[IndexOf(C, b[i])]
  OBVIOUS
<1>9. b = [i \in 1..n |-> b[i]] /\ t = [i \in 1..n |-> t[i]] /\ s = [i \in 1..n |-> s[i]]
  BY <1>3, <1>7
<1> HIDE DEF A, C, n, b, t
<1>10. ASSUME NEW k \in 1..19 PROVE IndexOf(A, A[k]) = k /\ IndexOf(C, C[k]) = k /\ C[k] \in Nat
  <2>1. 19 \in Nat
    OBVIOUS
  <2>2. IndexOf(A, A[k]) = k
    BY <1>4, <2>1, FoundWhere
  <2>3. IndexOf(C, C[k]) = k
    BY <1>4, <2>1, FoundWhere
  <2>4. C[k] \in Nat
    BY <1>4, ElementOfSeq
  <2> QED
    BY <2>2, <2>3, <2>4
<1>11. ASSUME NEW i \in 1..n PROVE b[i] \in Nat /\ t[i] = s[i]
  <2>1. PICK k \in 1..19 : s[i] = A[k]
    BY <1>3, <1>5
  <2>2. b[i] = C[k]
    BY <1>3, <1>6, <1>10, <2>1
  <2>3. t[i] = A[k]
    BY <1>3, <1>7, <1>8, <1>10, <2>2
  <2> QED
    BY <1>10, <2>1, <2>2, <2>3
<1>12. b \in Seq(Nat)
  <2>1. b \in [1..n -> Nat]
    BY <1>9, <1>11
  <2> QED
    BY ONLY <1>3, <2>1, FunctionIsSeq
<1>13. t = s
  BY <1>9, <1>11
<1> QED
  BY <1>1, <1>2, <1>12, <1>13

LEMMA FiguresCoded ==
  ASSUME NEW s \in Seq(Chars), AllFigures(s)
  PROVE  s \in Seq(Coded)
<1> DEFINE n == Len(s)
<1>1. n \in Nat /\ s \in [1..n -> Chars]
  BY LenProperties
<1>2. \A i \in 1..n : s[i] \in Coded
  BY FigureCoded DEF AllFigures
<1> HIDE DEF n
<1>3. s \in [1..n -> Coded]
  BY <1>1, <1>2
<1> QED
  BY ONLY <1>1, <1>3, FunctionIsSeq

LEMMA EncodeCoded ==
  ASSUME NEW p \in SocketioPacket, p.body \notin Plain
  PROVE  Socketio!Encode(p) \in Seq(Coded)
<1> DEFINE S == Seq(Coded)
           nsp == IF p.nsp = Socketio!Root THEN <<>> ELSE p.nsp
           a == IF p.id > 0 THEN Socketio!IntToString(p.id) ELSE <<>>
           after == a \o p.body
           comma == IF nsp # <<>> /\ after # <<>> THEN <<Comma>> ELSE <<>>
           type == <<Socketio!Digit[p.type + 1]>>
<1>1. <<>> \in S
  BY EmptySeq
<1>2. Range(Ascii.char) = Coded
  BY AsciiFacts DEF Range, Coded, CharactersOf
<1>3. p.nsp = Socketio!Root \/ p.nsp \in S
  BY <1>2, AsciiAssumption DEF SocketioPacket
<1>4. nsp \in S
  BY <1>1, <1>3
<1>5. p.body \in S
  BY <1>1, <1>2, AsciiAssumption DEF SocketioPacket, SocketioBody
<1>6. a \in S
  <2>1. CASE p.id > 0
    <3>1. p.id \in Nat
      <4>1. p.id \in Nat \/ p.id = -1
        BY DEF SocketioPacket
      <4> QED
        BY <2>1, <4>1
    <3>2. Socketio!IntToString(p.id) \in S
      BY <3>1, IdWritten, FiguresCoded
    <3> QED
      BY <2>1, <3>2
  <2>2. CASE ~(p.id > 0)
    BY <1>1, <2>2
  <2> QED
    BY <2>1, <2>2
<1>7. after \in S
  <2> HIDE DEF a
  <2> QED
    BY ONLY <1>5, <1>6, ConcatProperties
<1>8. comma \in S
  <2>1. <<Comma>> \in S
    BY FigureCoded
  <2> HIDE DEF nsp, after
  <2> QED
    BY <1>1, <2>1
<1>9. type \in S
  <2> DEFINE c == Socketio!Digit[p.type + 1]
  <2>1. p.type \in 0..9
    BY DEF SocketioPacket
  <2>2. c \in Coded
    BY <2>1, ValueOf, FigureCoded
  <2> HIDE DEF c
  <2>3. <<c>> \in S
    BY <2>2
  <2> QED
    BY <2>3 DEF c
<1>10. Socketio!Encode(p) = type \o ((nsp \o comma) \o after)
  BY DEF Socketio!Encode, Socketio!WriteRest, Comma
<1> HIDE DEF nsp, after, comma, type
<1> DEFINE u == nsp \o comma
<1>11. u \in S
  BY ONLY <1>4, <1>8, ConcatProperties
<1> HIDE DEF u
<1> DEFINE v == u \o after
<1>12. v \in S
  BY ONLY <1>7, <1>11, ConcatProperties
<1> HIDE DEF v
<1>13. type \o v \in S
  BY ONLY <1>9, <1>12, ConcatProperties
<1> QED
  BY <1>10, <1>13 DEF u, v

LEMMA CarriedTyped ==
  ASSUME NEW p \in SocketioPacket, p.body \notin Plain
  PROVE  /\ Carried(p) \in AnyPacket
         /\ TextOf(Carried(p).body) = Socketio!Encode(p)
<1> DEFINE b == BytesOf(Socketio!Encode(p))
<1>1. b \in Seq(Nat) /\ TextOf(b) = Socketio!Encode(p)
  BY EncodeCoded, CodedBack
<1>2. Carried(p) = [type |-> 4, body |-> b, raw |-> FALSE]
  BY DEF Carried
<1> HIDE DEF b
<1>3. 4 \in 1..6
  OBVIOUS
<1> QED
  BY <1>1, <1>2, <1>3 DEF AnyPacket

LEMMA PathRead ==
  ASSUME PacketTyped
  PROVE  PathFaithful
<1> SUFFICES ASSUME packet.id # 0, packet.body \notin Plain
             PROVE  LET sent == <<Carried(packet),
                                  Carried([packet EXCEPT !.nsp = Socketio!Root, !.id = -1])>>
                        read == Payloads!ClientReads(Payloads!EncodePayloadAsText(sent))
                    IN  /\ Len(read) = 2
                        /\ Socketio!ClientDecode(TextOf(read[1].body)) = packet
  BY DEF PathFaithful
<1> DEFINE other == [packet EXCEPT !.nsp = Socketio!Root, !.id = -1]
           one == Carried(packet)
           two == Carried(other)
           sent == <<one, two>>
           read == Payloads!ClientReads(Payloads!EncodePayloadAsText(sent))
<1>1. packet \in SocketioPacket
  BY DEF PacketTyped
<1>2. other \in SocketioPacket /\ other.body = packet.body
  <2> DEFINE root == Socketio!Root
  <2>1. root \in Names \cup {Socketio!Root}
    OBVIOUS
  <2> HIDE DEF root
  <2>2. other = [packet EXCEPT !.nsp = root, !.id = -1]
    BY DEF root
  <2> HIDE DEF other
  <2> QED
    BY <1>1, <2>1, <2>2 DEF SocketioPacket
<1> HIDE DEF other
<1>3. one \in AnyPacket /\ TextOf(one.body) = Socketio!Encode(packet) /\ two \in AnyPacket
  BY <1>1, <1>2, CarriedTyped
<1> HIDE DEF one, two
<1>4. sent \in Seq(AnyPacket) /\ Len(sent) = 2 /\ sent[1] = one
  BY <1>3
<1> HIDE DEF sent
<1>5. read = Payloads!Stripped(sent)
  BY <1>4, TextualRead
<1>6. Payloads!Stripped(sent) = [i \in 1..2 |-> [type |-> sent[i].type, body |-> sent[i].body]]
  BY <1>4 DEF Payloads!Stripped
<1> HIDE DEF read
<1>7. Len(read) = 2 /\ read[1].body = one.body
  BY <1>4, <1>5, <1>6
<1>8. Socketio!ClientDecode(TextOf(read[1].body)) = packet
  BY <1>1, <1>3, <1>7, ServerPacketRead
<1> QED
  BY <1>7, <1>8 DEF read, sent, one, two, other

\* Packets of the server go through both formats of the polling transport as they
\* are, when their texts are made of characters that have a code.
THEOREM PathIsFaithful == Spec => []PathFaithful
<1>1. Init => PacketTyped
  BY PacketInits DEF Init
<1>2. PacketTyped /\ [Next]_vars => PacketTyped'
  BY PacketSteps
<1>3. PacketTyped => PathFaithful
  BY PathRead
<1> QED
  BY <1>1, <1>2, <1>3, PTL DEF Spec

-----------------------------------------------------------------------------
(* What the client escapes.                                                *)

\* What an escaped text is written in, and what separates parameters.
Escaped == Requests!Unreserved \cup {"%"}
Separators == {"=", "&", " ", "?"}
CodeOf == [c \in Requests!Writable |-> IF c \in Requests!Unreserved THEN <<c>> ELSE Requests!Escape(c)]

LEMMA RangeIs ==
  ASSUME NEW s, NEW n \in Nat, DOMAIN s = 1..n
  PROVE  Requests!Range(s) = CharactersOf(s, n)
BY DEF Requests!Range, CharactersOf

LEMMA UnreservedIs ==
  Requests!Unreserved =
    CharactersOf(Requests!Upper, 26) \cup CharactersOf(Requests!Lower, 26)
      \cup CharactersOf(Requests!Numeral, 10) \cup {"-", "_", ".", "!", "~", "*"}
<1>1. DOMAIN Requests!Upper = 1..26 /\ DOMAIN Requests!Lower = 1..26 /\ DOMAIN Requests!Numeral = 1..10
  BY UpperFacts, LowerFacts, NumeralFacts, LenProperties
<1>2. 26 \in Nat /\ 10 \in Nat
  OBVIOUS
<1>3. /\ Requests!Range(Requests!Upper) = CharactersOf(Requests!Upper, 26)
      /\ Requests!Range(Requests!Lower) = CharactersOf(Requests!Lower, 26)
      /\ Requests!Range(Requests!Numeral) = CharactersOf(Requests!Numeral, 10)
  BY ONLY <1>1, <1>2, RangeIs
<1> QED
  BY ONLY <1>3 DEF Requests!Unreserved

LEMMA StampableUnreserved == Stampable \subseteq Requests!Unreserved
BY UnreservedIs DEF Stampable

\* Nothing that is left as it is has a meaning in a query.
LEMMA UnreservedPlain == Requests!Unreserved \cap {"=", "&", " ", "?", "%"} = {}
<1>1. /\ \A i \in 1..26 : Requests!Upper[i] \notin {"=", "&", " ", "?", "%"}
      /\ \A i \in 1..26 : Requests!Lower[i] \notin {"=", "&", " ", "?", "%"}
      /\ \A i \in 1..10 : Requests!Numeral[i] \notin {"=", "&", " ", "?", "%"}
  BY DEF Requests!Upper, Requests!Lower, Requests!Numeral
<1>2. {"-", "_", ".", "!", "~", "*"} \cap {"=", "&", " ", "?", "%"} = {}
  OBVIOUS
<1>3. /\ CharactersOf(Requests!Upper, 26) \cap {"=", "&", " ", "?", "%"} = {}
      /\ CharactersOf(Requests!Lower, 26) \cap {"=", "&", " ", "?", "%"} = {}
      /\ CharactersOf(Requests!Numeral, 10) \cap {"=", "&", " ", "?", "%"} = {}
  BY <1>1 DEF CharactersOf
<1> QED
  BY <1>2, <1>3, UnreservedIs

LEMMA EscapedPlain ==
  /\ Escaped \cap Separators = {} /\ Escaped \subseteq Requests!Writable
  /\ Requests!Unreserved \subseteq Escaped /\ "%" \in Escaped /\ "%" \notin Requests!Unreserved
<1>1. {"%"} \cap {"=", "&", " ", "?"} = {}
  OBVIOUS
<1>2. "%" \in Requests!Writable /\ Requests!Unreserved \subseteq Requests!Writable
  BY DEF Requests!Writable, Requests!Reserved
<1> QED
  BY <1>1, <1>2, UnreservedPlain DEF Escaped, Separators

LEMMA HexUnreserved ==
  {"0", "2", "3", "5", "6", "B", "D", "F"} \subseteq Requests!Unreserved
<1>1. /\ Requests!Numeral[1] = "0" /\ Requests!Numeral[3] = "2" /\ Requests!Numeral[4] = "3"
      /\ Requests!Numeral[6] = "5" /\ Requests!Numeral[7] = "6"
      /\ Requests!Upper[2] = "B" /\ Requests!Upper[4] = "D" /\ Requests!Upper[6] = "F"
  BY DEF Requests!Numeral, Requests!Upper
<1>2. {"0", "2", "3", "5", "6"} \subseteq CharactersOf(Requests!Numeral, 10)
  <2>1. /\ 1 \in 1..10 /\ 3 \in 1..10 /\ 4 \in 1..10 /\ 6 \in 1..10 /\ 7 \in 1..10
    OBVIOUS
  <2> QED
    BY ONLY <1>1, <2>1 DEF CharactersOf
<1>3. {"B", "D", "F"} \subseteq CharactersOf(Requests!Upper, 26)
  <2>1. 2 \in 1..26 /\ 4 \in 1..26 /\ 6 \in 1..26
    OBVIOUS
  <2> QED
    BY ONLY <1>1, <2>1 DEF CharactersOf
<1> QED
  BY <1>2, <1>3, UnreservedIs

\* An escape: three characters, of which the first is the percent sign.
EscapeOf(s) == \E a, b \in Requests!Unreserved : s = <<"%", a, b>>

LEMMA EscapeIs ==
  ASSUME NEW c \in Requests!Reserved
  PROVE  EscapeOf(Requests!Escape(c))
<1>1. CASE c = "="
  <2>1. Requests!Escape(c) = <<"%", "3", "D">>
    BY <1>1 DEF Requests!Escape
  <2> QED
    BY <2>1, HexUnreserved DEF EscapeOf
<1>2. CASE c = "&"
  <2>1. Requests!Escape(c) = <<"%", "2", "6">>
    BY <1>2 DEF Requests!Escape
  <2> QED
    BY <2>1, HexUnreserved DEF EscapeOf
<1>3. CASE c = " "
  <2>1. Requests!Escape(c) = <<"%", "2", "0">>
    BY <1>3 DEF Requests!Escape
  <2> QED
    BY <2>1, HexUnreserved DEF EscapeOf
<1>4. CASE c = "%"
  <2>1. Requests!Escape(c) = <<"%", "2", "5">>
    BY <1>4 DEF Requests!Escape
  <2> QED
    BY <2>1, HexUnreserved DEF EscapeOf
<1>5. CASE c = "+"
  <2>1. Requests!Escape(c) = <<"%", "2", "B">>
    BY <1>5 DEF Requests!Escape
  <2> QED
    BY <2>1, HexUnreserved DEF EscapeOf
<1>6. CASE c = "/"
  <2>1. Requests!Escape(c) = <<"%", "2", "F">>
    BY <1>6 DEF Requests!Escape
  <2> QED
    BY <2>1, HexUnreserved DEF EscapeOf
<1> QED
  BY <1>1, <1>2, <1>3, <1>4, <1>5, <1>6 DEF Requests!Reserved

LEMMA EscapeDiffers ==
  ASSUME NEW c \in Requests!Reserved, NEW d \in Requests!Reserved,
         Requests!Escape(c) = Requests!Escape(d)
  PROVE  c = d
<1> DEFINE third(x) == Requests!Escape(x)[3]
<1>1. /\ third("=") = "D" /\ third("&") = "6" /\ third(" ") = "0"
      /\ third("%") = "5" /\ third("+") = "B" /\ third("/") = "F"
  BY DEF Requests!Escape
<1>2. third(c) = third(d)
  OBVIOUS
<1> HIDE DEF third
<1> QED
  BY <1>1, <1>2 DEF Requests!Reserved

Percent == "%"

\* A code is a character that is left as it is, or an escape.
LEMMA CodeIs ==
  ASSUME NEW c \in Requests!Writable
  PROVE  /\ CodeOf[c] \in Seq(Escaped) /\ CodeOf[c] # <<>>
         /\ \/ c \in Requests!Unreserved /\ CodeOf[c] = <<c>> /\ Len(CodeOf[c]) = 1
               /\ CodeOf[c][1] = c /\ c # Percent
            \/ c \in Requests!Reserved /\ c \notin Requests!Unreserved
               /\ CodeOf[c] = Requests!Escape(c)
               /\ Len(CodeOf[c]) = 3 /\ CodeOf[c][1] = Percent
<1>1. CASE c \in Requests!Unreserved
  <2>1. CodeOf[c] = <<c>>
    BY <1>1 DEF CodeOf
  <2>2. c \in Escaped /\ c # Percent
    BY <1>1, EscapedPlain DEF Percent
  <2>3. <<c>> \in Seq(Escaped) /\ Len(<<c>>) = 1 /\ <<c>>[1] = c /\ <<c>> # <<>>
    BY <2>2
  <2> QED
    BY <1>1, <2>1, <2>2, <2>3
<1>2. CASE c \notin Requests!Unreserved
  <2>1. c \in Requests!Reserved /\ CodeOf[c] = Requests!Escape(c)
    BY <1>2 DEF CodeOf, Requests!Writable
  <2>2. PICK a \in Requests!Unreserved, b \in Requests!Unreserved : Requests!Escape(c) = <<Percent, a, b>>
    BY <2>1, EscapeIs DEF EscapeOf, Percent
  <2>3. Percent \in Escaped /\ a \in Escaped /\ b \in Escaped
    BY EscapedPlain DEF Percent
  <2>4. LET s == <<Percent, a, b>> IN s \in Seq(Escaped) /\ Len(s) = 3 /\ s[1] = Percent /\ s # <<>>
    BY ONLY <2>3
  <2> QED
    BY <1>2, <2>1, <2>2, <2>4
<1> QED
  BY <1>1, <1>2

LEMMA CodeTyped == Mapping(CodeOf, Requests!Writable, Seq(Escaped))
<1>1. \A c \in Requests!Writable : CodeOf[c] \in Seq(Escaped)
  BY CodeIs
<1>2. CodeOf = [c \in Requests!Writable |-> CodeOf[c]]
  BY DEF CodeOf
<1> QED
  BY ONLY <1>1, <1>2 DEF Mapping

\* Escapes can be told apart, and from what is left.
LEMMA CodeIsPrefix == PrefixCode(CodeOf, Requests!Writable, Escaped)
<1> DEFINE W == Requests!Writable
<1>1. Mapping(CodeOf, W, Seq(Escaped)) /\ \A c \in W : CodeOf[c] # <<>>
  BY CodeTyped, CodeIs
<1>2. ASSUME NEW c \in W, NEW d \in W, NEW x \in Seq(Escaped), NEW y \in Seq(Escaped),
             CodeOf[c] \o x = CodeOf[d] \o y
      PROVE  c = d /\ x = y
  <2> DEFINE a == CodeOf[c]
             b == CodeOf[d]
  <2>1. a \in Seq(Escaped) /\ b \in Seq(Escaped) /\ a # <<>> /\ b # <<>>
    BY CodeIs
  <2>2. a \o x = b \o y
    BY <1>2
  <2>c. \/ c \in Requests!Unreserved /\ a = <<c>> /\ Len(a) = 1 /\ a[1] = c /\ c # Percent
        \/ c \in Requests!Reserved /\ a = Requests!Escape(c) /\ Len(a) = 3 /\ a[1] = Percent
    BY CodeIs
  <2>d. \/ d \in Requests!Unreserved /\ b = <<d>> /\ Len(b) = 1 /\ b[1] = d /\ d # Percent
        \/ d \in Requests!Reserved /\ b = Requests!Escape(d) /\ Len(b) = 3 /\ b[1] = Percent
    BY CodeIs
  <2> HIDE DEF a, b
  <2>3. a[1] = b[1]
    <3>1. (a \o x)[1] = a[1] /\ (b \o y)[1] = b[1]
      BY <2>1, ConcatFirst
    <3> QED
      BY <2>2, <3>1
  <2>4. Len(a) = Len(b)
    BY <2>3, <2>c, <2>d
  <2>5. a = b /\ x = y
    BY <2>1, <2>2, <2>4, ConcatCancel
  <2>6. c = d
    <3>1. CASE c \in Requests!Unreserved /\ a[1] = c /\ c # Percent
      BY <2>3, <2>d, <3>1
    <3>2. CASE c \in Requests!Reserved /\ a = Requests!Escape(c) /\ a[1] = Percent
      BY <2>3, <2>5, <2>d, <3>2, EscapeDiffers
    <3> QED
      BY <2>c, <3>1, <3>2
  <2> QED
    BY <2>5, <2>6
<1> QED
  BY <1>1, <1>2 DEF PrefixCode

\* What the client sends for a text.
LEMMA SentIs ==
  ASSUME NEW s \in Seq(Requests!Writable)
  PROVE  /\ Requests!encodeURIComponent(s) = Spelled(CodeOf, s)
         /\ Spelled(CodeOf, s) \in Seq(Escaped)
<1>1. Spelled(CodeOf, s) \in Seq(Escaped)
  BY CodeTyped, WrittenTyped
<1>2. \A i \in DOMAIN s : s[i] \in Requests!Writable
  BY ElementOfSeq, LenProperties
<1>3. [i \in DOMAIN s |-> IF s[i] \in Requests!Unreserved THEN <<s[i]>> ELSE Requests!Escape(s[i])]
        = Image(CodeOf, s)
  BY <1>2 DEF Image, CodeOf
<1>4. \A q : Requests!FlattenSeq(q) = Strung(q)
  BY DEF Requests!FlattenSeq, Strung
<1>5. Requests!encodeURIComponent(s) = Strung(Image(CodeOf, s))
  BY <1>3, <1>4 DEF Requests!encodeURIComponent
<1> QED
  BY <1>1, <1>5 DEF Spelled

\* It comes from one text only.
LEMMA SentOnce ==
  ASSUME NEW s \in Seq(Requests!Writable), NEW t \in Seq(Requests!Writable),
         Requests!encodeURIComponent(s) = Requests!encodeURIComponent(t)
  PROVE  s = t
<1>1. Spelled(CodeOf, s) = Spelled(CodeOf, t)
  BY SentIs
<1> QED
  BY <1>1, CodeIsPrefix, WrittenOnce

\* The protocol's own texts are sent as they are.
LEMMA SentPlain ==
  ASSUME NEW s \in Seq(Requests!Unreserved)
  PROVE  s \in Seq(Requests!Writable) /\ Requests!encodeURIComponent(s) = s
<1> DEFINE U == Requests!Unreserved
           W == Requests!Writable
           T == {x \in Seq(U) : Spelled(CodeOf, x) = x}
<1>1. U \subseteq W /\ U \subseteq Escaped
  BY EscapedPlain
<1>2. \A x \in Seq(U) : x \in Seq(W) /\ x \in Seq(Escaped)
  BY <1>1
<1>3. <<>> \in T
  BY WrittenEmpty, EmptySeq
<1>4. ASSUME NEW x \in T, NEW c \in U PROVE Append(x, c) \in T
  <2> DEFINE one == <<c>>
  <2>1. x \in Seq(U) /\ x \in Seq(W) /\ Spelled(CodeOf, x) = x
    BY <1>2
  <2>2. one \in Seq(W) /\ Mapping(CodeOf, W, Seq(Escaped)) /\ x \in Seq(W) /\ c \in W
    BY <1>1, <2>1, CodeTyped
  <2>3. Append(x, c) = x \o one /\ Append(x, c) \in Seq(U)
    BY <2>1, AppendIsConcat, AppendProperties
  <2>4. Spelled(CodeOf, one) = CodeOf[c]
    BY <2>2, WrittenOne
  <2>5. CodeOf[c] = one
    BY <2>2 DEF CodeOf
  <2> DEFINE E == Escaped
  <2>7. Mapping(CodeOf, W, Seq(E)) /\ x \in Seq(W) /\ one \in Seq(W)
    BY <2>2
  <2> HIDE DEF one, W, E, T
  <2>6. Spelled(CodeOf, x \o one) = Spelled(CodeOf, x) \o Spelled(CodeOf, one)
    BY ONLY <2>7, WrittenConcat
  <2> QED
    BY <2>1, <2>3, <2>4, <2>5, <2>6 DEF T
<1>5. T = Seq(U)
  <2>1. T \in SUBSET Seq(U)
    BY DEF T
  <2> HIDE DEF T
  <2> QED
    BY ONLY <1>3, <1>4, <2>1, SequenceInduction
<1>6. s \in Seq(W)
  BY <1>2
<1>7. Requests!encodeURIComponent(s) = Spelled(CodeOf, s)
  BY <1>6, SentIs
<1> QED
  BY <1>5, <1>6, <1>7

-----------------------------------------------------------------------------
(* The server reads the parameters of a URL.                               *)

Passes(s, cs) == {i \in 1..Len(s) : s[i] \in cs}

LEMMA UpToIs ==
  ASSUME NEW S, NEW s \in Seq(S), NEW cs
  PROVE  /\ Passes(s, cs) \in SUBSET Nat
         /\ Requests!UpTo(s, cs) = IF Passes(s, cs) = {} THEN s
                                   ELSE SubSeq(s, 1, First(Passes(s, cs)) - 1)
<1> DEFINE T == Passes(s, cs)
           i == IF T # {} THEN First(T) ELSE 0
<1>1. T \in SUBSET Nat /\ 0 \notin T
  BY LenProperties DEF Passes
<1>2. Requests!SelectInSeq(s, LAMBDA c : c \in cs) = i
  BY DEF Requests!SelectInSeq, Requests!Passing, Requests!Min, Passes, First
<1>3. Requests!UpTo(s, cs) = IF i = 0 THEN s ELSE SubSeq(s, 1, i - 1)
  BY <1>2 DEF Requests!UpTo
<1> HIDE DEF T
<1>4. T # {} => First(T) \in T
  BY <1>1, FirstIn
<1> QED
  BY <1>1, <1>3, <1>4 DEF T

LEMMA UpToTyped ==
  ASSUME NEW S, NEW s \in Seq(S), NEW cs
  PROVE  Requests!UpTo(s, cs) \in Seq(S) /\ Len(Requests!UpTo(s, cs)) \in Nat
<1> DEFINE T == Passes(s, cs)
           k == First(T) - 1
           n == Len(s)
<1>1. T \in SUBSET Nat /\ Requests!UpTo(s, cs) = IF T = {} THEN s ELSE SubSeq(s, 1, k)
  BY UpToIs
<1>2. CASE T = {}
  BY <1>1, <1>2, LenProperties
<1>3. CASE T # {}
  <2>1. First(T) \in T
    BY <1>1, <1>3, FirstIn
  <2>2. First(T) \in 1..n /\ n \in Nat
    BY <2>1, LenProperties DEF Passes
  <2>3. k \in Nat /\ k <= n /\ \A j \in 1..k : j \in 1..n
    BY <2>2
  <2>4. \A j \in 1..k : s[j] \in S
    BY <2>3, ElementOfSeq
  <2> HIDE DEF k, T
  <2>5. SubSeq(s, 1, k) \in Seq(S)
    BY <2>3, <2>4, SubSeqProperties
  <2> QED
    BY <1>1, <1>3, <2>5, LenProperties
<1> QED
  BY <1>2, <1>3

\* A text up to the first of some characters, and what comes after it.
LEMMA UpToSplit ==
  ASSUME NEW S, NEW s, NEW a, NEW c, NEW b, NEW cs, Splits(s, a, c, b, S),
         c \in cs, \A i \in 1..Len(a) : a[i] \notin cs
  PROVE  Requests!UpTo(s, cs) = a /\ Requests!After(s, Len(a)) = b
<1> DEFINE T == Passes(s, cs)
           l == Len(a)
           m == Len(b)
           n == Len(s)
<1>1. /\ s \in Seq(S) /\ n = l + 1 + m /\ l \in Nat /\ m \in Nat
      /\ \A i \in 1..l : s[i] = a[i] /\ s[l + 1] = c
      /\ \A i \in 1..m : s[l + 1 + i] = b[i]
      /\ s[l + 1] = c
  BY SplitFacts
<1>0. a \in Seq(S) /\ b \in Seq(S)
  BY DEF Splits
<1>2. T \in SUBSET Nat
  BY <1>1 DEF Passes
<1>3. l + 1 \in T
  BY <1>1 DEF Passes
<1>4. ASSUME NEW j \in T PROVE l + 1 <= j
  <2>1. j \in 1..n /\ s[j] \in cs
    BY DEF Passes
  <2>2. ~(j \in 1..l)
    BY <1>1, <2>1
  <2> QED
    BY <1>1, <2>1, <2>2
<1> HIDE DEF T
<1>5. First(T) = l + 1
  BY <1>2, <1>3, <1>4, FirstIs
<1>6. Requests!UpTo(s, cs) = SubSeq(s, 1, l)
  <2>1. Requests!UpTo(s, cs) = SubSeq(s, 1, First(T) - 1)
    BY <1>1, <1>3, UpToIs DEF T
  <2>2. First(T) - 1 = l
    BY <1>1, <1>5
  <2> QED
    BY <2>1, <2>2
<1>7. SubSeq(s, 1, l) = a
  <2>1. l <= n
    BY <1>1
  <2> QED
    BY <1>0, <1>1, <2>1, PrefixIs
<1>8. Requests!After(s, l) = b
  <2> DEFINE one == <<c>>
             u == a \o one
  <2>1. one \in Seq(S) /\ Len(one) = 1
    BY DEF Splits
  <2>2. s = (a \o one) \o b
    BY DEF Splits
  <2> HIDE DEF one
  <2>3. /\ Len(s) = Len(a) + Len(one) + Len(b)
        /\ SubSeq(s, Len(a) + Len(one) + 1, Len(a) + Len(one) + Len(b)) = b
    <3>1. a \in Seq(S) /\ one \in Seq(S) /\ b \in Seq(S)
      BY <1>0, <2>1
    <3> DEFINE t == (a \o one) \o b
    <3>2. /\ Len(t) = Len(a) + Len(one) + Len(b)
          /\ SubSeq(t, Len(a) + Len(one) + 1, Len(a) + Len(one) + Len(b)) = b
      BY ONLY <3>1, ThreeParts
    <3> HIDE DEF t
    <3>3. t = s
      BY <2>2 DEF t
    <3> QED
      BY <3>2, <3>3
  <2>4. Len(a) + Len(one) + 1 = Len(a) + 2 /\ Len(a) + Len(one) + Len(b) = Len(s)
    BY <1>1, <2>1, <2>3
  <2> QED
    BY <2>3, <2>4 DEF Requests!After
<1> QED
  BY <1>6, <1>7, <1>8

LEMMA UpToAll ==
  ASSUME NEW S, NEW a \in Seq(S), NEW cs, \A i \in 1..Len(a) : a[i] \notin cs
  PROVE  Requests!UpTo(a, cs) = a /\ Requests!After(a, Len(a)) = <<>>
<1>1. Passes(a, cs) = {}
  BY DEF Passes
<1>2. Requests!UpTo(a, cs) = a
  BY <1>1, UpToIs
<1> DEFINE n == Len(a)
           t == SubSeq(a, n + 2, n)
<1>3. n \in Nat
  BY LenProperties
<1> HIDE DEF n
<1>4. t \in Seq(S) /\ Len(t) = 0
  <2>1. n + 2 \in Nat /\ ~(n + 2 <= n) /\ \A i \in n + 2..n : a[i] \in S
    BY <1>3
  <2> QED
    BY <1>3, <2>1, SubSeqProperties
<1>5. t = <<>>
  BY <1>4, EmptySeq
<1> QED
  BY <1>2, <1>5 DEF Requests!After, n

LEMMA RestTyped ==
  ASSUME NEW S, NEW s \in Seq(S), NEW k \in Nat
  PROVE  /\ Requests!After(s, k) \in Seq(S) /\ Len(Requests!After(s, k)) \in Nat
         /\ Len(Requests!After(s, k)) <= Len(s)
         /\ s # <<>> => Len(Requests!After(s, k)) < Len(s)
<1> DEFINE n == Len(s)
           t == SubSeq(s, k + 2, n)
<1>1. n \in Nat /\ (s # <<>> => n # 0) /\ \A i \in k + 2..n : s[i] \in S
  <2>1. n \in Nat /\ \A i \in k + 2..n : i \in 1..n
    BY LenProperties
  <2> QED
    BY <2>1, ElementOfSeq, EmptySeq
<1> HIDE DEF n
<1>2. t \in Seq(S) /\ Len(t) = IF k + 2 <= n THEN n - (k + 2) + 1 ELSE 0
  BY <1>1, SubSeqProperties
<1> HIDE DEF t
<1>3. Len(t) \in Nat /\ Len(t) <= n /\ (n # 0 => Len(t) < n)
  BY <1>1, <1>2
<1> QED
  BY <1>1, <1>2, <1>3 DEF t, n, Requests!After

-----------------------------------------------------------------------------
\* The first pair of a text, and what comes after it.
KeyIn(r) == Requests!UpTo(r, {"="})
RestIn(r) == Requests!After(r, Len(KeyIn(r)))
ValueIn(r) == Requests!UpTo(RestIn(r), {"&", " "})
MoreIn(r) == Requests!After(RestIn(r), Len(ValueIn(r)))
PairIn(r) == <<KeyIn(r), ValueIn(r)>>
Pairless == {r \in Seq(Chars) : "=" \notin Requests!Range(r)}

\* The recursion of ParseUrl.
ReadsPairs(f) ==
  f = [r \in Seq(Chars) |-> IF r \in Pairless THEN <<>> ELSE <<PairIn(r)>> \o f[MoreIn(r)]]

LEMMA ParamsIs ==
  ASSUME NEW s
  PROVE  Requests!Params(s) = (CHOOSE f : ReadsPairs(f))[s]
<1> DEFINE one(f) ==
      [r \in Seq(STRING) |->
        IF "=" \notin Requests!Range(r) THEN <<>>
        ELSE LET name == Requests!UpTo(r, {"="})
                 rest == Requests!After(r, Len(name))
                 value == Requests!UpTo(rest, {"&", " "})
             IN  <<<<name, value>>>> \o f[Requests!After(rest, Len(value))]]
           two(f) == [r \in Seq(Chars) |-> IF r \in Pairless THEN <<>>
                                           ELSE <<PairIn(r)>> \o f[MoreIn(r)]]
<1>1. ASSUME NEW f PROVE one(f) = two(f)
  BY DEF Chars, Pairless, PairIn, KeyIn, RestIn, ValueIn, MoreIn
<1>2. Requests!Params(s) = (CHOOSE f : f = one(f))[s]
  BY DEF Requests!Params
<1>3. \A f : ReadsPairs(f) <=> f = two(f)
  BY DEF ReadsPairs
<1> HIDE DEF one, two
<1> QED
  BY <1>1, <1>2, <1>3

Couple == Seq(Chars) \X Seq(Chars)

LEMMA PairTyped ==
  ASSUME NEW r \in Seq(Chars)
  PROVE  /\ PairIn(r) \in Couple /\ MoreIn(r) \in Seq(Chars)
         /\ r \in Pairless \/ Len(MoreIn(r)) < Len(r)
<1>1. KeyIn(r) \in Seq(Chars) /\ Len(KeyIn(r)) \in Nat
  BY UpToTyped DEF KeyIn
<1>2. /\ RestIn(r) \in Seq(Chars) /\ Len(RestIn(r)) \in Nat
      /\ r # <<>> => Len(RestIn(r)) < Len(r)
  BY <1>1, RestTyped DEF RestIn
<1>3. ValueIn(r) \in Seq(Chars) /\ Len(ValueIn(r)) \in Nat
  BY <1>2, UpToTyped DEF ValueIn
<1>4. /\ MoreIn(r) \in Seq(Chars) /\ Len(MoreIn(r)) \in Nat
      /\ Len(MoreIn(r)) <= Len(RestIn(r))
  BY <1>2, <1>3, RestTyped DEF MoreIn
<1>5. ASSUME r \notin Pairless PROVE r # <<>>
  <2>1. Requests!Range(<<>>) = {}
    BY DEF Requests!Range
  <2> QED
    BY <1>5, <2>1 DEF Pairless
<1>6. Len(r) \in Nat
  BY LenProperties
<1>7. r \in Pairless \/ Len(MoreIn(r)) < Len(r)
  BY <1>2, <1>4, <1>5, <1>6
<1> QED
  BY <1>1, <1>3, <1>4, <1>7 DEF PairIn, Couple

\* What the server makes of a text, pair by pair.
PairsRead == CHOOSE f : ReadsPairs(f)
ReadPairwise(F) ==
  \A r \in Seq(Chars) : F[r] = IF r \in Pairless THEN <<>> ELSE <<PairIn(r)>> \o F[MoreIn(r)]

LEMMA PairwiseExists == \E F \in [Seq(Chars) -> Seq(Couple)] : ReadPairwise(F)
<1> DEFINE D == Seq(Chars)
           V == Seq(Couple)
           size == [d \in D |-> Len(d)]
           none == [d \in D |-> <<>>]
           found == [d \in D |-> <<PairIn(d)>>]
           next == [d \in D |-> MoreIn(d)]
           st == [d \in D |-> [v \in V |-> found[d] \o v]]
<1>1. size \in [D -> Nat]
  BY LenProperties
<1>2. none \in [D -> V]
  <2>1. <<>> \in V
    BY EmptySeq
  <2> QED
    BY <2>1
<1>3. found \in [D -> V]
  <2>1. ASSUME NEW d \in D PROVE <<PairIn(d)>> \in V
    <3> DEFINE e == PairIn(d)
    <3>1. e \in Couple
      BY PairTyped
    <3> HIDE DEF e
    <3> QED
      BY <3>1 DEF e
  <2> QED
    BY <2>1
<1>4. next \in [D -> D]
  BY PairTyped
<1>5. st \in [D -> [V -> V]]
  <2>1. \A d \in D, v \in V : found[d] \o v \in V
    BY <1>3, ConcatProperties
  <2> HIDE DEF found, D, V
  <2> QED
    BY <2>1
<1>6. \A d \in D : d \in Pairless \/ size[next[d]] < size[d]
  BY <1>4, PairTyped
<1>7. /\ \A d \in D, v \in V : st[d][v] = found[d] \o v
      /\ \A d \in D : found[d] = <<PairIn(d)>> /\ next[d] = MoreIn(d) /\ none[d] = <<>>
  OBVIOUS
<1> HIDE DEF V, size, none, found, next, st
<1>8. Descends(D, V, size, Pairless, none, next, st)
  <2> HIDE DEF D
  <2> QED
    BY <1>1, <1>2, <1>4, <1>5, <1>6 DEF Descends
<1>9. PICK F \in [D -> V] : Solves(F, D, Pairless, none, next, st)
  BY <1>8, SizeRecursion
<1>10. ASSUME NEW r \in D
       PROVE  F[r] = IF r \in Pairless THEN <<>> ELSE <<PairIn(r)>> \o F[MoreIn(r)]
  <2>1. F[r] = IF r \in Pairless THEN none[r] ELSE st[r][F[next[r]]]
    BY <1>9 DEF Solves
  <2>2. next[r] \in D /\ F[next[r]] \in V
    BY <1>4, <1>9
  <2>3. st[r][F[next[r]]] = found[r] \o F[next[r]]
    BY <1>7, <2>2
  <2> QED
    BY <1>7, <2>1, <2>3
<1> QED
  BY <1>9, <1>10 DEF ReadPairwise, V

LEMMA PairsReadPairwise == ReadPairwise(PairsRead)
<1>1. PICK F \in [Seq(Chars) -> Seq(Couple)] : ReadPairwise(F)
  BY PairwiseExists
<1> DEFINE two(f, r) == IF r \in Pairless THEN <<>> ELSE <<PairIn(r)>> \o f[MoreIn(r)]
<1>2. \A f : ReadsPairs(f) <=> f = [r \in Seq(Chars) |-> two(f, r)]
  BY DEF ReadsPairs
<1>3. \A f : ReadPairwise(f) <=> \A r \in Seq(Chars) : f[r] = two(f, r)
  BY DEF ReadPairwise
<1> HIDE DEF two
<1>4. F = [r \in Seq(Chars) |-> two(F, r)]
  <2>1. F = [r \in Seq(Chars) |-> F[r]]
    BY <1>1
  <2>2. \A r \in Seq(Chars) : F[r] = two(F, r)
    BY <1>1, <1>3
  <2> QED
    BY ONLY <2>1, <2>2
<1>5. ReadsPairs(PairsRead)
  BY <1>2, <1>4 DEF PairsRead
<1> DEFINE G == PairsRead
<1>6. G = [r \in Seq(Chars) |-> two(G, r)]
  BY <1>2, <1>5
<1> HIDE DEF G
<1>7. \A r \in Seq(Chars) : G[r] = two(G, r)
  BY <1>6
<1> QED
  BY <1>3, <1>7 DEF G

-----------------------------------------------------------------------------
(* The server reads what the client has put into a query.                  *)

Equals == "="
Ampersand == "&"
Question == "?"

LEMMA CharactersAreStrings ==
  /\ Requests!Writable \subseteq Chars /\ Escaped \subseteq Chars
  /\ Equals \in Chars /\ Ampersand \in Chars /\ Question \in Chars /\ Slash \in Chars
<1>1. Requests!Writable \subseteq Chars /\ Question \in Chars
  BY UrisAssumption DEF Chars, Question
<1>2. Equals \in Requests!Writable /\ Ampersand \in Requests!Writable /\ Slash \in Requests!Writable
  BY DEF Requests!Writable, Requests!Reserved, Equals, Ampersand, Slash
<1> QED
  BY <1>1, <1>2, EscapedPlain

\* A text whose characters separate nothing.
Enclosed(s) == s \in Seq(Chars) /\ \A i \in 1..Len(s) : s[i] \notin Separators

LEMMA SentEnclosed ==
  ASSUME NEW s \in Seq(Requests!Writable)
  PROVE  Enclosed(Requests!encodeURIComponent(s))
<1> DEFINE e == Requests!encodeURIComponent(s)
<1>1. e \in Seq(Escaped)
  BY SentIs
<1> HIDE DEF e
<1>2. \A i \in 1..Len(e) : e[i] \in Escaped
  BY <1>1, ElementOfSeq
<1>3. e \in Seq(Chars)
  <2>1. Escaped \subseteq Chars
    BY CharactersAreStrings
  <2> QED
    BY <1>1, <2>1
<1> QED
  BY <1>2, <1>3, EscapedPlain DEF Enclosed, e

LEMMA EmptyPairless == <<>> \in Seq(Chars) /\ PairsRead[<<>>] = <<>>
<1>1. <<>> \in Pairless
  BY EmptySeq DEF Pairless, Requests!Range
<1> QED
  BY <1>1, EmptySeq, PairsReadPairwise DEF ReadPairwise

WithPair(k, v, read) == << <<k, v>> >> \o read

\* k and v are read of s, and then what r has.
PairThen(s, k, v, rest, r) ==
  /\ Splits(s, k, Equals, rest, Chars) /\ Enclosed(k)
  /\ Requests!UpTo(rest, {"&", " "}) = v /\ Requests!After(rest, Len(v)) = r

LEMMA PairFound ==
  ASSUME NEW s, NEW k, NEW v, NEW rest, NEW r, PairThen(s, k, v, rest, r)
  PROVE  PairsRead[s] = WithPair(k, v, PairsRead[r])
<1>1. /\ Splits(s, k, Equals, rest, Chars) /\ Enclosed(k)
      /\ Requests!UpTo(rest, {"&", " "}) = v /\ Requests!After(rest, Len(v)) = r
  BY DEF PairThen
<1>2. s \in Seq(Chars) /\ Len(k) + 1 \in DOMAIN s /\ s[Len(k) + 1] = Equals
  <2>1. /\ s \in Seq(Chars) /\ Len(s) = Len(k) + 1 + Len(rest)
        /\ Len(k) \in Nat /\ Len(rest) \in Nat /\ s[Len(k) + 1] = Equals
    <3>1. Splits(s, k, Equals, rest, Chars)
      BY <1>1
    <3> QED
      BY ONLY <3>1, SplitFacts
  <2>2. DOMAIN s = 1..Len(s)
    BY <2>1, LenProperties
  <2> QED
    BY <2>1, <2>2
<1>3. s \notin Pairless
  BY <1>2 DEF Pairless, Requests!Range, Equals
<1>4. /\ \A i \in 1..Len(k) : k[i] \notin {"="}
  BY <1>1 DEF Enclosed, Separators
<1>5. KeyIn(s) = k /\ RestIn(s) = rest
  <2>1. Equals \in {"="}
    BY DEF Equals
  <2>2. Requests!UpTo(s, {"="}) = k /\ Requests!After(s, Len(k)) = rest
    BY <1>1, <1>4, <2>1, UpToSplit
  <2> QED
    BY <2>2 DEF KeyIn, RestIn
<1>6. ValueIn(s) = v /\ MoreIn(s) = r
  BY <1>1, <1>5 DEF ValueIn, MoreIn
<1>7. PairIn(s) = <<k, v>>
  BY <1>5, <1>6 DEF PairIn
<1>8. PairsRead[s] = IF s \in Pairless THEN <<>> ELSE <<PairIn(s)>> \o PairsRead[MoreIn(s)]
  BY <1>2, PairsReadPairwise DEF ReadPairwise
<1> QED
  BY <1>3, <1>6, <1>7, <1>8 DEF WithPair

LEMMA EnclosedValue ==
  ASSUME NEW v, Enclosed(v)
  PROVE  /\ v \in Seq(Chars) /\ \A i \in 1..Len(v) : v[i] \notin {"&", " "}
         /\ Lacks(v, Equals) /\ Lacks(v, Ampersand)
BY DEF Enclosed, Separators, Lacks, Equals, Ampersand

\* One pair, as it is written.
Joined(k, v) == (k \o <<Equals>>) \o v

LEMMA JoinedRead ==
  ASSUME NEW k, NEW v, Enclosed(k), Enclosed(v)
  PROVE  /\ Joined(k, v) \in Seq(Chars)
         /\ PairsRead[Joined(k, v)] = << <<k, v>> >>
         /\ \A r \in Seq(Chars) :
              PairsRead[(Joined(k, v) \o <<Ampersand>>) \o r] = << <<k, v>> >> \o PairsRead[r]
<1> DEFINE s == Joined(k, v)
           eq == <<Equals>>
           amp == <<Ampersand>>
           pair == << <<k, v>> >>
<1>1. /\ k \in Seq(Chars) /\ v \in Seq(Chars) /\ Lacks(k, Equals) /\ Lacks(v, Ampersand)
      /\ \A i \in 1..Len(v) : v[i] \notin {"&", " "}
  BY EnclosedValue
<1>2. Equals \in Chars /\ Ampersand \in Chars /\ eq \in Seq(Chars) /\ amp \in Seq(Chars)
  BY CharactersAreStrings
<1>3. s \in Seq(Chars)
  <2> HIDE DEF eq
  <2> QED
    BY <1>1, <1>2, ConcatProperties DEF Joined, eq
<1>4. PairsRead[s] = pair
  <2>1. Splits(s, k, Equals, v, Chars)
    BY <1>1, <1>2 DEF Splits, Joined
  <2>2. Requests!UpTo(v, {"&", " "}) = v /\ Requests!After(v, Len(v)) = <<>>
    BY <1>1, UpToAll
  <2>3. PairThen(s, k, v, v, <<>>)
    BY <2>1, <2>2 DEF PairThen
  <2>4. PairsRead[s] = pair \o PairsRead[<<>>]
    BY <2>3, PairFound DEF WithPair
  <2>5. pair \o <<>> = pair
    <3>1. pair \in Seq(Couple)
      <4> DEFINE e == <<k, v>>
      <4>1. e \in Couple
        BY <1>1 DEF Couple
      <4> HIDE DEF e
      <4>2. <<e>> \in Seq(Couple)
        BY <4>1
      <4> QED
        BY <4>2 DEF e
    <3> HIDE DEF pair
    <3> QED
      BY <3>1, ConcatEmptySeq
  <2> QED
    BY <2>4, <2>5, EmptyPairless
<1>5. ASSUME NEW r \in Seq(Chars)
      PROVE  PairsRead[(s \o amp) \o r] = pair \o PairsRead[r]
  <2> DEFINE h == k \o eq
             rest == (v \o amp) \o r
             t == (s \o amp) \o r
  <2>1. h \in Seq(Chars) /\ v \o amp \in Seq(Chars) /\ rest \in Seq(Chars)
    <3> HIDE DEF eq, amp
    <3> QED
      BY <1>1, <1>2, ConcatProperties
  <2>2. t = h \o rest
    <3> HIDE DEF h, amp
    <3>1. s = h \o v
      BY DEF Joined, h
    <3>2. Triple(Chars, h, v, amp) /\ Triple(Chars, h, v \o amp, r)
      BY <1>1, <1>2, <2>1 DEF Triple
    <3>3. (h \o v) \o amp = h \o (v \o amp)
      BY ONLY <3>2, Associate
    <3>4. (h \o (v \o amp)) \o r = h \o ((v \o amp) \o r)
      BY ONLY <3>2, Associate, SMTT(60)
    <3> QED
      BY <3>1, <3>3, <3>4
  <2>3. Splits(t, k, Equals, rest, Chars)
    BY <1>1, <1>2, <2>1, <2>2 DEF Splits
  <2>4. Splits(rest, v, Ampersand, r, Chars)
    BY <1>1, <1>2 DEF Splits
  <2>5. Ampersand \in {"&", " "}
    BY DEF Ampersand
  <2> HIDE DEF rest, t
  <2>6. Requests!UpTo(rest, {"&", " "}) = v /\ Requests!After(rest, Len(v)) = r
    BY <1>1, <2>4, <2>5, UpToSplit
  <2>7. PairThen(t, k, v, rest, r)
    BY <2>3, <2>6 DEF PairThen
  <2>8. PairsRead[t] = WithPair(k, v, PairsRead[r])
    BY ONLY <2>7, PairFound
  <2> QED
    BY <2>8 DEF t, WithPair
<1> QED
  BY <1>3, <1>4, <1>5

Parameter == Seq(Requests!Writable) \X Seq(Requests!Writable)
SentOf == [p \in Parameter |-> <<Requests!encodeURIComponent(p[1]),
                                 Requests!encodeURIComponent(p[2])>>]
Single(p) == Joined(Requests!encodeURIComponent(p[1]), Requests!encodeURIComponent(p[2]))
PieceAt(p, i) ==
  (IF i = 1 THEN <<>> ELSE <<"&">>)
    \o Requests!encodeURIComponent(p[1]) \o <<"=">> \o Requests!encodeURIComponent(p[2])

LEMMA ParameterSent ==
  ASSUME NEW p \in Parameter
  PROVE  /\ Enclosed(Requests!encodeURIComponent(p[1]))
         /\ Enclosed(Requests!encodeURIComponent(p[2]))
         /\ SentOf[p] = <<Requests!encodeURIComponent(p[1]), Requests!encodeURIComponent(p[2])>>
         /\ SentOf[p] \in Couple
<1>1. p[1] \in Seq(Requests!Writable) /\ p[2] \in Seq(Requests!Writable)
  BY DEF Parameter
<1>2. /\ Enclosed(Requests!encodeURIComponent(p[1]))
      /\ Enclosed(Requests!encodeURIComponent(p[2]))
  BY <1>1, SentEnclosed
<1> QED
  BY <1>2 DEF SentOf, Enclosed, Couple

LEMMA PieceIs ==
  ASSUME NEW p \in Parameter, NEW i \in Nat
  PROVE  /\ Single(p) \in Seq(Chars) /\ PieceAt(p, i) \in Seq(Chars)
         /\ PieceAt(p, i) = IF i = 1 THEN Single(p) ELSE <<Ampersand>> \o Single(p)
<1> DEFINE a == Requests!encodeURIComponent(p[1])
           b == Requests!encodeURIComponent(p[2])
           eq == <<Equals>>
           amp == <<Ampersand>>
<1>1. a \in Seq(Chars) /\ b \in Seq(Chars)
  BY ParameterSent DEF Enclosed
<1>2. eq \in Seq(Chars) /\ amp \in Seq(Chars)
  BY CharactersAreStrings
<1>3. PieceAt(p, i) = (((IF i = 1 THEN <<>> ELSE amp) \o a) \o eq) \o b
  BY DEF PieceAt, Equals, Ampersand
<1>4. Single(p) = (a \o eq) \o b
  BY DEF Single, Joined
<1> HIDE DEF a, b, eq, amp
<1>5. /\ a \o eq \in Seq(Chars) /\ (a \o eq) \o b \in Seq(Chars)
      /\ amp \o ((a \o eq) \o b) \in Seq(Chars)
  BY <1>1, <1>2, ConcatProperties
<1>6. CASE i = 1
  <2>1. <<>> \o a = a
    BY <1>1, ConcatEmptySeq
  <2> QED
    BY <1>3, <1>4, <1>5, <1>6, <2>1
<1>7. CASE i # 1
  <2>1. Triple(Chars, amp, a, eq) /\ Triple(Chars, amp, a \o eq, b)
    BY <1>1, <1>2, <1>5 DEF Triple
  <2>2. (amp \o a) \o eq = amp \o (a \o eq)
    BY ONLY <2>1, Associate
  <2>3. (amp \o (a \o eq)) \o b = amp \o ((a \o eq) \o b)
    BY ONLY <2>1, Associate
  <2> QED
    BY <1>3, <1>4, <1>5, <1>7, <2>2, <2>3 DEF amp
<1> QED
  BY <1>6, <1>7

\* What is made of a text is a sequence of pairs.
LEMMA ReadTyped ==
  ASSUME NEW e \in Seq(Chars)
  PROVE  PairsRead[e] \in Seq(Couple)
<1> DEFINE V == Seq(Couple)
           F == PairsRead
           T == {m \in Nat : \A d \in Seq(Chars) : Len(d) <= m => F[d] \in V}
<1>0. \A r \in Seq(Chars) : F[r] = IF r \in Pairless THEN <<>> ELSE <<PairIn(r)>> \o F[MoreIn(r)]
  BY PairsReadPairwise DEF ReadPairwise
<1> HIDE DEF F
<1>1. ASSUME NEW d \in Seq(Chars), d \in Pairless \/ F[MoreIn(d)] \in V
      PROVE  F[d] \in V
  <2>1. CASE d \in Pairless
    BY <1>0, <2>1, EmptySeq
  <2>2. CASE d \notin Pairless
    <3> DEFINE p == PairIn(d)
               t == F[MoreIn(d)]
    <3>1. p \in Couple /\ t \in V /\ F[d] = <<p>> \o t
      BY <1>0, <1>1, <2>2, PairTyped
    <3> HIDE DEF p, t
    <3>2. <<p>> \in V
      BY <3>1
    <3> DEFINE o == <<p>>
    <3> HIDE DEF o
    <3>3. o \o t \in V
      BY <3>1, <3>2, ConcatProperties DEF o
    <3> QED
      BY <3>1, <3>3 DEF o
  <2> QED
    BY <2>1, <2>2
<1>2. \A d \in Seq(Chars) : /\ Len(d) \in Nat
                            /\ MoreIn(d) \in Seq(Chars) /\ Len(MoreIn(d)) \in Nat
                            /\ d \in Pairless \/ Len(MoreIn(d)) < Len(d)
  <2>1. ASSUME NEW d \in Seq(Chars)
        PROVE  MoreIn(d) \in Seq(Chars) /\ (d \in Pairless \/ Len(MoreIn(d)) < Len(d))
    BY PairTyped
  <2> QED
    BY <2>1, LenProperties
<1> HIDE DEF V
<1>3. 0 \in T
  <2>1. ASSUME NEW d \in Seq(Chars), Len(d) <= 0 PROVE F[d] \in V
    <3>1. d \in Pairless
      BY <1>2, <2>1
    <3> QED
      BY <1>1, <3>1
  <2> QED
    BY <2>1
<1>4. ASSUME NEW m \in T PROVE m + 1 \in T
  <2>1. ASSUME NEW d \in Seq(Chars), Len(d) <= m + 1 PROVE F[d] \in V
    <3>1. d \in Pairless \/ (MoreIn(d) \in Seq(Chars) /\ Len(MoreIn(d)) <= m)
      BY <1>2, <2>1
    <3>2. d \in Pairless \/ F[MoreIn(d)] \in V
      BY <3>1
    <3> QED
      BY <1>1, <3>2
  <2> QED
    BY <2>1
<1>5. T = Nat
  <2>1. T \in SUBSET Nat
    BY DEF T
  <2> HIDE DEF T
  <2> QED
    BY ONLY <1>3, <1>4, <2>1, NumberInduction
<1>6. Len(e) \in Nat /\ Len(e) <= Len(e)
  BY LenProperties
<1> QED
  BY <1>5, <1>6 DEF F, V

Pieces(q) == [i \in DOMAIN q |-> PieceAt(q[i], i)]

LEMMA CompileIs ==
  ASSUME NEW q
  PROVE  Requests!Compile(q) = Strung(Pieces(q))
BY DEF Requests!Compile, Requests!FlattenSeq, Strung, Pieces, PieceAt

LEMMA PiecesTyped ==
  ASSUME NEW q \in Seq(Parameter)
  PROVE  Pieces(q) \in Seq(Seq(Chars)) /\ Len(Pieces(q)) = Len(q)
<1> DEFINE n == Len(q)
           u == Pieces(q)
<1>1. n \in Nat /\ DOMAIN q = 1..n /\ \A i \in 1..n : q[i] \in Parameter /\ i \in Nat
  BY LenProperties, ElementOfSeq
<1> HIDE DEF n
<1>2. \A i \in 1..n : PieceAt(q[i], i) \in Seq(Chars)
  BY <1>1, PieceIs
<1>3. u = [i \in 1..n |-> PieceAt(q[i], i)]
  BY <1>1 DEF Pieces
<1>4. u \in [1..n -> Seq(Chars)]
  BY <1>2, <1>3
<1> HIDE DEF u
<1>5. u \in Seq(Seq(Chars)) /\ Len(u) = n
  BY <1>1, <1>4, FunctionIsSeq
<1> QED
  BY <1>5 DEF u, n

LEMMA PiecesAppend ==
  ASSUME NEW q \in Seq(Parameter), NEW p \in Parameter
  PROVE  Pieces(Append(q, p)) = Append(Pieces(q), PieceAt(p, Len(q) + 1))
<1> DEFINE n == Len(q)
           y == Append(q, p)
           u == Pieces(q)
           e == PieceAt(p, n + 1)
           v == Pieces(y)
           w == Append(u, e)
           R == Seq(Chars)
<1>1. /\ n \in Nat /\ y \in Seq(Parameter) /\ Len(y) = n + 1 /\ y[n + 1] = p
      /\ \A i \in 1..n : y[i] = q[i]
  BY LenProperties, AppendProperties
<1>2. /\ u \in Seq(R) /\ Len(u) = n /\ DOMAIN q = 1..n /\ v \in Seq(R) /\ Len(v) = n + 1
      /\ DOMAIN y = 1..n + 1
  BY <1>1, PiecesTyped, LenProperties
<1>3. e \in R
  BY <1>1, PieceIs
<1>4. \A i \in 1..n + 1 : v[i] = PieceAt(y[i], i)
  BY <1>2 DEF Pieces
<1>5. \A i \in 1..n : u[i] = PieceAt(q[i], i)
  BY <1>2 DEF Pieces
<1>e. e = PieceAt(p, n + 1)
  OBVIOUS
<1> HIDE DEF u, v, y, n, e, R
<1>6. /\ w \in Seq(R) /\ Len(w) = n + 1 /\ w[n + 1] = e
      /\ \A i \in 1..n : w[i] = u[i]
  BY <1>2, <1>3, AppendProperties
<1> HIDE DEF w
<1>7. ASSUME NEW i \in 1..n + 1 PROVE v[i] = w[i]
  <2>1. CASE i \in 1..n
    BY <1>1, <1>4, <1>5, <1>6, <2>1
  <2>2. CASE i = n + 1
    BY <1>1, <1>4, <1>6, <1>e, <2>2
  <2> QED
    BY <1>1, <2>1, <2>2
<1>8. v = w
  BY <1>2, <1>6, <1>7, SeqEqual
<1> QED
  BY <1>8 DEF u, v, w, y, n, e

LEMMA CompileAppend ==
  ASSUME NEW q \in Seq(Parameter), NEW p \in Parameter
  PROVE  /\ Requests!Compile(q) \in Seq(Chars)
         /\ q = <<>> => Requests!Compile(Append(q, p)) = Single(p)
         /\ q # <<>> => Requests!Compile(Append(q, p))
                          = (Requests!Compile(q) \o <<Ampersand>>) \o Single(p)
<1> DEFINE n == Len(q)
           u == Pieces(q)
           e == PieceAt(p, n + 1)
           c == Requests!Compile(q)
           s == Single(p)
           amp == <<Ampersand>>
<1>1. n \in Nat /\ u \in Seq(Seq(Chars))
  BY LenProperties, PiecesTyped
<1>2. s \in Seq(Chars) /\ e \in Seq(Chars) /\ e = IF n + 1 = 1 THEN s ELSE amp \o s
  <2>1. n + 1 \in Nat
    BY <1>1
  <2> DEFINE m == n + 1
  <2> HIDE DEF m
  <2>2. /\ Single(p) \in Seq(Chars) /\ PieceAt(p, m) \in Seq(Chars)
        /\ PieceAt(p, m) = IF m = 1 THEN Single(p) ELSE <<Ampersand>> \o Single(p)
    BY <2>1, PieceIs DEF m
  <2> QED
    BY <2>2 DEF m
<1>3. c = Strung(u)
  BY CompileIs
<1>4. Requests!Compile(Append(q, p)) = Strung(Append(u, e))
  BY CompileIs, PiecesAppend
<1>a. amp \in Seq(Chars)
  BY CharactersAreStrings
<1>b. (q = <<>> => n = 0) /\ (q # <<>> => n # 0)
  BY EmptySeq
<1>c. q = <<>> => c = <<>>
  <2>1. Pieces(<<>>) = <<>>
    BY DEF Pieces
  <2> QED
    BY <1>3, <2>1, FlattenEmpty
<1> HIDE DEF u, e, c, s, amp, n
<1>5. c \in Seq(Chars)
  BY <1>1, <1>3, FlattenTyped
<1>6. Requests!Compile(Append(q, p)) = c \o e
  BY <1>1, <1>2, <1>3, <1>4, FlattenAppend
<1>7. CASE q = <<>>
  <2>1. e = s /\ <<>> \o s = s
    BY <1>1, <1>2, <1>7, <1>b, ConcatEmptySeq
  <2> QED
    BY <1>5, <1>6, <1>7, <1>c, <2>1 DEF c, s
<1>8. CASE q # <<>>
  <2>1. e = amp \o s
    BY <1>1, <1>2, <1>8, <1>b
  <2>2. Triple(Chars, c, amp, s)
    BY <1>2, <1>5, <1>a DEF Triple
  <2>3. (c \o amp) \o s = c \o (amp \o s)
    BY ONLY <2>2, Associate
  <2> QED
    BY <1>5, <1>6, <1>8, <2>1, <2>3 DEF c, s, amp
<1> QED
  BY <1>7, <1>8

LEMMA SentMapped == Mapping(SentOf, Parameter, Couple)
<1>1. \A p \in Parameter : SentOf[p] \in Couple
  BY ParameterSent
<1>2. SentOf = [p \in Parameter |-> SentOf[p]]
  BY DEF SentOf
<1> QED
  BY ONLY <1>1, <1>2 DEF Mapping

LEMMA SingleRead ==
  ASSUME NEW p \in Parameter
  PROVE  /\ Single(p) \in Seq(Chars)
         /\ PairsRead[Single(p)] = <<SentOf[p]>>
         /\ \A r \in Seq(Chars) :
              PairsRead[(Single(p) \o <<Ampersand>>) \o r] = <<SentOf[p]>> \o PairsRead[r]
<1> DEFINE a == Requests!encodeURIComponent(p[1])
           b == Requests!encodeURIComponent(p[2])
<1>1. Enclosed(a) /\ Enclosed(b) /\ SentOf[p] = <<a, b>>
  BY ParameterSent
<1>2. Single(p) = Joined(a, b)
  BY DEF Single
<1> HIDE DEF a, b
<1> QED
  BY <1>1, <1>2, JoinedRead

\* What the server reads of a query is what was sent, pair by pair.
LEMMA QueryRead ==
  ASSUME NEW q \in Seq(Parameter)
  PROVE  PairsRead[Requests!Compile(q)] = Image(SentOf, q)
<1> DEFINE C(x) == Requests!Compile(x)
           amp == <<Ampersand>>
           Good(x) == /\ PairsRead[C(x)] = Image(SentOf, x)
                      /\ x # <<>> => \A r \in Seq(Chars) :
                           PairsRead[(C(x) \o amp) \o r] = Image(SentOf, x) \o PairsRead[r]
           T == {x \in Seq(Parameter) : Good(x)}
<1>0. amp \in Seq(Chars)
  BY CharactersAreStrings
<1>1. <<>> \in T
  <2>1. C(<<>>) = <<>>
    <3>1. Pieces(<<>>) = <<>>
      BY DEF Pieces
    <3> QED
      BY <3>1, CompileIs, FlattenEmpty
  <2>2. Image(SentOf, <<>>) = <<>> /\ <<>> \in Seq(Parameter)
    BY ImageEmpty, EmptySeq
  <2> QED
    BY <2>1, <2>2, EmptyPairless
<1>2. ASSUME NEW x \in T, NEW p \in Parameter PROVE Append(x, p) \in T
  <2> DEFINE y == Append(x, p)
             i == Image(SentOf, x)
             one == <<SentOf[p]>>
             c == C(x)
             s == Single(p)
             d == C(y)
             j == Image(SentOf, y)
  <2>1. x \in Seq(Parameter) /\ y \in Seq(Parameter) /\ y # <<>>
    BY AppendProperties
  <2>2. /\ PairsRead[c] = i
        /\ x # <<>> => \A r \in Seq(Chars) : PairsRead[(c \o amp) \o r] = i \o PairsRead[r]
    OBVIOUS
  <2>3. /\ s \in Seq(Chars) /\ PairsRead[s] = one
        /\ \A r \in Seq(Chars) : PairsRead[(s \o amp) \o r] = one \o PairsRead[r]
    BY SingleRead
  <2>4. /\ c \in Seq(Chars) /\ (x = <<>> => d = s) /\ (x # <<>> => d = (c \o amp) \o s)
    BY <2>1, CompileAppend
  <2>5. /\ j = Append(i, SentOf[p]) /\ i \in Seq(Couple) /\ SentOf[p] \in Couple
    <3>1. Mapping(SentOf, Parameter, Couple) /\ x \in Seq(Parameter) /\ p \in Parameter
      BY <2>1, SentMapped
    <3> QED
      BY ONLY <3>1, ImageAppend
  <2>6. one \in Seq(Couple) /\ j = i \o one
    <3> DEFINE e == SentOf[p]
    <3>1. e \in Couple /\ j = Append(i, e) /\ i \in Seq(Couple)
      BY <2>5
    <3> HIDE DEF e, i, j
    <3>2. <<e>> \in Seq(Couple) /\ Append(i, e) = i \o <<e>>
      BY <3>1, AppendIsConcat
    <3> QED
      BY <3>1, <3>2 DEF e
  <2>7. x = <<>> => i = <<>>
    BY ImageEmpty
  <2> HIDE DEF i, j, c, d, s, one, T, amp, y
  <2>8. CASE x = <<>>
    <3>1. d = s /\ j = one
      BY <2>4, <2>6, <2>7, <2>8, ConcatEmptySeq
    <3> QED
      BY <2>1, <2>3, <3>1 DEF T, d, j, y, amp
  <2>9. CASE x # <<>>
    <3>1. d = (c \o amp) \o s
      BY <2>4, <2>9
    <3>2. \A r \in Seq(Chars) : PairsRead[(c \o amp) \o r] = i \o PairsRead[r]
      BY <2>2, <2>9
    <3>3. PairsRead[d] = j
      BY <2>3, <2>6, <3>1, <3>2
    <3>4. ASSUME NEW r \in Seq(Chars) PROVE PairsRead[(d \o amp) \o r] = j \o PairsRead[r]
      <4> DEFINE t == (s \o amp) \o r
                 f == PairsRead[r]
                 h == c \o amp
      <4>1. h \in Seq(Chars) /\ s \o amp \in Seq(Chars) /\ t \in Seq(Chars)
        BY <1>0, <2>3, <2>4, ConcatProperties
      <4>2. (d \o amp) \o r = h \o t
        <5> HIDE DEF h
        <5>1. Triple(Chars, h, s, amp) /\ Triple(Chars, h, s \o amp, r)
          BY <1>0, <2>3, <4>1 DEF Triple
        <5>2. (h \o s) \o amp = h \o (s \o amp)
          BY ONLY <5>1, Associate
        <5>3. (h \o (s \o amp)) \o r = h \o ((s \o amp) \o r)
          BY ONLY <5>1, Associate
        <5> QED
          BY <3>1, <5>2, <5>3 DEF h
      <4>3. PairsRead[t] = one \o f
        BY <2>3
      <4>4. PairsRead[h \o t] = i \o PairsRead[t]
        BY <3>2, <4>1
      <4>5. (i \o one) \o f = i \o (one \o f)
        <5>1. f \in Seq(Couple)
          BY ReadTyped
        <5>2. Triple(Couple, i, one, f)
          BY <2>5, <2>6, <5>1 DEF Triple, i
        <5> HIDE DEF f
        <5> QED
          BY ONLY <5>2, Associate
      <4> HIDE DEF t, f, h
      <4> QED
        BY ONLY <2>6, <4>2, <4>3, <4>4, <4>5 DEF f
    <3> QED
      BY <2>1, <3>3, <3>4 DEF T, d, j, y, amp
  <2> QED
    BY <2>8, <2>9 DEF y
<1>3. T = Seq(Parameter)
  <2>1. T \in SUBSET Seq(Parameter)
    BY DEF T
  <2> HIDE DEF T
  <2> QED
    BY ONLY <1>1, <1>2, <2>1, SequenceInduction
<1> QED
  BY <1>3

LEMMA UrlRead ==
  ASSUME NEW q \in Seq(Parameter)
  PROVE  Requests!ParseUrl(Requests!Uri(q)) = Image(SentOf, q)
<1> DEFINE c == Requests!Compile(q)
           a == <<Slash>>
           one == <<Question>>
           url == Requests!Uri(q)
<1>1. c \in Seq(Chars)
  <2>1. Pieces(q) \in Seq(Seq(Chars)) /\ c = Strung(Pieces(q))
    BY PiecesTyped, CompileIs
  <2> QED
    BY <2>1, FlattenTyped
<1>2. Slash # Question
  BY DEF Slash, Question
<1>3. a \in Seq(Chars) /\ Question \in Chars /\ Len(a) = 1 /\ a[1] = Slash
  BY CharactersAreStrings
<1>4. \A i \in 1..Len(a) : a[i] # Question
  <2>1. \A i \in 1..1 : i = 1
    OBVIOUS
  <2> QED
    BY ONLY <1>2, <1>3, <2>1
<1>5. Splits(url, a, Question, c, Chars)
  <2>1. url = <<Slash, Question>> \o c
    BY DEF Requests!Uri, Slash, Question
  <2>2. <<Slash, Question>> = a \o one
    BY <1>3
  <2> HIDE DEF url, c, a
  <2> QED
    BY <1>1, <1>3, <1>4, <2>1, <2>2 DEF Splits, Lacks
<1> HIDE DEF c, a, url
<1>6. /\ url \in Seq(Chars) /\ Len(url) = Len(a) + 1 + Len(c) /\ Len(c) \in Nat
      /\ url[Len(a) + 1] = Question
  BY <1>5, SplitFacts
<1>7. 2 \in DOMAIN url /\ url[2] = Question
  <2>1. 2 \in 1..Len(url) /\ url[2] = Question
    BY <1>3, <1>6
  <2> QED
    BY <1>6, <2>1, LenProperties
<1>8. Question \in Requests!Range(url)
  BY <1>7 DEF Requests!Range
<1>9. Requests!Index(url, Question) = 2
  <2>1. Requests!Index(url, Question) = IndexOf(url, Question)
    BY DEF Requests!Index, Requests!SelectInSeq, Requests!Passing, Requests!Min, IndexOf, Places, First
  <2>2. IndexOf(url, Question) = Len(a) + 1
    BY <1>5, IndexSplit
  <2> QED
    BY <1>3, <2>1, <2>2
<1>10. Requests!After(url, 1) = c
  <2>1. Question \in {Question} /\ \A i \in 1..Len(a) : a[i] \notin {Question}
    BY <1>4
  <2>2. Requests!After(url, Len(a)) = c
    BY <1>5, <2>1, UpToSplit
  <2> QED
    BY <1>3, <2>2
<1>11. SubSeq(url, 2 + 1, Len(url)) = c
  <2>1. 2 + 1 = 1 + 2
    OBVIOUS
  <2> QED
    BY <1>10, <2>1 DEF Requests!After
<1>12. Requests!ParseUrl(url) = Requests!Params(c)
  BY <1>8, <1>9, <1>11 DEF Requests!ParseUrl, Question
<1>13. Requests!Params(c) = PairsRead[c]
  BY ParamsIs DEF PairsRead
<1> QED
  BY <1>12, <1>13, QueryRead DEF c, url

-----------------------------------------------------------------------------
(* Parameters by their names.                                              *)

HasPair(q, k, v) == \E i \in 1..Len(q) : q[i] = <<k, v>>
LacksKey(q, k) == \A i \in 1..Len(q) : q[i][1] # k
ValidQuery(q) ==
  q \in Seq(Parameter) /\ \A i, j \in 1..Len(q) : q[i][1] = q[j][1] => i = j

LEMMA GetIs ==
  ASSUME NEW params, NEW k
  PROVE  LET T == {i \in 1..Len(params) : params[i][1] = k} IN
         Requests!GetGETParams(params, k) =
           IF T = {} \/ Requests!Max(T) = 0 THEN <<>> ELSE params[Requests!Max(T)][2]
<1> DEFINE T == {i \in 1..Len(params) : params[i][1] = k}
           i == IF T # {} THEN Requests!Max(T) ELSE 0
<1>1. Requests!SelectLastInSeq(params, LAMBDA p : p[1] = k) = i
  BY DEF Requests!SelectLastInSeq, Requests!Passing
<1>2. Requests!GetGETParams(params, k) = IF i = 0 THEN <<>> ELSE params[i][2]
  BY <1>1 DEF Requests!GetGETParams
<1> HIDE DEF T
<1> QED
  BY <1>2 DEF T

LEMMA MaxOfOne ==
  ASSUME NEW i \in Nat
  PROVE  Requests!Max({i}) = i
<1>1. i \in {i} /\ \A y \in {i} : i >= y
  OBVIOUS
<1> QED
  BY <1>1 DEF Requests!Max

LEMMA ReadAt ==
  ASSUME NEW q \in Seq(Parameter)
  PROVE  /\ Len(Image(SentOf, q)) = Len(q) /\ Len(q) \in Nat
         /\ \A i \in 1..Len(q) :
              /\ q[i] \in Parameter
              /\ Image(SentOf, q)[i][1] = Requests!encodeURIComponent(q[i][1])
              /\ Image(SentOf, q)[i][2] = Requests!encodeURIComponent(q[i][2])
<1>1. /\ Len(Image(SentOf, q)) = Len(q)
      /\ \A i \in 1..Len(q) : Image(SentOf, q)[i] = SentOf[q[i]]
  BY SentMapped, ImageTyped
<1>2. Len(q) \in Nat /\ \A i \in 1..Len(q) : q[i] \in Parameter
  BY LenProperties, ElementOfSeq
<1>3. ASSUME NEW i \in 1..Len(q)
      PROVE  /\ Image(SentOf, q)[i][1] = Requests!encodeURIComponent(q[i][1])
             /\ Image(SentOf, q)[i][2] = Requests!encodeURIComponent(q[i][2])
  <2> DEFINE p == q[i]
  <2>1. p \in Parameter /\ Image(SentOf, q)[i] = SentOf[p]
    BY <1>1, <1>2
  <2> HIDE DEF p
  <2>2. SentOf[p] = <<Requests!encodeURIComponent(p[1]), Requests!encodeURIComponent(p[2])>>
    BY <2>1, ParameterSent
  <2> QED
    BY <2>1, <2>2 DEF p
<1> QED
  BY <1>1, <1>2, <1>3

\* A parameter that is in a query is found, and one that is not is not.
LEMMA ParameterFound ==
  ASSUME NEW q, ValidQuery(q), NEW k, NEW v, HasPair(q, k, v)
  PROVE  Requests!GetGETParams(Image(SentOf, q), Requests!encodeURIComponent(k))
           = Requests!encodeURIComponent(v)
<1> DEFINE params == Image(SentOf, q)
           e == Requests!encodeURIComponent(k)
           T == {i \in 1..Len(params) : params[i][1] = e}
<1>1. q \in Seq(Parameter) /\ \A i, j \in 1..Len(q) : q[i][1] = q[j][1] => i = j
  BY DEF ValidQuery
<1>2. PICK i \in 1..Len(q) : q[i] = <<k, v>>
  BY DEF HasPair
<1>3. /\ Len(params) = Len(q) /\ Len(q) \in Nat
      /\ \A j \in 1..Len(q) :
           /\ q[j] \in Parameter
           /\ params[j][1] = Requests!encodeURIComponent(q[j][1])
           /\ params[j][2] = Requests!encodeURIComponent(q[j][2])
  BY <1>1, ReadAt
<1> HIDE DEF params
<1>4. i \in Nat /\ i # 0 /\ q[i][1] = k /\ q[i][2] = v
  BY <1>2, <1>3
<1>5. ASSUME NEW j \in T PROVE j = i
  <2>1. j \in 1..Len(q) /\ Requests!encodeURIComponent(q[j][1]) = Requests!encodeURIComponent(q[i][1])
    BY <1>3, <1>4
  <2>2. q[j][1] \in Seq(Requests!Writable) /\ q[i][1] \in Seq(Requests!Writable)
    BY <1>2, <1>3, <2>1 DEF Parameter
  <2>3. q[j][1] = q[i][1]
    BY <2>1, <2>2, SentOnce
  <2> QED
    BY <1>1, <1>2, <2>1, <2>3
<1>6. i \in T
  BY <1>2, <1>3, <1>4
<1>7. T = {i}
  BY <1>5, <1>6
<1>8. Requests!Max(T) = i
  BY <1>4, <1>7, MaxOfOne
<1>9. Requests!GetGETParams(params, e) =
        IF T = {} \/ Requests!Max(T) = 0 THEN <<>> ELSE params[Requests!Max(T)][2]
  BY GetIs
<1> HIDE DEF T
<1> QED
  BY <1>2, <1>3, <1>4, <1>6, <1>8, <1>9 DEF params

LEMMA ParameterMissing ==
  ASSUME NEW q, ValidQuery(q), NEW k \in Seq(Requests!Writable), LacksKey(q, k)
  PROVE  Requests!GetGETParams(Image(SentOf, q), Requests!encodeURIComponent(k)) = <<>>
<1> DEFINE params == Image(SentOf, q)
           e == Requests!encodeURIComponent(k)
           T == {i \in 1..Len(params) : params[i][1] = e}
<1>1. q \in Seq(Parameter)
  BY DEF ValidQuery
<1>2. /\ Len(params) = Len(q) /\ Len(q) \in Nat
      /\ \A j \in 1..Len(q) :
           /\ q[j] \in Parameter
           /\ params[j][1] = Requests!encodeURIComponent(q[j][1])
  BY <1>1, ReadAt
<1> HIDE DEF params
<1>3. ASSUME NEW j \in T PROVE FALSE
  <2>1. j \in 1..Len(q) /\ Requests!encodeURIComponent(q[j][1]) = Requests!encodeURIComponent(k)
    BY <1>2
  <2>2. q[j][1] \in Seq(Requests!Writable)
    BY <1>2, <2>1 DEF Parameter
  <2>3. q[j][1] = k
    BY <2>1, <2>2, SentOnce
  <2> QED
    BY <2>1, <2>3 DEF LacksKey
<1>4. T = {}
  BY <1>3
<1>5. Requests!GetGETParams(params, e) =
        IF T = {} \/ Requests!Max(T) = 0 THEN <<>> ELSE params[Requests!Max(T)][2]
  BY GetIs
<1> HIDE DEF T
<1> QED
  BY <1>4, <1>5 DEF params

\* r is q, in which the value of k is v.
Puts(q, k, v, r) ==
  /\ ValidQuery(r) /\ HasPair(r, k, v) /\ r # <<>>
  /\ \A x : x # k => /\ \A y : HasPair(q, x, y) => HasPair(r, x, y)
                     /\ LacksKey(q, x) => LacksKey(r, x)

LEMMA PutIs ==
  ASSUME NEW q, ValidQuery(q), NEW k \in Seq(Requests!Writable), NEW v \in Seq(Requests!Writable)
  PROVE  Puts(q, k, v, Requests!Put(q, k, v))
<1> DEFINE r == Requests!Put(q, k, v)
           e == <<k, v>>
           n == Len(q)
<1>1. /\ q \in Seq(Parameter) /\ \A i, j \in 1..n : q[i][1] = q[j][1] => i = j
      /\ n \in Nat /\ DOMAIN q = 1..n /\ \A i \in 1..n : q[i] \in Parameter
  BY LenProperties, ElementOfSeq DEF ValidQuery
<1>2. e \in Parameter /\ e[1] = k
  BY DEF Parameter
<1> HIDE DEF e
<1>3. CASE \E i \in DOMAIN q : q[i][1] = k
  <2> DEFINE s == [i \in 1..n |-> IF q[i][1] = k THEN e ELSE q[i]]
  <2>1. r = s
    BY <1>1, <1>3 DEF Requests!Put, e
  <2>2. s \in [1..n -> Parameter] /\ \A i \in 1..n : s[i] = IF q[i][1] = k THEN e ELSE q[i]
    BY <1>1, <1>2
  <2>3. s \in Seq(Parameter) /\ Len(s) = n
    BY ONLY <1>1, <2>2, FunctionIsSeq
  <2> HIDE DEF s, r, n
  <2>4. \A i \in 1..n : s[i][1] = q[i][1]
    BY <1>2, <2>2
  <2>5. ValidQuery(s)
    BY <1>1, <2>3, <2>4 DEF ValidQuery
  <2>6. HasPair(s, k, v)
    BY <1>1, <1>3, <2>2, <2>3 DEF HasPair, e
  <2>7. s # <<>>
    <3>1. n # 0
      BY <1>1, <1>3
    <3> QED
      BY <2>3, <3>1
  <2>8. ASSUME NEW x, x # k, NEW y, HasPair(q, x, y) PROVE HasPair(s, x, y)
    <3>1. PICK i \in 1..n : q[i] = <<x, y>>
      BY <2>8 DEF HasPair, n
    <3>2. s[i] = <<x, y>>
      BY <2>2, <2>8, <3>1
    <3> QED
      BY <2>3, <3>2 DEF HasPair
  <2>9. ASSUME NEW x, LacksKey(q, x) PROVE LacksKey(s, x)
    BY <2>3, <2>4, <2>9 DEF LacksKey, n
  <2> QED
    BY <2>1, <2>5, <2>6, <2>7, <2>8, <2>9, SMTT(60) DEF Puts, r
<1>4. CASE ~\E i \in DOMAIN q : q[i][1] = k
  <2> DEFINE s == Append(q, e)
  <2>1. r = s
    BY <1>4 DEF Requests!Put, e
  <2>2. s \in Seq(Parameter) /\ Len(s) = n + 1 /\ s[n + 1] = e /\ \A i \in 1..n : s[i] = q[i]
    BY <1>1, <1>2, AppendProperties
  <2> HIDE DEF s, r, n
  <2>3. \A i \in 1..n : q[i][1] # k
    BY <1>1, <1>4
  <2>4. \A i \in 1..n + 1 : i \in 1..n \/ i = n + 1
    BY <1>1
  <2>5. \A i \in 1..n : i \in 1..n + 1
    BY <1>1
  <2>6. n + 1 \in 1..n + 1
    BY <1>1
  <2> DEFINE m == n + 1
  <2> HIDE DEF m
  <2>7. /\ s \in Seq(Parameter) /\ Len(s) = m /\ s[m] = e /\ m \in 1..m
        /\ \A i \in 1..m : i \in 1..n \/ i = m
        /\ \A i \in 1..n : i \in 1..m /\ s[i] = q[i]
    BY <2>2, <2>4, <2>5, <2>6 DEF m
  <2>8. ValidQuery(s)
    <3>1. ASSUME NEW i \in 1..m, NEW j \in 1..m, s[i][1] = s[j][1] PROVE i = j
      BY <1>1, <1>2, <2>3, <2>7, <3>1
    <3> QED
      BY <2>7, <3>1 DEF ValidQuery
  <2>9. HasPair(s, k, v)
    BY <2>7 DEF HasPair, e
  <2>10. s # <<>>
    <3>1. Len(s) # 0
      BY <1>1, <2>2
    <3> QED
      BY <3>1, EmptySeq
  <2>11. ASSUME NEW x, NEW y, HasPair(q, x, y) PROVE HasPair(s, x, y)
    BY <2>7, <2>11 DEF HasPair, n
  <2>12. ASSUME NEW x, x # k, LacksKey(q, x) PROVE LacksKey(s, x)
    BY <1>2, <2>7, <2>12 DEF LacksKey, n
  <2> QED
    BY <2>1, <2>8, <2>9, <2>10, <2>11, <2>12 DEF Puts, r
<1> QED
  BY <1>3, <1>4

-----------------------------------------------------------------------------
(* The id of a session needs no escape.                                    *)

Plus == "+"
Base64 == Requests!Unreserved \cup {Plus, Slash}

LEMMA Base64Typed == OfLength(Requests!base64_chars, Base64, 64)
<1> DEFINE N == Requests!Numeral
           U == Requests!Upper
           L == Requests!Lower
           two == <<Plus, Slash>>
           UL == U \o L
           ULN == UL \o N
<1>0. 26 \in Nat /\ 10 \in Nat /\ 2 \in Nat /\ 52 \in Nat /\ 62 \in Nat
      /\ 26 + 26 = 52 /\ 52 + 10 = 62 /\ 62 + 2 = 64
  OBVIOUS
<1>1. Stampable \subseteq Base64 /\ Plus \in Base64 /\ Slash \in Base64
  BY StampableUnreserved DEF Base64
<1>2. OfLength(N, Base64, 10) /\ OfLength(U, Base64, 26) /\ OfLength(L, Base64, 26)
  <2>1. /\ N \in Seq(Stampable) /\ Len(N) = 10 /\ U \in Seq(Stampable) /\ Len(U) = 26
        /\ L \in Seq(Stampable) /\ Len(L) = 26
    BY NumeralFacts, UpperFacts, LowerFacts
  <2> HIDE DEF N, U, L
  <2> QED
    BY <1>1, <2>1 DEF OfLength
<1>3. OfLength(two, Base64, 2)
  <2>1. two \in Seq(Base64) /\ Len(two) = 2
    BY <1>1
  <2> QED
    BY <2>1 DEF OfLength
<1>4. Requests!base64_chars = ULN \o two
  BY DEF Requests!base64_chars, Plus, Slash
<1> HIDE DEF N, U, L, two
<1>5. OfLength(UL, Base64, 26 + 26)
  BY ONLY <1>0, <1>2, ConcatAt
<1> HIDE DEF UL
<1>6. OfLength(ULN, Base64, 52 + 10)
  <2>1. OfLength(UL, Base64, 52)
    BY ONLY <1>0, <1>5
  <2> QED
    BY ONLY <1>0, <1>2, <2>1, ConcatAt
<1> HIDE DEF ULN
<1>7. OfLength(ULN \o two, Base64, 62 + 2)
  <2>1. OfLength(ULN, Base64, 62)
    BY ONLY <1>0, <1>6
  <2> QED
    BY ONLY <1>0, <1>3, <2>1, ConcatAt
<1>8. OfLength(ULN \o two, Base64, 64)
  BY ONLY <1>0, <1>7
<1> QED
  BY ONLY <1>4, <1>8

LEMMA SixesTyped ==
  ASSUME NEW a \in Byte, NEW b \in Byte, NEW c \in Byte
  PROVE  Requests!Sixes(a, b, c) \in Seq(0..63) /\ Requests!Sixes(a, b, c) # <<>>
<1> DEFINE d == a \div 4
           e == (a % 4) * 16 + (b \div 16)
           f == (b % 16) * 4 + (c \div 64)
           g == c % 64
<1>1. a \in Nat /\ a <= 255 /\ b \in Nat /\ b <= 255 /\ c \in Nat /\ c <= 255
  BY DEF Byte
<1>2. d \in 0..63
  BY <1>1
<1>3. e \in 0..63
  <2>1. a % 4 \in 0..3 /\ b \div 16 \in 0..15
    BY <1>1
  <2> QED
    BY <2>1
<1>4. f \in 0..63
  <2>1. b % 16 \in 0..15 /\ c \div 64 \in 0..3
    BY <1>1
  <2> QED
    BY <2>1
<1>5. g \in 0..63
  BY <1>1
<1>6. Requests!Sixes(a, b, c) = <<d, e, f, g>>
  BY DEF Requests!Sixes
<1> DEFINE V == 0..63
<1> HIDE DEF d, e, f, g, V
<1>7. d \in V /\ e \in V /\ f \in V /\ g \in V
  BY <1>2, <1>3, <1>4, <1>5 DEF V
<1>8. <<d, e, f, g>> \in Seq(V) /\ <<d, e, f, g>> # <<>>
  BY <1>7
<1> QED
  BY <1>6, <1>8 DEF V

LEMMA Chosen ==
  ASSUME NEW U, NEW a, NEW b, NEW c \in U, NEW d \in U, NEW x \in U \cup {a, b}, a # b
  PROVE  (CASE x = a -> c [] x = b -> d [] OTHER -> x) \in U
<1>1. CASE x = a
  BY <1>1
<1>2. CASE x = b
  BY <1>2
<1>3. CASE x # a /\ x # b
  BY <1>3
<1> QED
  BY <1>1, <1>2, <1>3

\* The numbers that the bytes of an id are cut into.
SixesOf(s) == [i \in 1..5 |-> Requests!Sixes(s[3 * i - 2], s[3 * i - 1], s[3 * i])]

LEMMA SixesOfTyped ==
  ASSUME NEW s \in [1..15 -> Byte]
  PROVE  Strung(SixesOf(s)) \in Seq(0..63) /\ Strung(SixesOf(s)) # <<>>
<1> DEFINE V == 0..63
           R == Seq(V)
           u == SixesOf(s)
<1>1. ASSUME NEW i \in 1..5
      PROVE  LET x == Requests!Sixes(s[3 * i - 2], s[3 * i - 1], s[3 * i])
             IN  x \in R /\ x # <<>>
  <2>1. 3 * i - 2 \in 1..15 /\ 3 * i - 1 \in 1..15 /\ 3 * i \in 1..15
    OBVIOUS
  <2>2. s[3 * i - 2] \in Byte /\ s[3 * i - 1] \in Byte /\ s[3 * i] \in Byte
    BY <2>1
  <2> QED
    BY <2>2, SixesTyped
<1>2. u \in [1..5 -> R] /\ u[1] # <<>>
  <2> HIDE DEF R
  <2> QED
    BY <1>1 DEF SixesOf
<1>3. 5 \in Nat /\ 1 \in 1..5
  OBVIOUS
<1> HIDE DEF u, V, R
<1>4. u \in Seq(R) /\ Len(u) = 5 /\ u[1] \in R
  BY ONLY <1>2, <1>3, FunctionIsSeq, ZenonT(60)
<1>5. u # <<>>
  <2>1. Len(u) # 0
    BY <1>4
  <2> QED
    BY <2>1, EmptySeq
<1>6. Strung(u) \in Seq(V)
  BY <1>4, FlattenTyped DEF R
<1>7. Strung(u) # <<>>
  <2>1. PICK r \in Seq(V) : Strung(u) = u[1] \o r
    BY <1>4, <1>5, FlattenFirst DEF R
  <2> DEFINE x == u[1]
  <2>2. x \in Seq(V) /\ x # <<>>
    BY <1>2, <1>4 DEF R
  <2> HIDE DEF x
  <2>3. x \o r # <<>>
    BY <2>2, ConcatEqualIffEmpty
  <2> QED
    BY <2>1, <2>3 DEF x
<1> QED
  BY <1>6, <1>7 DEF u, V

\* Fifteen bytes need no padding.
LEMMA EncodedId ==
  ASSUME NEW s \in [1..15 -> Byte]
  PROVE  LET sixes == Strung(SixesOf(s)) IN
         Requests!Base64Encode(s) =
           [i \in DOMAIN sixes |-> IF i > Len(sixes) - 0 THEN "="
                                   ELSE Requests!base64_chars[sixes[i] + 1]]
<1>1. s \in Seq(Byte) /\ Len(s) = 15
  <2>1. 15 \in Nat
    OBVIOUS
  <2> QED
    BY <2>1, FunctionIsSeq
<1> DEFINE pad == (3 - (Len(s) % 3)) % 3
           none == [i \in 1..pad |-> 0]
           t == s \o none
           parts == [i \in 1..Len(t) \div 3 |->
                       Requests!Sixes(t[3 * i - 2], t[3 * i - 1], t[3 * i])]
           sixes == Requests!FlattenSeq(parts)
<1>2. Requests!Base64Encode(s) =
        [i \in DOMAIN sixes |-> IF i > Len(sixes) - pad THEN "="
                                ELSE Requests!base64_chars[sixes[i] + 1]]
  BY DEF Requests!Base64Encode
<1>3. pad = 0
  BY <1>1
<1>4. none = <<>>
  <2>1. 1..pad = {}
    BY <1>3
  <2> HIDE DEF pad
  <2> QED
    BY <2>1
<1> HIDE DEF none
<1>5. t = s
  BY <1>1, <1>4, ConcatEmptySeq
<1> HIDE DEF t
<1>6. Len(t) \div 3 = 5
  <2>1. Len(t) = 15
    BY <1>1, <1>5
  <2>2. 15 \div 3 = 5
    OBVIOUS
  <2> QED
    BY ONLY <2>1, <2>2
<1>7. parts = SixesOf(s)
  BY <1>5, <1>6 DEF SixesOf
<1>8. sixes = Strung(SixesOf(s))
  <2>1. \A q : Requests!FlattenSeq(q) = Strung(q)
    BY DEF Requests!FlattenSeq, Strung
  <2> HIDE DEF parts
  <2> QED
    BY <1>7, <2>1
<1> HIDE DEF sixes, pad
<1> QED
  BY <1>2, <1>3, <1>8

\* So it is sent as it is.
LEMMA IdPlain ==
  ASSUME NEW bytes \in Randoms
  PROVE  /\ Requests!GenerateBase64ID(bytes) \in Seq(Requests!Unreserved)
         /\ Requests!GenerateBase64ID(bytes) # <<>>
<1> DEFINE z == Strung(SixesOf(bytes))
           n == Len(z)
           A == Requests!base64_chars
           e == [i \in DOMAIN z |-> IF i > Len(z) - 0 THEN "=" ELSE A[z[i] + 1]]
           w == [i \in DOMAIN e |-> CASE e[i] = "/" -> "_" [] e[i] = "+" -> "-" [] OTHER -> e[i]]
<1>1. bytes \in [1..15 -> Byte]
  BY UrisAssumption DEF Byte
<1>2. z \in Seq(0..63) /\ z # <<>>
  BY <1>1, SixesOfTyped
<1>3. Requests!Base64Encode(bytes) = e
  BY <1>1, EncodedId
<1>4. Requests!GenerateBase64ID(bytes) = w
  BY <1>3 DEF Requests!GenerateBase64ID, Requests!Safe
<1> HIDE DEF z
<1>5. n \in Nat /\ n # 0 /\ DOMAIN z = 1..n /\ \A i \in 1..n : z[i] \in 0..63
  BY <1>2, LenProperties, ElementOfSeq, EmptySeq
<1>6. \A i \in 1..n : z[i] + 1 \in 1..64
  BY ONLY <1>5, OneMore
<1>7. \A j \in 1..64 : A[j] \in Base64
  BY Base64Typed, ElementOfSeq DEF OfLength
<1>8. \A i \in 1..n : e[i] = A[z[i] + 1]
  BY <1>5
<1>9. \A i \in 1..n : e[i] \in Base64
  BY <1>6, <1>7, <1>8
<1>10. DOMAIN e = 1..n
  BY <1>5
<1> HIDE DEF e
<1>11. w = [i \in 1..n |-> w[i]]
  BY <1>10
<1>12. ASSUME NEW i \in 1..n PROVE w[i] \in Requests!Unreserved
  <2>1. e[i] \in Requests!Unreserved \cup {"+", "/"}
    BY <1>9 DEF Base64, Plus, Slash
  <2>2. "_" \in Requests!Unreserved /\ "-" \in Requests!Unreserved
    BY DEF Requests!Unreserved
  <2>3. w[i] = (CASE e[i] = "/" -> "_" [] e[i] = "+" -> "-" [] OTHER -> e[i])
    BY <1>10
  <2> DEFINE x == e[i]
             slash == "/"
             plus == "+"
             under == "_"
             dash == "-"
  <2>4. /\ x \in Requests!Unreserved \cup {slash, plus}
        /\ w[i] = (CASE x = slash -> under [] x = plus -> dash [] OTHER -> x)
        /\ slash # plus /\ under \in Requests!Unreserved /\ dash \in Requests!Unreserved
    BY <2>1, <2>2, <2>3
  <2> HIDE DEF x, slash, plus, under, dash
  <2>5. (CASE x = slash -> under [] x = plus -> dash [] OTHER -> x) \in Requests!Unreserved
    BY ONLY <2>4, Chosen
  <2> QED
    BY <2>4, <2>5
<1> HIDE DEF w
<1>13. w \in [1..n -> Requests!Unreserved]
  BY <1>11, <1>12
<1>14. w \in Seq(Requests!Unreserved) /\ Len(w) = n
  BY <1>5, <1>13, FunctionIsSeq
<1>15. w # <<>>
  BY <1>5, <1>14, EmptySeq
<1> QED
  BY <1>4, <1>14, <1>15

-----------------------------------------------------------------------------
(* The query of a transport.                                               *)

EioKey == Requests!Key.EIO
TransportKey == Requests!Key.transport
SidKey == Requests!Key.sid
StampKey == Requests!Key.t
TextKey == Requests!Key.b64
Protocol == {EioKey, TransportKey, SidKey, StampKey, TextKey}
Three == <<"3">>
One == <<"1">>
PollingName == Requests!Name.polling
WebsocketName == Requests!Name.websocket

LEMMA LettersUnreserved ==
  {"E", "I", "O", "t", "r", "a", "n", "s", "p", "o", "i", "d", "b", "4", "l", "g",
   "w", "e", "c", "k", "1", "3", "6"} \subseteq Requests!Unreserved
<1>1. /\ Requests!Upper[5] = "E" /\ Requests!Upper[9] = "I" /\ Requests!Upper[15] = "O"
      /\ Requests!Lower[20] = "t" /\ Requests!Lower[18] = "r" /\ Requests!Lower[1] = "a"
      /\ Requests!Lower[14] = "n" /\ Requests!Lower[19] = "s" /\ Requests!Lower[16] = "p"
      /\ Requests!Lower[15] = "o" /\ Requests!Lower[9] = "i" /\ Requests!Lower[4] = "d"
      /\ Requests!Lower[2] = "b" /\ Requests!Lower[12] = "l" /\ Requests!Lower[7] = "g"
      /\ Requests!Lower[23] = "w" /\ Requests!Lower[5] = "e" /\ Requests!Lower[3] = "c"
      /\ Requests!Lower[11] = "k"
      /\ Requests!Numeral[2] = "1" /\ Requests!Numeral[4] = "3" /\ Requests!Numeral[5] = "4"
      /\ Requests!Numeral[7] = "6"
  BY DEF Requests!Upper, Requests!Lower, Requests!Numeral
<1>2. {"E", "I", "O"} \subseteq CharactersOf(Requests!Upper, 26)
  <2>1. 5 \in 1..26 /\ 9 \in 1..26 /\ 15 \in 1..26
    OBVIOUS
  <2> QED
    BY ONLY <1>1, <2>1 DEF CharactersOf
<1>3. {"t", "r", "a", "n", "s", "p", "o", "i", "d", "b"} \subseteq CharactersOf(Requests!Lower, 26)
  <2>1. /\ 20 \in 1..26 /\ 18 \in 1..26 /\ 1 \in 1..26 /\ 14 \in 1..26 /\ 19 \in 1..26
        /\ 16 \in 1..26 /\ 15 \in 1..26 /\ 9 \in 1..26 /\ 4 \in 1..26 /\ 2 \in 1..26
    OBVIOUS
  <2> QED
    BY ONLY <1>1, <2>1 DEF CharactersOf
<1>4. {"l", "g", "w", "e", "c", "k"} \subseteq CharactersOf(Requests!Lower, 26)
  <2>1. /\ 12 \in 1..26 /\ 7 \in 1..26 /\ 23 \in 1..26 /\ 5 \in 1..26 /\ 3 \in 1..26
        /\ 11 \in 1..26
    OBVIOUS
  <2> QED
    BY ONLY <1>1, <2>1 DEF CharactersOf
<1>5. {"1", "3", "4", "6"} \subseteq CharactersOf(Requests!Numeral, 10)
  <2>1. 2 \in 1..10 /\ 4 \in 1..10 /\ 5 \in 1..10 /\ 7 \in 1..10
    OBVIOUS
  <2> QED
    BY ONLY <1>1, <2>1 DEF CharactersOf
<1> QED
  BY <1>2, <1>3, <1>4, <1>5, UnreservedIs

\* Nothing of the protocol's own needs an escape.
LEMMA ProtocolPlain ==
  /\ EioKey \in Seq(Requests!Unreserved) /\ TransportKey \in Seq(Requests!Unreserved)
  /\ SidKey \in Seq(Requests!Unreserved) /\ StampKey \in Seq(Requests!Unreserved)
  /\ TextKey \in Seq(Requests!Unreserved)
  /\ Three \in Seq(Requests!Unreserved) /\ One \in Seq(Requests!Unreserved)
  /\ PollingName \in Seq(Requests!Unreserved) /\ WebsocketName \in Seq(Requests!Unreserved)
<1> DEFINE U == Requests!Unreserved
<1>1. /\ EioKey = <<"E", "I", "O">> /\ SidKey = <<"s", "i", "d">> /\ StampKey = <<"t">>
      /\ TextKey = <<"b", "6", "4">>
      /\ TransportKey = <<"t", "r", "a", "n", "s", "p", "o", "r", "t">>
      /\ PollingName = <<"p", "o", "l", "l", "i", "n", "g">>
      /\ WebsocketName = <<"w", "e", "b", "s", "o", "c", "k", "e", "t">>
  BY DEF EioKey, SidKey, StampKey, TextKey, TransportKey, PollingName, WebsocketName,
         Requests!Key, Requests!Name
<1>2. {"E", "I", "O", "t", "r", "a", "n", "s", "p", "o", "i", "d", "b", "4", "l", "g",
       "w", "e", "c", "k", "1", "3", "6"} \subseteq U
  BY LettersUnreserved
<1> HIDE DEF U
<1>3. EioKey \in Seq(U) /\ SidKey \in Seq(U) /\ StampKey \in Seq(U) /\ TextKey \in Seq(U)
  BY <1>1, <1>2
<1>4. TransportKey \in Seq(U)
  BY <1>1, <1>2
<1>5. PollingName \in Seq(U)
  BY <1>1, <1>2
<1>6. WebsocketName \in Seq(U)
  BY <1>1, <1>2
<1>7. Three \in Seq(U) /\ One \in Seq(U)
  BY <1>2 DEF Three, One
<1> QED
  BY <1>3, <1>4, <1>5, <1>6, <1>7 DEF U

LEMMA ProtocolDiffers ==
  /\ EioKey # TransportKey /\ EioKey # SidKey /\ TransportKey # SidKey
  /\ StampKey \notin {EioKey, TransportKey, SidKey}
  /\ TextKey \notin {EioKey, TransportKey, SidKey, StampKey}
  /\ Protocol = Requests!Range(Requests!Key)
  /\ PollingName # <<>> /\ One # <<>>
  /\ Requests!Range(Requests!Name) = {PollingName, WebsocketName}
<1>1. /\ EioKey = <<"E", "I", "O">> /\ SidKey = <<"s", "i", "d">> /\ StampKey = <<"t">>
      /\ TextKey = <<"b", "6", "4">>
      /\ TransportKey = <<"t", "r", "a", "n", "s", "p", "o", "r", "t">>
      /\ PollingName = <<"p", "o", "l", "l", "i", "n", "g">>
  BY DEF EioKey, SidKey, StampKey, TextKey, TransportKey, PollingName, Requests!Key, Requests!Name
<1>2. /\ EioKey[1] = "E" /\ SidKey[1] = "s" /\ StampKey[1] = "t" /\ TextKey[1] = "b"
      /\ TransportKey[1] = "t" /\ Len(StampKey) = 1 /\ Len(TransportKey) = 9
  BY <1>1
<1>3. /\ EioKey # TransportKey /\ EioKey # SidKey /\ TransportKey # SidKey
      /\ StampKey \notin {EioKey, TransportKey, SidKey}
      /\ TextKey \notin {EioKey, TransportKey, SidKey, StampKey}
  BY <1>2
<1>4. PollingName # <<>> /\ One # <<>>
  BY <1>1 DEF One
<1>5. /\ DOMAIN Requests!Key = {"EIO", "transport", "sid", "t", "b64"}
      /\ DOMAIN Requests!Name = {"polling", "websocket"}
  BY DEF Requests!Key, Requests!Name
<1>6. Protocol = Requests!Range(Requests!Key)
  BY <1>5 DEF Requests!Range, Protocol, EioKey, SidKey, StampKey, TextKey, TransportKey
<1>7. Requests!Range(Requests!Name) = {PollingName, WebsocketName}
  BY <1>5 DEF Requests!Range, PollingName, WebsocketName
<1> QED
  BY <1>3, <1>4, <1>6, <1>7

\* What the application may ask for.
Application(option) == ValidQuery(option) /\ \A k \in Protocol : LacksKey(option, k)

\* The query of a transport of the session id, if there is one.
QueryOf(q, option, name, id) ==
  /\ ValidQuery(q) /\ q # <<>> /\ HasPair(q, TransportKey, name)
  /\ IF id = <<>> THEN LacksKey(q, SidKey) ELSE HasPair(q, SidKey, id)
  /\ \A x : \A y : HasPair(option, x, y) => HasPair(q, x, y)

\* What it says of whether the client can have binary contents.
Marked(q, capable) == IF capable THEN LacksKey(q, TextKey) ELSE HasPair(q, TextKey, One)

LEMMA ApplicationPairs ==
  ASSUME NEW option, Application(option), NEW x, NEW y, HasPair(option, x, y)
  PROVE  x \notin Protocol
BY DEF Application, HasPair, LacksKey

LEMMA WritablePlain ==
  ASSUME NEW s \in Seq(Requests!Unreserved)
  PROVE  s \in Seq(Requests!Writable)
BY SentPlain

LEMMA StampedQuery ==
  ASSUME NEW option, Application(option), NEW name, NEW id, NEW q, QueryOf(q, option, name, id),
         NEW v \in Seq(Requests!Unreserved)
  PROVE  LET r == Requests!Put(q, StampKey, v) IN
         /\ QueryOf(r, option, name, id)
         /\ \A b \in BOOLEAN : Marked(q, b) => Marked(r, b)
<1> DEFINE r == Requests!Put(q, StampKey, v)
<1>1. Puts(q, StampKey, v, r)
  BY PutIs, WritablePlain, ProtocolPlain DEF QueryOf
<1> HIDE DEF r
<1>2. TransportKey # StampKey /\ SidKey # StampKey /\ TextKey # StampKey
  BY ProtocolDiffers
<1>3. ASSUME NEW x, NEW y, HasPair(option, x, y) PROVE HasPair(r, x, y)
  <2>1. x # StampKey
    BY <1>3, ApplicationPairs DEF Protocol
  <2> QED
    BY <1>1, <1>3, <2>1 DEF Puts, QueryOf
<1>4. QueryOf(r, option, name, id)
  BY <1>1, <1>2, <1>3 DEF QueryOf, Puts
<1>5. \A b \in BOOLEAN : Marked(q, b) => Marked(r, b)
  BY <1>1, <1>2 DEF Marked, Puts
<1> QED
  BY <1>4, <1>5 DEF r

LEMMA MarkedQuery ==
  ASSUME NEW option, Application(option), NEW name, NEW id, NEW q, QueryOf(q, option, name, id)
  PROVE  LET r == Requests!Put(q, TextKey, One) IN
         QueryOf(r, option, name, id) /\ Marked(r, FALSE)
<1> DEFINE r == Requests!Put(q, TextKey, One)
<1>1. Puts(q, TextKey, One, r)
  BY PutIs, WritablePlain, ProtocolPlain DEF QueryOf
<1> HIDE DEF r
<1>2. TransportKey # TextKey /\ SidKey # TextKey
  BY ProtocolDiffers
<1>3. ASSUME NEW x, NEW y, HasPair(option, x, y) PROVE HasPair(r, x, y)
  <2>1. x # TextKey
    BY <1>3, ApplicationPairs DEF Protocol
  <2> QED
    BY <1>1, <1>3, <2>1 DEF Puts, QueryOf
<1>4. QueryOf(r, option, name, id)
  BY <1>1, <1>2, <1>3 DEF QueryOf, Puts
<1> QED
  BY <1>1, <1>4 DEF Marked, Puts, r

LEMMA NamedQuery ==
  ASSUME NEW option, Application(option), NEW name, NEW q, QueryOf(q, option, name, <<>>),
         NEW id \in Seq(Requests!Unreserved), id # <<>>
  PROVE  LET r == Requests!Put(q, SidKey, id) IN
         /\ QueryOf(r, option, name, id)
         /\ \A b \in BOOLEAN : Marked(q, b) => Marked(r, b)
<1> DEFINE r == Requests!Put(q, SidKey, id)
<1>1. Puts(q, SidKey, id, r)
  BY PutIs, WritablePlain, ProtocolPlain DEF QueryOf
<1> HIDE DEF r
<1>2. TransportKey # SidKey /\ TextKey # SidKey
  BY ProtocolDiffers
<1>3. ASSUME NEW x, NEW y, HasPair(option, x, y) PROVE HasPair(r, x, y)
  <2>1. x # SidKey
    BY <1>3, ApplicationPairs DEF Protocol
  <2> QED
    BY <1>1, <1>3, <2>1 DEF Puts, QueryOf
<1>4. QueryOf(r, option, name, id)
  BY <1>1, <1>2, <1>3 DEF QueryOf, Puts
<1>5. \A b \in BOOLEAN : Marked(q, b) => Marked(r, b)
  BY <1>1, <1>2 DEF Marked, Puts
<1> QED
  BY <1>4, <1>5 DEF r

NameOf(transport) == Requests!Name[transport]

\* createTransport.
LEMMA NewQuery ==
  ASSUME NEW option, Application(option), NEW transport,
         NameOf(transport) \in {PollingName, WebsocketName},
         NEW id \in Seq(Requests!Unreserved)
  PROVE  /\ QueryOf(Requests!createTransport(option, transport, id), option, NameOf(transport), id)
         /\ LacksKey(Requests!createTransport(option, transport, id), TextKey)
<1> DEFINE name == NameOf(transport)
           q == Requests!Put(option, EioKey, Three)
           named == Requests!Put(q, TransportKey, name)
           r == Requests!createTransport(option, transport, id)
<1>1. r = IF id = <<>> THEN named ELSE Requests!Put(named, SidKey, id)
  BY DEF Requests!createTransport, NameOf, EioKey, TransportKey, SidKey, Three
<1>2. name \in Seq(Requests!Writable)
  BY WritablePlain, ProtocolPlain
<1> HIDE DEF name, r
<1>3. Puts(option, EioKey, Three, q)
  BY PutIs, WritablePlain, ProtocolPlain DEF Application
<1> HIDE DEF q
<1>4. Puts(q, TransportKey, name, named)
  BY <1>2, <1>3, PutIs, WritablePlain, ProtocolPlain DEF Puts
<1> HIDE DEF named
<1>5. /\ LacksKey(option, SidKey) /\ LacksKey(option, TextKey)
      /\ EioKey \in Protocol /\ TransportKey \in Protocol
  BY DEF Application, Protocol
<1>6. LacksKey(named, SidKey) /\ LacksKey(named, TextKey)
  BY <1>3, <1>4, <1>5, ProtocolDiffers DEF Puts
<1>7. ASSUME NEW x, NEW y, HasPair(option, x, y) PROVE HasPair(named, x, y)
  <2>1. x # EioKey /\ x # TransportKey
    BY <1>5, <1>7, ApplicationPairs
  <2> QED
    BY <1>3, <1>4, <1>7, <2>1 DEF Puts
<1>8. QueryOf(named, option, name, <<>>)
  BY <1>4, <1>6, <1>7 DEF QueryOf, Puts
<1>9. Marked(named, TRUE)
  BY <1>6 DEF Marked
<1>10. CASE id = <<>>
  BY <1>1, <1>6, <1>8, <1>10 DEF name, r
<1>11. CASE id # <<>>
  <2>1. r = Requests!Put(named, SidKey, id)
    BY <1>1, <1>11
  <2>2. QueryOf(r, option, name, id) /\ \A b \in BOOLEAN : Marked(named, b) => Marked(r, b)
    BY <1>8, <1>11, <2>1, NamedQuery
  <2> QED
    BY <1>9, <2>2 DEF Marked, name, r
<1> QED
  BY <1>10, <1>11

-----------------------------------------------------------------------------
(* What the server finds.                                                  *)

LEMMA QueriesApply ==
  ASSUME NEW option \in Queries
  PROVE  Application(option)
<1>1. /\ option \in Seq(Parameter)
      /\ \A i, j \in DOMAIN option : option[i][1] = option[j][1] => i = j
      /\ \A i \in DOMAIN option : option[i][1] \notin Requests!Range(Requests!Key)
  <2>1. \A f : Range(f) = Requests!Range(f)
    BY DEF Range, Requests!Range
  <2> QED
    BY <2>1, UrisAssumption DEF Parameter
<1>2. DOMAIN option = 1..Len(option)
  BY <1>1, LenProperties
<1>3. ValidQuery(option)
  BY <1>1, <1>2 DEF ValidQuery
<1>4. \A k \in Protocol : LacksKey(option, k)
  BY <1>1, <1>2, ProtocolDiffers DEF LacksKey
<1> QED
  BY <1>3, <1>4 DEF Application

\* A request with the query q.
SentWith(q, option, capable, id, uri, transport, method) ==
  /\ uri = Requests!Uri(q) /\ QueryOf(q, option, NameOf(transport), id)
  /\ Marked(q, capable)
  /\ NameOf(transport) \in {PollingName, WebsocketName}
  /\ transport = "websocket" \/ NameOf(transport) = PollingName
  /\ id = <<>> => method = "GET"

LEMMA RequestReadBack ==
  ASSUME NEW option, Application(option), NEW capable \in BOOLEAN,
         NEW id \in Seq(Requests!Unreserved), NEW uri, NEW transport, NEW method, NEW q,
         SentWith(q, option, capable, id, uri, transport, method)
  PROVE  LET params == Requests!ParseUrl(uri) IN
         /\ Requests!VerifyRequest(params, method, transport = "websocket", id)
         /\ Requests!GetGETParams(params, SidKey) = id
         /\ Requests!GetGETParams(params, TextKey) = <<>> <=> capable
         /\ \A i \in DOMAIN option :
              LET p == option[i] IN
              Requests!GetGETParams(params, Requests!encodeURIComponent(p[1]))
                = Requests!encodeURIComponent(p[2])
<1> DEFINE params == Requests!ParseUrl(uri)
           name == NameOf(transport)
<1>1. /\ ValidQuery(q) /\ HasPair(q, TransportKey, name) /\ Marked(q, capable)
      /\ IF id = <<>> THEN LacksKey(q, SidKey) ELSE HasPair(q, SidKey, id)
      /\ \A x : \A y : HasPair(option, x, y) => HasPair(q, x, y)
      /\ name \in {PollingName, WebsocketName}
      /\ transport = "websocket" \/ name = PollingName
      /\ id = <<>> => method = "GET"
  BY DEF SentWith, QueryOf
<1>2. params = Image(SentOf, q)
  BY UrlRead DEF SentWith, QueryOf, ValidQuery
<1>3. /\ Requests!encodeURIComponent(TransportKey) = TransportKey
      /\ Requests!encodeURIComponent(SidKey) = SidKey
      /\ Requests!encodeURIComponent(TextKey) = TextKey
      /\ Requests!encodeURIComponent(One) = One
      /\ Requests!encodeURIComponent(PollingName) = PollingName
      /\ Requests!encodeURIComponent(WebsocketName) = WebsocketName
      /\ Requests!encodeURIComponent(id) = id
      /\ SidKey \in Seq(Requests!Writable) /\ TextKey \in Seq(Requests!Writable)
  BY ProtocolPlain, SentPlain
<1> HIDE DEF params, name
<1>4. Requests!GetGETParams(params, TransportKey) = name
  <2>1. Requests!encodeURIComponent(name) = name
    BY <1>1, <1>3
  <2>2. Requests!GetGETParams(params, Requests!encodeURIComponent(TransportKey))
          = Requests!encodeURIComponent(name)
    BY <1>1, <1>2, ParameterFound
  <2> QED
    BY <1>3, <2>1, <2>2
<1>5. Requests!GetGETParams(params, SidKey) = id
  <2>1. CASE id = <<>>
    <3>1. Requests!GetGETParams(params, Requests!encodeURIComponent(SidKey)) = <<>>
      BY <1>1, <1>2, <1>3, <2>1, ParameterMissing
    <3> QED
      BY <1>3, <2>1, <3>1
  <2>2. CASE id # <<>>
    <3>1. Requests!GetGETParams(params, Requests!encodeURIComponent(SidKey))
            = Requests!encodeURIComponent(id)
      BY <1>1, <1>2, <2>2, ParameterFound
    <3> QED
      BY <1>3, <3>1
  <2> QED
    BY <2>1, <2>2
<1>6. Requests!GetGETParams(params, TextKey) = <<>> <=> capable
  <2>1. CASE capable
    <3>1. LacksKey(q, TextKey)
      BY <1>1, <2>1 DEF Marked
    <3>2. Requests!GetGETParams(params, Requests!encodeURIComponent(TextKey)) = <<>>
      BY <1>1, <1>2, <1>3, <3>1, ParameterMissing
    <3> QED
      BY <1>3, <2>1, <3>2
  <2>2. CASE ~capable
    <3>1. HasPair(q, TextKey, One)
      BY <1>1, <2>2 DEF Marked
    <3>2. Requests!GetGETParams(params, Requests!encodeURIComponent(TextKey))
            = Requests!encodeURIComponent(One)
      BY <1>1, <1>2, <3>1, ParameterFound
    <3> QED
      BY <1>3, <2>2, <3>2, ProtocolDiffers
  <2> QED
    BY <2>1, <2>2
<1>7. ASSUME NEW i \in DOMAIN option
      PROVE  Requests!GetGETParams(params, Requests!encodeURIComponent(option[i][1]))
               = Requests!encodeURIComponent(option[i][2])
  <2>1. option \in Seq(Parameter)
    BY DEF Application, ValidQuery
  <2>2. i \in 1..Len(option) /\ option[i] \in Parameter
    BY <2>1, LenProperties, ElementOfSeq
  <2>3. option[i] = <<option[i][1], option[i][2]>>
    BY <2>2 DEF Parameter
  <2>4. HasPair(option, option[i][1], option[i][2])
    BY <2>2, <2>3 DEF HasPair
  <2>5. HasPair(q, option[i][1], option[i][2])
    BY <1>1, <2>4
  <2> QED
    BY <1>1, <1>2, <2>5, ParameterFound
<1>8. Requests!VerifyRequest(params, method, transport = "websocket", id)
  <2>1. name \in Requests!Range(Requests!Name)
    BY <1>1, ProtocolDiffers
  <2>2. \/ id = <<>> /\ method = "GET"
        \/ id # <<>> /\ id = id /\ (transport = "websocket" \/ name = PollingName)
    BY <1>1
  <2> QED
    BY <1>4, <1>5, <2>1, <2>2 DEF Requests!VerifyRequest, NameOf, TransportKey, SidKey, PollingName
<1> QED
  BY <1>5, <1>6, <1>7, <1>8 DEF params

\* The polling transport's query is that of the session, and has said that the
\* client can have text only since the first request; the last request, unless
\* that was the handshake and is answered, is one of the session.
Asks(option, capable, polling, id, stamps, uri, transport, method) ==
  /\ Application(option) /\ capable \in BOOLEAN /\ id \in Seq(Requests!Unreserved)
  /\ id # <<>> => stamps # <<>>
  /\ stamps # <<>> => polling # <<>>
  /\ polling # <<>> =>
       /\ QueryOf(polling, option, PollingName, id)
       /\ Marked(polling, IF stamps = <<>> THEN TRUE ELSE capable)
  /\ uri # <<>> =>
       /\ polling # <<>>
       /\ \E q : SentWith(q, option, capable, id, uri, transport, method)

Fields == {"option", "binary", "polling", "id", "prev", "seed", "stamps", "back", "uri",
           "transport", "method"}

UriInv ==
  /\ DOMAIN requests = Fields
  /\ Asks(requests.option, requests.binary, requests.polling, requests.id, requests.stamps,
          requests.uri, requests.transport, requests.method)

LEMMA AskInits ==
  ASSUME Init
  PROVE  UriInv
<1>1. requests = [option |-> <<>>, binary |-> TRUE, polling |-> <<>>, id |-> <<>>,
                  prev |-> -1, seed |-> 0, stamps |-> <<>>, back |-> FALSE,
                  uri |-> <<>>, transport |-> "polling", method |-> "GET"]
  BY DEF Init, Requests!Init
<1>2. /\ DOMAIN requests = Fields
      /\ requests.option = <<>> /\ requests.binary = TRUE /\ requests.polling = <<>>
      /\ requests.id = <<>> /\ requests.stamps = <<>> /\ requests.uri = <<>>
  BY <1>1 DEF Fields
<1>3. Application(<<>>)
  <2>1. <<>> \in Seq(Parameter) /\ Len(<<>>) = 0 /\ 1..0 = {}
    BY EmptySeq
  <2> QED
    BY <2>1 DEF Application, ValidQuery, LacksKey
<1>4. <<>> \in Seq(Requests!Unreserved)
  BY EmptySeq
<1> QED
  BY <1>2, <1>3, <1>4 DEF UriInv, Asks

LEMMA PollingNamed ==
  /\ NameOf("polling") = PollingName /\ NameOf("websocket") = WebsocketName
BY DEF PollingName, WebsocketName, NameOf

LEMMA OpenAsks ==
  ASSUME UriInv, Requests!Open
  PROVE  UriInv'
<1>1. PICK option \in Queries, capable \in BOOLEAN :
        requests' = [requests EXCEPT
                       !.option = option, !.binary = capable,
                       !.polling = Requests!createTransport(option, "polling", <<>>)]
  BY DEF Requests!Open
<1>2. requests.polling = <<>>
  BY DEF Requests!Open
<1> DEFINE query == Requests!createTransport(option, "polling", <<>>)
<1>3. QueryOf(query, option, PollingName, <<>>) /\ Marked(query, TRUE) /\ Application(option)
  <2>1. <<>> \in Seq(Requests!Unreserved)
    BY EmptySeq
  <2>2. Application(option)
    BY QueriesApply
  <2> DEFINE t == "polling"
             none == <<>>
             name == NameOf(t)
  <2>3. /\ name = PollingName /\ query = Requests!createTransport(option, t, none)
        /\ none \in Seq(Requests!Unreserved)
    BY <2>1, PollingNamed
  <2> HIDE DEF t, none, query
  <2>4. QueryOf(query, option, name, none) /\ LacksKey(query, TextKey)
    BY <2>2, <2>3, NewQuery
  <2> QED
    BY <2>2, <2>3, <2>4 DEF Marked, none
<1> HIDE DEF query
<1>4. requests' = [requests EXCEPT !.option = option, !.binary = capable, !.polling = query]
  BY <1>1 DEF query
<1>5. /\ (DOMAIN requests)' = Fields
      /\ requests'.option = option /\ requests'.binary = capable /\ requests'.polling = query
      /\ requests'.id = requests.id /\ requests'.stamps = requests.stamps
      /\ requests'.uri = requests.uri
  BY <1>4 DEF UriInv, Fields
<1>6. requests.id = <<>> /\ requests.stamps = <<>> /\ requests.uri = <<>>
  BY <1>2 DEF UriInv, Asks
<1> QED
  BY <1>3, <1>5, <1>6 DEF UriInv, Asks

LEMMA PollAsks ==
  ASSUME StampInv, UriInv, NEW method, Requests!Poll(method)
  PROVE  UriInv'
<1>1. PICK now \in Times :
        LET again == now = requests.prev
            stamp == IF again THEN Requests!Seeded(now, requests.seed)
                              ELSE Requests!encode(now)
            stamped == Requests!Put(requests.polling, Requests!Key.t, stamp)
            query == IF ~requests.binary /\ requests.id = <<>>
                     THEN Requests!Put(stamped, Requests!Key.b64, <<"1">>) ELSE stamped
        IN  requests' = [requests EXCEPT
                           !.prev = now, !.seed = IF again THEN @ + 1 ELSE 0,
                           !.stamps = Append(@, stamp),
                           !.back = @ \/ now < requests.prev,
                           !.polling = query, !.uri = Requests!Uri(query),
                           !.transport = "polling", !.method = method]
  BY DEF Requests!Poll
<1> DEFINE stamp == IF now = requests.prev THEN Requests!Seeded(now, requests.seed)
                                           ELSE Requests!encode(now)
           stamped == Requests!Put(requests.polling, StampKey, stamp)
           query == IF ~requests.binary /\ requests.id = <<>>
                    THEN Requests!Put(stamped, TextKey, One) ELSE stamped
           uri == Requests!Uri(query)
           stamps == Append(requests.stamps, stamp)
           seed == IF now = requests.prev THEN requests.seed + 1 ELSE 0
           back == requests.back \/ now < requests.prev
<1>2. requests' = [requests EXCEPT
                     !.prev = now, !.seed = seed, !.stamps = stamps, !.back = back,
                     !.polling = query, !.uri = uri, !.transport = "polling", !.method = method]
  BY <1>1 DEF StampKey, TextKey, One
<1>3. stamp \in Seq(Stampable)
  <2> DEFINE k == IF now = requests.prev THEN requests.seed + 1 ELSE 0
  <2>1. now \in Nat /\ requests.seed \in Nat
    BY TimesAssumption DEF StampInv
  <2>2. CASE now = requests.prev
    <3>1. requests.seed + 1 \in Nat /\ requests.seed + 1 # 0 /\ (requests.seed + 1) - 1 = requests.seed
      BY <2>1
    <3>2. Mark(now, requests.seed + 1) = stamp
      BY <2>2, <3>1 DEF Mark
    <3>3. Mark(now, requests.seed + 1) \in Seq(Stampable)
      BY <2>1, <3>1, MarkTyped
    <3> QED
      BY <3>2, <3>3
  <2>3. CASE now # requests.prev
    BY <2>1, <2>3, EncodeFacts
  <2> QED
    BY <2>2, <2>3
<1> HIDE DEF stamp
<1>4. stamp \in Seq(Requests!Unreserved)
  <2>1. Len(stamp) \in Nat /\ stamp \in [1..Len(stamp) -> Requests!Unreserved]
    BY <1>3, StampableUnreserved, LenProperties, ElementOfSeq
  <2> QED
    BY <2>1, FunctionIsSeq
<1>5. stamps # <<>>
  BY <1>3, AppendProperties DEF StampInv
<1>6. requests.polling # <<>>
      /\ (requests.id = <<>> => requests.stamps = <<>> /\ method = "GET")
  BY DEF Requests!Poll
<1>7. /\ Application(requests.option) /\ requests.binary \in BOOLEAN
      /\ requests.id \in Seq(Requests!Unreserved)
      /\ QueryOf(requests.polling, requests.option, PollingName, requests.id)
      /\ Marked(requests.polling, IF requests.stamps = <<>> THEN TRUE ELSE requests.binary)
      /\ requests.id # <<>> => requests.stamps # <<>>
  BY <1>6 DEF UriInv, Asks
<1>8. /\ QueryOf(stamped, requests.option, PollingName, requests.id)
      /\ \A b \in BOOLEAN : Marked(requests.polling, b) => Marked(stamped, b)
  BY <1>4, <1>7, StampedQuery
<1> HIDE DEF stamped, stamps
<1>9. /\ QueryOf(query, requests.option, PollingName, requests.id)
      /\ Marked(query, requests.binary)
  <2>1. CASE ~requests.binary /\ requests.id = <<>>
    <3>1. QueryOf(query, requests.option, PollingName, requests.id) /\ Marked(query, FALSE)
      BY <1>7, <1>8, <2>1, MarkedQuery
    <3> QED
      BY <1>7, <2>1, <3>1
  <2>2. CASE requests.binary
    <3>1. query = stamped /\ Marked(requests.polling, TRUE) /\ requests.binary = TRUE
      BY <1>7, <2>2
    <3> QED
      BY <1>8, <3>1
  <2>3. CASE ~requests.binary /\ requests.id # <<>>
    <3>1. query = stamped /\ Marked(requests.polling, requests.binary)
      BY <1>7, <2>3
    <3> QED
      BY <1>7, <1>8, <3>1
  <2> QED
    BY <2>1, <2>2, <2>3
<1>10. query # <<>>
  BY <1>9 DEF QueryOf
<1> HIDE DEF query, seed, back, uri
<1>11. /\ (DOMAIN requests)' = Fields
       /\ requests'.option = requests.option /\ requests'.binary = requests.binary
       /\ requests'.polling = query /\ requests'.id = requests.id /\ requests'.stamps = stamps
       /\ requests'.uri = uri /\ requests'.transport = "polling" /\ requests'.method = method
  BY <1>2 DEF UriInv, Fields
<1>12. SentWith(query, requests.option, requests.binary, requests.id, uri, "polling", method)
  BY <1>6, <1>9, PollingNamed DEF SentWith, uri
<1> QED
  BY <1>5, <1>7, <1>9, <1>10, <1>11, <1>12 DEF UriInv, Asks

LEMMA HandshakeAsks ==
  ASSUME UriInv, Requests!Handshake
  PROVE  UriInv'
<1>1. PICK bytes \in Randoms :
        requests' = [requests EXCEPT
                       !.id = Requests!GenerateBase64ID(bytes),
                       !.polling = Requests!Put(@, Requests!Key.sid, Requests!GenerateBase64ID(bytes)),
                       !.uri = <<>>]
  BY DEF Requests!Handshake
<1> DEFINE sid == Requests!GenerateBase64ID(bytes)
           query == Requests!Put(requests.polling, SidKey, sid)
<1>2. sid \in Seq(Requests!Unreserved) /\ sid # <<>>
  BY IdPlain
<1>3. requests' = [requests EXCEPT !.id = sid, !.polling = query, !.uri = <<>>]
  BY <1>1 DEF SidKey
<1> HIDE DEF sid
<1>4. requests.id = <<>> /\ requests.stamps # <<>>
  BY DEF Requests!Handshake
<1>5. /\ Application(requests.option) /\ requests.binary \in BOOLEAN
      /\ QueryOf(requests.polling, requests.option, PollingName, <<>>)
      /\ Marked(requests.polling, requests.binary)
  BY <1>4 DEF UriInv, Asks
<1>6. QueryOf(query, requests.option, PollingName, sid) /\ Marked(query, requests.binary)
  BY <1>2, <1>5, NamedQuery
<1> HIDE DEF query
<1>7. query # <<>>
  BY <1>6 DEF QueryOf
<1>8. /\ (DOMAIN requests)' = Fields
      /\ requests'.option = requests.option /\ requests'.binary = requests.binary
      /\ requests'.polling = query /\ requests'.id = sid /\ requests'.stamps = requests.stamps
      /\ requests'.uri = <<>>
  BY <1>3 DEF UriInv, Fields
<1> QED
  BY <1>2, <1>4, <1>5, <1>6, <1>7, <1>8 DEF UriInv, Asks

LEMMA ProbeAsks ==
  ASSUME UriInv, Requests!Probe
  PROVE  UriInv'
<1> DEFINE query == Requests!createTransport(requests.option, "websocket", requests.id)
           asked == IF requests.binary THEN query ELSE Requests!Put(query, TextKey, One)
           uri == Requests!Uri(asked)
<1>1. requests' = [requests EXCEPT !.uri = uri, !.transport = "websocket", !.method = "GET"]
  BY DEF Requests!Probe, TextKey, One
<1>2. requests.id # <<>>
  BY DEF Requests!Probe
<1>3. /\ Application(requests.option) /\ requests.binary \in BOOLEAN
      /\ requests.id \in Seq(Requests!Unreserved) /\ requests.polling # <<>>
  BY <1>2 DEF UriInv, Asks
<1>4. QueryOf(query, requests.option, WebsocketName, requests.id) /\ Marked(query, TRUE)
  <2> DEFINE t == "websocket"
             name == NameOf(t)
  <2>1. name = WebsocketName /\ query = Requests!createTransport(requests.option, t, requests.id)
    BY PollingNamed
  <2> HIDE DEF t, query
  <2>2. QueryOf(query, requests.option, name, requests.id) /\ LacksKey(query, TextKey)
    BY <1>3, <2>1, NewQuery
  <2> QED
    BY <2>1, <2>2 DEF Marked
<1> HIDE DEF query
<1>5. QueryOf(asked, requests.option, WebsocketName, requests.id) /\ Marked(asked, requests.binary)
  <2>1. CASE requests.binary
    BY <1>3, <1>4, <2>1
  <2>2. CASE ~requests.binary
    <3>1. QueryOf(asked, requests.option, WebsocketName, requests.id) /\ Marked(asked, FALSE)
      BY <1>3, <1>4, <2>2, MarkedQuery
    <3> QED
      BY <1>3, <2>2, <3>1
  <2> QED
    BY <2>1, <2>2
<1> HIDE DEF asked
<1>6. SentWith(asked, requests.option, requests.binary, requests.id, uri, "websocket", "GET")
  BY <1>5, PollingNamed DEF SentWith
<1> HIDE DEF uri
<1>7. /\ (DOMAIN requests)' = Fields
      /\ requests'.option = requests.option /\ requests'.binary = requests.binary
      /\ requests'.polling = requests.polling /\ requests'.id = requests.id
      /\ requests'.stamps = requests.stamps /\ requests'.uri = uri
      /\ requests'.transport = "websocket" /\ requests'.method = "GET"
  BY <1>1 DEF UriInv, Fields
<1> QED
  BY <1>3, <1>6, <1>7 DEF UriInv, Asks

LEMMA AskSteps ==
  ASSUME StampInv, UriInv, [Next]_vars
  PROVE  UriInv'
<1>1. Requests!Next \/ UNCHANGED requests
  BY DEF Next, vars, RequestsRest
<1>2. ASSUME NEW method, Requests!Poll(method) PROVE UriInv'
  BY <1>2, PollAsks
<1>3. CASE Requests!Open
  BY <1>3, OpenAsks
<1>4. CASE Requests!Handshake
  BY <1>4, HandshakeAsks
<1>5. CASE Requests!Probe
  BY <1>5, ProbeAsks
<1>6. CASE UNCHANGED requests
  BY <1>6 DEF UriInv
<1> QED
  BY <1>1, <1>2, <1>3, <1>4, <1>5, <1>6 DEF Requests!Next

LEMMA AskedIsRead ==
  ASSUME UriInv
  PROVE  UrisRead
<1>1. CASE requests.uri # <<>>
  <2>1. PICK q : SentWith(q, requests.option, requests.binary, requests.id, requests.uri,
                          requests.transport, requests.method)
    BY <1>1 DEF UriInv, Asks
  <2>2. /\ Application(requests.option) /\ requests.binary \in BOOLEAN
        /\ requests.id \in Seq(Requests!Unreserved)
    BY DEF UriInv, Asks
  <2> DEFINE params == Requests!ParseUrl(requests.uri)
  <2>3. /\ Requests!VerifyRequest(params, requests.method, requests.transport = "websocket",
                                  requests.id)
        /\ Requests!GetGETParams(params, SidKey) = requests.id
        /\ Requests!GetGETParams(params, TextKey) = <<>> <=> requests.binary
        /\ \A i \in DOMAIN requests.option :
             LET p == requests.option[i] IN
             Requests!GetGETParams(params, Requests!encodeURIComponent(p[1]))
               = Requests!encodeURIComponent(p[2])
    BY ONLY <2>1, <2>2, RequestReadBack
  <2> HIDE DEF params
  <2> QED
    BY <2>3 DEF UrisRead, Requests!UrisRead, SidKey, TextKey, params
<1>2. CASE requests.uri = <<>>
  BY <1>2 DEF UrisRead, Requests!UrisRead
<1> QED
  BY <1>1, <1>2

\* Whatever the application's query, the ids and the clock, the server finds in
\* the URI of each request what the client has put there, and the session that
\* the request belongs to, though it does not undo escapes.
THEOREM UrisAreRead == Spec => []UrisRead
<1>1. Init => StampInv /\ UriInv
  BY StampInits, AskInits
<1>2. StampInv /\ UriInv /\ [Next]_vars => StampInv' /\ UriInv'
  BY StampSteps, AskSteps
<1>3. UriInv => UrisRead
  BY AskedIsRead
<1> QED
  BY <1>1, <1>2, <1>3, PTL DEF Spec

-----------------------------------------------------------------------------
(* UTF-16 in utf8.js.                                                      *)

LEMMA PointsAre == Characters!LastPoint = LastCodePoint /\ Characters!Point = CodePoint
<1>1. Characters!LastPoint = LastCodePoint
  BY SMT DEF Characters!LastPoint, LastCodePoint
<1>2. Characters!Point = CodePoint
  BY ONLY <1>1, Zenon DEF Characters!Point, CodePoint
<1> QED
  BY <1>1, <1>2

LEMMA SurrogateIs ==
  ASSUME NEW c
  PROVE  /\ Characters!Surrogate(c) <=> c \in Highs \/ c \in Lows
         /\ Characters!High(c) <=> c \in Highs
         /\ Characters!Low(c) <=> c \in Lows
         /\ c \in Scalar <=> c \in CodePoint /\ ~Characters!Surrogate(c)
BY DEF Characters!Surrogate, Characters!High, Characters!Low, Highs, Lows, Scalar

LEMMA UnitReader ==
  /\ UnitSym \in [Seq(Nat) -> Int] /\ UnitRest \in [Seq(Nat) -> Seq(Nat)]
  /\ Shortens(UnitRest)
  /\ ReadsSymbols(Points, UnitSym, UnitRest)
  /\ Covers(Seq(Nat), Int, UnitSym, UnitRest)
<1>0. Nat \in SUBSET Nat
  OBVIOUS
<1>1. ASSUME NEW r \in Seq(Nat) PROVE UnitSym[r] \in Int
  <2>1. CASE r = <<>>
    BY <2>1 DEF UnitSym
  <2>2. CASE r # <<>>
    <3>1. r[1] \in Nat /\ (PairAt(r) => r[2] \in Nat)
          /\ UnitSym[r] = IF PairAt(r) THEN PairOf(r[1], r[2]) ELSE r[1]
      BY <1>0, <2>2, UnitTyped
    <3>2. PairAt(r) => PairOf(r[1], r[2]) \in Nat
      BY PairUnits, PointIs DEF PairAt
    <3> QED
      BY <3>1, <3>2
  <2> QED
    BY <2>1, <2>2
<1>2. ASSUME NEW r \in Seq(Nat)
      PROVE  UnitRest[r] \in Seq(Nat) /\ (r = <<>> \/ Len(UnitRest[r]) < Len(r))
  <2>1. CASE r = <<>>
    <3>1. UnitSize(r) \in Nat
      BY DEF UnitSize
    <3> QED
      BY <2>1, <3>1, AfterTyped DEF UnitRest, Past, Payloads!After
  <2>2. CASE r # <<>>
    BY <1>0, <2>2, UnitFrontOff
  <2> QED
    BY <2>1, <2>2
<1>3. UnitSym \in [Seq(Nat) -> Int]
  BY <1>1 DEF UnitSym
<1>4. UnitRest \in [Seq(Nat) -> Seq(Nat)]
  BY <1>2 DEF UnitRest
<1>5. Shortens(UnitRest)
  BY <1>2 DEF Shortens
<1>6. ReadsSymbols(Points, UnitSym, UnitRest)
  BY <1>3, <1>4, <1>5, SymbolReaderReads DEF Points
<1>7. Covers(Seq(Nat), Int, UnitSym, UnitRest)
  BY <1>1, <1>2 DEF Covers
<1> QED
  BY <1>3, <1>4, <1>5, <1>6, <1>7

LEMMA ucs2decodeIs ==
  ASSUME NEW s
  PROVE  Characters!ucs2decode(s) = Points[s]
<1> DEFINE one(f) ==
      [r \in Seq(Nat) |->
        IF r = <<>> THEN <<>>
        ELSE IF Len(r) > 1 /\ Characters!High(r[1]) /\ Characters!Low(r[2])
        THEN <<(r[1] - 55296) * 1024 + (r[2] - 56320) + 65536>> \o f[SubSeq(r, 3, Len(r))]
        ELSE <<r[1]>> \o f[Tail(r)]]
           two(f) == [r \in Seq(Nat) |-> IF r = <<>> THEN <<>>
                                         ELSE <<UnitSym[r]>> \o f[UnitRest[r]]]
<1> DEFINE pair(r) == Len(r) > 1 /\ Characters!High(r[1]) /\ Characters!Low(r[2])
           many(f, r) == <<(r[1] - 55296) * 1024 + (r[2] - 56320) + 65536>> \o f[SubSeq(r, 3, Len(r))]
           next(f, r) == <<r[1]>> \o f[Tail(r)]
           goes(f, r) == <<UnitSym[r]>> \o f[UnitRest[r]]
<1>1. ASSUME NEW f, NEW r \in Seq(Nat), r # <<>>
      PROVE  (IF pair(r) THEN many(f, r) ELSE next(f, r)) = goes(f, r)
  <2>0. /\ UnitSym[r] = IF PairAt(r) THEN PairOf(r[1], r[2]) ELSE r[1]
        /\ UnitRest[r] = Past(r, UnitSize(r))
    <3>1. Nat \in SUBSET Nat
      OBVIOUS
    <3> QED
      BY <1>1, <3>1, UnitTyped
  <2>1. pair(r) <=> PairAt(r)
    BY SurrogateIs DEF PairAt
  <2>2. CASE PairAt(r)
    <3>1. UnitRest[r] = SubSeq(r, 3, Len(r))
      BY <2>0, <2>2 DEF UnitSize, Past
    <3>2. UnitSym[r] = (r[1] - 55296) * 1024 + (r[2] - 56320) + 65536
      BY <2>0, <2>2 DEF PairOf
    <3>3. many(f, r) = goes(f, r)
      BY <3>1, <3>2
    <3> HIDE DEF pair, many, next, goes
    <3> QED
      BY <2>1, <2>2, <3>3
  <2>3. CASE ~PairAt(r)
    <3>1. Tail(r) = SubSeq(r, 2, Len(r))
      BY <1>1, TailIsSubSeq
    <3>2. UnitRest[r] = Tail(r)
      BY <2>0, <2>3, <3>1 DEF UnitSize, Past
    <3>3. UnitSym[r] = r[1]
      BY <2>0, <2>3
    <3>4. next(f, r) = goes(f, r)
      BY <3>2, <3>3
    <3> HIDE DEF pair, many, next, goes
    <3> QED
      BY <2>1, <2>3, <3>4
  <2> HIDE DEF pair, many, next, goes
  <2> QED
    BY <2>2, <2>3
<1>2. ASSUME NEW f PROVE one(f) = two(f)
  <2>1. one(f) = [r \in Seq(Nat) |-> IF r = <<>> THEN <<>> ELSE IF pair(r) THEN many(f, r) ELSE next(f, r)]
    OBVIOUS
  <2>2. two(f) = [r \in Seq(Nat) |-> IF r = <<>> THEN <<>> ELSE goes(f, r)]
    OBVIOUS
  <2> HIDE DEF one, two, pair, many, next, goes
  <2> QED
    BY <1>1, <2>1, <2>2
<1>3. Characters!ucs2decode(s) = (CHOOSE f : f = one(f))[s]
  BY DEF Characters!ucs2decode
<1>4. Points = CHOOSE f : f = two(f)
  BY DEF Points, SymbolReader
<1> HIDE DEF one, two
<1> QED
  BY <1>2, <1>3, <1>4

\* Code points become the same ones again; so do units that make code points.
LEMMA PointsRead ==
  ASSUME NEW q \in Seq(Scalar)
  PROVE  Characters!ucs2decode(Spelled(Utf16, q)) = q
<1>1. Scalar \subseteq Int
  BY ScalarIs
<1>2. Points[Spelled(Utf16, q)] = q
  BY <1>1, UnitReader, Utf16Typed, Utf16Recognized, SymbolsRead
<1> QED
  BY <1>2, ucs2decodeIs

LEMMA PointsTyped ==
  ASSUME NEW s \in Seq(Unit)
  PROVE  Characters!ucs2decode(s) \in Seq(CodePoint)
<1>1. Points[s] \in Seq(CodePoint)
  BY UnitReader, Utf16Undone, SymbolsTyped
<1> QED
  BY <1>1, ucs2decodeIs

LEMMA PointsWritten ==
  ASSUME NEW s \in Seq(Unit), Characters!ucs2decode(s) \in Seq(Scalar)
  PROVE  Spelled(Utf16, Characters!ucs2decode(s)) = s
<1>1. Points[s] \in Seq(Scalar) /\ ReadsSymbols(Points, UnitSym, UnitRest)
  BY ucs2decodeIs, UnitReader
<1>2. Scalar \subseteq CodePoint
  BY DEF Scalar
<1>3. Seq(Unit) \in SUBSET Seq(Nat)
  BY NatSequence, UnitNat
<1>4. Spelled(Utf16, Points[s]) = s
  BY <1>1, <1>2, <1>3, Utf16Typed, Utf16Undone, SymbolsWritten
<1> QED
  BY <1>4, ucs2decodeIs

LEMMA ucs2encodeIs ==
  ASSUME NEW q \in Seq(Scalar)
  PROVE  Characters!ucs2encode(q) = Spelled(Utf16, q)
<1> DEFINE unit(c) == IF c - 65536 < 0 THEN <<c>>
                      ELSE <<55296 + ((c - 65536) \div 1024), 56320 + ((c - 65536) % 1024)>>
           ss == [i \in DOMAIN q |-> unit(q[i])]
<1>1. \A i \in DOMAIN q : q[i] \in Scalar
  BY ElementOfSeq, LenProperties
<1>2. ASSUME NEW c \in Scalar PROVE unit(c) = Utf16[c]
  <2>1. c \in Nat
    BY Utf16Is
  <2>2. (c - 65536 < 0) <=> (c < 65536)
    BY <2>1
  <2> QED
    BY <2>2 DEF Utf16, HighOf, LowOf
<1>3. Characters!ucs2encode(q) = Characters!FlattenSeq(ss)
  BY DEF Characters!ucs2encode
<1> HIDE DEF unit
<1>4. ss = Image(Utf16, q)
  BY <1>1, <1>2 DEF Image
<1>5. Characters!FlattenSeq(ss) = Strung(ss)
  BY DEF Characters!FlattenSeq, Strung
<1> QED
  BY <1>3, <1>4, <1>5 DEF Spelled

-----------------------------------------------------------------------------
\* Surrogates in pairs.

LEMMA PairedIs ==
  ASSUME NEW s \in Seq(Unit)
  PROVE  Paired(s) <=> ~Characters!Lone(s)
<1>1. DOMAIN s = 1..Len(s) /\ Len(s) \in Nat
  BY LenProperties
<1>2. \A c : Characters!High(c) <=> c \in Highs
  BY SurrogateIs
<1>3. \A c : Characters!Low(c) <=> c \in Lows
  BY SurrogateIs
<1>4. \A i \in 1..Len(s) : (i < Len(s) <=> i # Len(s)) /\ (i > 1 <=> i # 1)
  <2> DEFINE n == Len(s)
  <2>1. n \in Nat
    BY <1>1
  <2> HIDE DEF n
  <2>2. \A i \in 1..n : (i < n <=> i # n) /\ (i > 1 <=> i # 1)
    BY ONLY <2>1
  <2> QED
    BY <2>2 DEF n
<1> HIDE DEF Highs, Lows
<1> QED
  BY <1>1, <1>2, <1>3, <1>4 DEF Paired, PairedAt, Characters!Lone

\* Units in pairs are read as code points other than surrogates.
LEMMA PairedRead ==
  ASSUME NEW s \in Seq(Unit), Paired(s)
  PROVE  Characters!ucs2decode(s) \in Seq(Scalar)
<1> DEFINE G == {r \in Seq(Unit) : Paired(r)}
<1>1. ASSUME NEW r \in G, r # <<>>
      PROVE  UnitSym[r] \in Scalar /\ UnitRest[r] \in G /\ Len(UnitRest[r]) < Len(r)
  <2> DEFINE k == UnitSize(r)
             t == UnitRest[r]
             n == Len(r)
  <2>0. /\ r \in Seq(Unit)
        /\ \A i \in 1..n : PairedAt(r, n, i)
    BY DEF Paired
  <2> HIDE DEF G
  <2>1. /\ n \in Nat /\ n >= 1 /\ r[1] \in Unit /\ k \in 1..n
        /\ UnitSym[r] = IF PairAt(r) THEN PairOf(r[1], r[2]) ELSE r[1]
    BY <1>1, <2>0, UnitNat, UnitTyped
  <2>2. /\ t \in Seq(Unit) /\ Len(t) = n - k /\ Len(t) < n
        /\ \A i \in 1..n - k : t[i] = r[k + i]
    BY <1>1, <2>0, UnitNat, UnitFrontOff
  <2>3. PairAt(r) <=> n > 1 /\ r[1] \in Highs /\ r[2] \in Lows
    BY DEF PairAt
  <2>4. (PairAt(r) => k = 2) /\ (~PairAt(r) => k = 1)
    BY DEF UnitSize
  <2>5. r[1] \notin Lows /\ (r[1] \in Highs => PairAt(r))
    <3> HIDE DEF n
    <3>1. 1 \in 1..n /\ 1 + 1 = 2 /\ ~(1 > 1) /\ (1 < n => n > 1)
      BY <2>1
    <3>a. PairedAt(r, n, 1)
      BY <2>0, <3>1
    <3>2. (r[1] \in Highs => 1 < n /\ r[2] \in Lows) /\ r[1] \notin Lows
      BY ONLY <3>a, <3>1 DEF PairedAt
    <3> QED
      BY ONLY <2>3, <3>1, <3>2
  <2>6. UnitSym[r] \in Scalar
    <3>1. UnitSym[r] \in CodePoint
      BY <1>1, <2>0, UnitSymTyped
    <3>2. CASE PairAt(r)
      <4>1. UnitSym[r] >= 65536
        BY <2>1, <2>3, <3>2, PairUnits
      <4>2. UnitSym[r] \notin Highs /\ UnitSym[r] \notin Lows
        <5> DEFINE c == UnitSym[r]
        <5> HIDE DEF c
        <5>1. c >= 65536
          BY <4>1 DEF c
        <5>2. c \notin Highs /\ c \notin Lows
          BY <5>1, HighsAre, LowsAre
        <5> QED
          BY <5>2 DEF c
      <4> QED
        BY <3>1, <4>2, ScalarIs
    <3>3. CASE ~PairAt(r)
      BY <2>1, <2>5, <3>1, <3>3, ScalarIs
    <3> QED
      BY <3>2, <3>3
  <2>7. ASSUME NEW i \in 1..n - k
        PROVE  PairedAt(t, n - k, i)
    <3> HIDE DEF k, t, n
    <3>1. /\ k + i \in 1..n /\ t[i] = r[k + i]
          /\ (k + i < n => i < n - k /\ i + 1 \in 1..n - k /\ (k + i) + 1 = k + (i + 1))
          /\ (i > 1 => i - 1 \in 1..n - k /\ (k + i) - 1 = k + (i - 1))
      BY <2>1, <2>2
    <3>0. PairedAt(r, n, k + i)
      BY <2>0, <3>1
    <3>a. /\ r[k + i] \in Highs => k + i < n /\ r[(k + i) + 1] \in Lows
          /\ r[k + i] \in Lows => k + i > 1 /\ r[(k + i) - 1] \in Highs
      BY ONLY <3>0 DEF PairedAt
    <3>b. i < n - k => t[i + 1] = r[k + (i + 1)]
      BY <2>2, <3>1, <2>1
    <3>2. t[i] \in Highs => i < n - k /\ t[i + 1] \in Lows
      BY ONLY <3>1, <3>a, <3>b
    <3>3. CASE i > 1
      <4>1. t[i - 1] = r[k + (i - 1)]
        BY <2>2, <3>1, <3>3
      <4> QED
        BY ONLY <3>1, <3>a, <3>2, <3>3, <4>1 DEF PairedAt
    <3>4. CASE ~(i > 1)
      <4>1. i = 1 /\ (k + i) - 1 = k
        BY <2>1, <3>4
      <4>2. t[i] \notin Lows
        <5> SUFFICES ASSUME r[k + 1] \in Lows PROVE FALSE
          BY <3>1, <4>1
        <5>1. r[k] \in Highs
          <6>1. r[k + i] \in Lows
            BY <4>1
          <6> QED
            BY ONLY <3>a, <4>1, <6>1
        <5>2. CASE PairAt(r)
          <6>1. r[k] \in Lows
            BY <2>3, <2>4, <5>2
          <6> QED
            BY <5>1, <6>1, HighsAre, LowsAre
        <5>3. CASE ~PairAt(r)
          BY <2>4, <2>5, <5>1, <5>3
        <5> QED
          BY <5>2, <5>3
      <4> QED
        BY <3>2, <4>2 DEF PairedAt
    <3> QED
      BY <3>3, <3>4
  <2> HIDE DEF k, t, n
  <2>8. Paired(t)
    BY <2>2, <2>7 DEF Paired
  <2> QED
    BY <2>2, <2>6, <2>8 DEF G, t, n
<1>2. G \in SUBSET Seq(Nat)
  BY NatSequence, UnitNat
<1>3. s \in G
  OBVIOUS
<1> HIDE DEF G
<1>4. Covers(G, Scalar, UnitSym, UnitRest)
  BY <1>1, <1>2 DEF Covers
<1>5. Points[s] \in Seq(Scalar)
  BY <1>3, <1>4, UnitReader, SymbolsTyped
<1> QED
  BY <1>5, ucs2decodeIs

\* A string without lone surrogates is one of code points; in another one
\* there is a surrogate.
LEMMA LonePoints ==
  ASSUME NEW s \in Seq(Unit)
  PROVE  LET points == Characters!ucs2decode(s) IN
         /\ ~Characters!Lone(s) => points \in Seq(Scalar)
         /\ Characters!Lone(s) => \E i \in DOMAIN points : Characters!Surrogate(points[i])
<1> DEFINE p == Characters!ucs2decode(s)
<1>1. ~Characters!Lone(s) => p \in Seq(Scalar)
  BY PairedIs, PairedRead
<1>2. ASSUME Characters!Lone(s), \A i \in DOMAIN p : ~Characters!Surrogate(p[i])
      PROVE  FALSE
  <2> DEFINE n == Len(p)
  <2>1. p \in Seq(CodePoint)
    BY PointsTyped
  <2>2. n \in Nat /\ DOMAIN p = 1..n /\ p \in [1..n -> CodePoint]
    BY <2>1, LenProperties
  <2>3. \A i \in 1..n : p[i] \in Scalar
    BY <1>2, <2>2, SurrogateIs
  <2>4. p \in Seq(Scalar)
    <3>1. p \in [1..n -> Scalar]
      BY <2>2, <2>3
    <3> HIDE DEF p, n
    <3> QED
      BY <2>2, <3>1, FunctionIsSeq
  <2>5. Spelled(Utf16, p) = s
    BY <2>4, PointsWritten
  <2>6. Paired(s)
    BY <2>4, <2>5, WrittenPaired
  <2> QED
    BY <1>2, <2>6, PairedIs
<1> QED
  BY <1>1, <1>2

-----------------------------------------------------------------------------
(* UTF-8 in utf8.js.                                                       *)

\* a is the form of the code point c.
FormOne(c, a) == c \in Below(128) /\ a = <<c>>
FormTwo(c, a) ==
  /\ c \in Nat /\ c >= 128
  /\ \E x \in Below(32), y \in Below(64) : c = TwoSixes(x, y) /\ a = <<192 + x, 128 + y>>
FormThree(c, a) ==
  /\ c \in Nat /\ c >= 2048 /\ ~Characters!Surrogate(c)
  /\ \E x \in Below(16), y, z \in Below(64) :
       c = ThreeSixes(x, y, z) /\ a = <<224 + x, 128 + y, 128 + z>>
FormFour(c, a) ==
  /\ c \in CodePoint /\ c >= 65536
  /\ \E x \in Below(8), y, z, u \in Below(64) :
       c = FourSixes(x, y, z, u) /\ a = <<240 + x, 128 + y, 128 + z, 128 + u>>
Forms(c, a) == FormOne(c, a) \/ FormTwo(c, a) \/ FormThree(c, a) \/ FormFour(c, a)

InTwo(c) == 128 <= c /\ c < 2048
InThree(c) == 2048 <= c /\ c < 65536

LEMMA EncodedBy ==
  ASSUME NEW c \in Nat
  PROVE  /\ c < 128 => Characters!encodeCodePoint(c) = <<c>>
         /\ InTwo(c) => Characters!encodeCodePoint(c)
              = <<192 + (c \div 64), Characters!createByte(c, 1)>>
         /\ InThree(c) => Characters!encodeCodePoint(c)
              = <<224 + (c \div 4096), Characters!createByte(c, 64),
                  Characters!createByte(c, 1)>>
         /\ c >= 65536 => Characters!encodeCodePoint(c)
              = <<240 + (c \div (64 * 4096)), Characters!createByte(c, 4096),
                  Characters!createByte(c, 64), Characters!createByte(c, 1)>>
<1> DEFINE one == <<c>>
           two == <<192 + (c \div 64), Characters!createByte(c, 1)>>
           three == <<224 + (c \div 4096), Characters!createByte(c, 64),
                      Characters!createByte(c, 1)>>
           four == <<240 + (c \div (64 * 4096)), Characters!createByte(c, 4096),
                     Characters!createByte(c, 64), Characters!createByte(c, 1)>>
           it == Characters!encodeCodePoint(c)
<1>1. it = CASE c < 128 -> one [] InTwo(c) -> two [] InThree(c) -> three [] OTHER -> four
  BY DEF Characters!encodeCodePoint, InTwo, InThree
<1>2. /\ (InTwo(c) <=> c >= 128 /\ c < 2048)
      /\ (InThree(c) <=> c >= 2048 /\ c < 65536)
  BY DEF InTwo, InThree
<1> HIDE DEF one, two, three, four, it
<1>3. /\ c < 128 => it = one
      /\ InTwo(c) => it = two
      /\ InThree(c) => it = three
      /\ c >= 65536 => it = four
  BY <1>1, <1>2
<1> QED
  BY <1>3 DEF one, two, three, four, it

LEMMA EncodedTwo ==
  ASSUME NEW x \in Below(32), NEW y \in Below(64), NEW c, c = TwoSixes(x, y), c >= 128
  PROVE  /\ c \in Scalar /\ c >= 128 /\ c < 2048
         /\ Characters!encodeCodePoint(c) = <<192 + x, 128 + y>>
<1>1. x \in Nat /\ x < 32
  BY DEF Below
<1>2. c \in Nat /\ c \div 64 = x /\ c % 64 = y /\ c < 64 * (x + 1)
  BY <1>1, TwoDigits
<1>3. c < 2048
  BY <1>1, <1>2
<1>4. c \in Scalar
  <2>1. c \in Unit /\ c \notin Highs /\ c \notin Lows
    BY <1>2, <1>3, UnitIs, HighsAre, LowsAre
  <2> QED
    BY <2>1, ScalarIs
<1>5. InTwo(c)
  BY <1>2, <1>3 DEF InTwo, InThree
<1>6. c \div 1 = c
  BY <1>2, Units64
<1>7. Characters!encodeCodePoint(c) = <<192 + (c \div 64), Characters!createByte(c, 1)>>
  BY <1>2, <1>5, EncodedBy
<1> QED
  BY <1>2, <1>3, <1>4, <1>6, <1>7 DEF Characters!createByte

LEMMA EncodedThree ==
  ASSUME NEW x \in Below(16), NEW y \in Below(64), NEW z \in Below(64), NEW c,
         c = ThreeSixes(x, y, z), c >= 2048, ~Characters!Surrogate(c)
  PROVE  /\ c \in Scalar /\ c >= 2048 /\ c < 65536
         /\ Characters!encodeCodePoint(c) = <<224 + x, 128 + y, 128 + z>>
<1> DEFINE d == TwoSixes(x, y)
<1>1. x \in Nat /\ x < 16
  BY DEF Below
<1>2. d \in Nat /\ d \div 64 = x /\ d % 64 = y /\ d < 64 * (x + 1)
  BY <1>1, TwoDigits
<1> HIDE DEF d
<1>3. c \in Nat /\ c \div 64 = d /\ c % 64 = z /\ c < 64 * (d + 1)
  BY <1>2, TwoDigits DEF ThreeSixes, d
<1>4. c < 65536
  BY <1>1, <1>2, <1>3
<1>5. c \in Scalar
  <2>1. c \in Unit
    BY <1>3, <1>4, UnitIs
  <2> QED
    BY <2>1, ScalarIs, SurrogateIs
<1>6. c \div 1 = c /\ c \div 4096 = (c \div 64) \div 64
  BY <1>3, Units64
<1>7. Characters!encodeCodePoint(c)
        = <<224 + (c \div 4096), Characters!createByte(c, 64), Characters!createByte(c, 1)>>
  <2>1. InThree(c)
    BY <1>3, <1>4 DEF InTwo, InThree
  <2> QED
    BY <1>3, <2>1, EncodedBy
<1> QED
  BY <1>2, <1>3, <1>4, <1>5, <1>6, <1>7 DEF Characters!createByte

LEMMA EncodedFour ==
  ASSUME NEW x \in Below(8), NEW y \in Below(64), NEW z \in Below(64), NEW u \in Below(64),
         NEW c, c = FourSixes(x, y, z, u), c >= 65536, c \in CodePoint
  PROVE  /\ c \in Scalar /\ c >= 65536
         /\ Characters!encodeCodePoint(c) = <<240 + x, 128 + y, 128 + z, 128 + u>>
<1> DEFINE d == TwoSixes(x, y)
           e == ThreeSixes(x, y, z)
<1>1. x \in Nat
  BY DEF Below
<1>2. d \in Nat /\ d \div 64 = x /\ d % 64 = y
  BY <1>1, TwoDigits
<1> HIDE DEF d
<1>3. e \in Nat /\ e \div 64 = d /\ e % 64 = z
  BY <1>2, TwoDigits DEF ThreeSixes, d
<1> HIDE DEF e
<1>4. c \in Nat /\ c \div 64 = e /\ c % 64 = u
  BY <1>3, TwoDigits DEF FourSixes, e
<1>5. c \in Scalar
  BY <1>4, ScalarIs, HighsAre, LowsAre
<1>6. c \div 1 = c /\ c \div 4096 = (c \div 64) \div 64
      /\ c \div (64 * 4096) = ((c \div 64) \div 64) \div 64
  BY <1>4, Units64
<1>7. Characters!encodeCodePoint(c)
        = <<240 + (c \div (64 * 4096)), Characters!createByte(c, 4096),
            Characters!createByte(c, 64), Characters!createByte(c, 1)>>
  BY <1>4, EncodedBy
<1> QED
  BY <1>2, <1>3, <1>4, <1>5, <1>6, <1>7 DEF Characters!createByte

LEMMA EncodedOne ==
  ASSUME NEW c \in Below(128)
  PROVE  c \in Scalar /\ Characters!encodeCodePoint(c) = <<c>>
<1>1. c \in Nat /\ c < 128
  BY DEF Below
<1>2. c \in Unit /\ c \notin Highs /\ c \notin Lows
  BY <1>1, UnitIs, HighsAre, LowsAre
<1>3. c \in Scalar
  BY <1>2, ScalarIs
<1> QED
  BY <1>1, <1>3, EncodedBy

\* A form is what the encoder writes, of scalars.
LEMMA FormsEncoded ==
  ASSUME NEW c, NEW a, Forms(c, a)
  PROVE  c \in Scalar /\ a = Characters!encodeCodePoint(c)
<1>1. CASE FormOne(c, a)
  BY <1>1, EncodedOne DEF FormOne
<1>2. CASE FormTwo(c, a)
  BY <1>2, EncodedTwo DEF FormTwo
<1>3. CASE FormThree(c, a)
  BY <1>3, EncodedThree DEF FormThree
<1>4. CASE FormFour(c, a)
  BY <1>4, EncodedFour DEF FormFour
<1> QED
  BY <1>1, <1>2, <1>3, <1>4 DEF Forms

\* Every scalar has a form.
LEMMA ScalarForms ==
  ASSUME NEW c \in Scalar
  PROVE  Forms(c, Characters!encodeCodePoint(c))
<1> DEFINE d == c \div 64
           e == d \div 64
           f == e \div 64
           y == c % 64
           z == d % 64
           u == e % 64
<1>0. c \in Nat /\ c \in CodePoint /\ ~Characters!Surrogate(c)
  BY Utf16Is, SurrogateIs
<1>1. d \in Nat /\ y \in Below(64) /\ c = TwoSixes(d, y) /\ 64 * d <= c
  BY <1>0, InDigits
<1> HIDE DEF d, y
<1>2. e \in Nat /\ z \in Below(64) /\ d = TwoSixes(e, z) /\ 64 * e <= d
  BY <1>1, InDigits DEF z
<1> HIDE DEF e, z
<1>3. f \in Nat /\ u \in Below(64) /\ e = TwoSixes(f, u) /\ 64 * f <= e
  BY <1>2, InDigits DEF u
<1> HIDE DEF f, u
<1>4. c = TwoSixes(d, y) /\ c = ThreeSixes(e, z, y) /\ c = FourSixes(f, u, z, y)
  BY <1>1, <1>2, <1>3 DEF ThreeSixes, FourSixes
<1>5. CASE c < 128
  <2>1. c \in Below(128)
    BY <1>0, <1>5 DEF Below
  <2>2. FormOne(c, Characters!encodeCodePoint(c))
    BY <2>1, EncodedOne DEF FormOne
  <2> QED
    BY <2>2 DEF Forms
<1>6. CASE c >= 128 /\ c < 2048
  <2>1. d \in Below(32)
    BY <1>0, <1>1, <1>6 DEF Below
  <2>2. Characters!encodeCodePoint(c) = <<192 + d, 128 + y>>
    BY <1>1, <1>6, <2>1, EncodedTwo
  <2>3. FormTwo(c, Characters!encodeCodePoint(c))
    BY <1>0, <1>1, <1>6, <2>1, <2>2 DEF FormTwo
  <2> QED
    BY <2>3 DEF Forms
<1>7. CASE c >= 2048 /\ c < 65536
  <2>1. e \in Below(16)
    BY <1>0, <1>1, <1>2, <1>7 DEF Below
  <2>2. Characters!encodeCodePoint(c) = <<224 + e, 128 + z, 128 + y>>
    <3>1. /\ e \in Below(16) /\ z \in Below(64) /\ y \in Below(64)
          /\ c = ThreeSixes(e, z, y) /\ c >= 2048 /\ ~Characters!Surrogate(c)
      BY <1>0, <1>1, <1>2, <1>4, <1>7, <2>1
    <3> QED
      BY ONLY <3>1, EncodedThree
  <2>3. FormThree(c, Characters!encodeCodePoint(c))
    <3> DEFINE a == Characters!encodeCodePoint(c)
    <3>1. /\ c \in Nat /\ c >= 2048 /\ ~Characters!Surrogate(c)
          /\ e \in Below(16) /\ z \in Below(64) /\ y \in Below(64)
          /\ c = ThreeSixes(e, z, y) /\ a = <<224 + e, 128 + z, 128 + y>>
      BY <1>0, <1>1, <1>2, <1>4, <1>7, <2>1, <2>2
    <3> HIDE DEF a
    <3>2. FormThree(c, a)
      BY ONLY <3>1 DEF FormThree
    <3> QED
      BY <3>2 DEF a
  <2> QED
    BY <2>3 DEF Forms
<1>8. CASE c >= 65536
  <2>1. f \in Below(8)
    <3>1. c <= LastCodePoint
      BY <1>0, PointIs
    <3>2. f < 8
      BY <1>0, <1>1, <1>2, <1>3, <3>1, LastPointIs, SMT
    <3> QED
      BY <1>3, <3>2 DEF Below
  <2>2. Characters!encodeCodePoint(c) = <<240 + f, 128 + u, 128 + z, 128 + y>>
    BY <1>0, <1>1, <1>2, <1>3, <1>4, <1>8, <2>1, EncodedFour
  <2>3. FormFour(c, Characters!encodeCodePoint(c))
    BY <1>0, <1>1, <1>2, <1>3, <1>4, <1>8, <2>1, <2>2 DEF FormFour
  <2> QED
    BY <2>3 DEF Forms
<1> QED
  BY <1>0, <1>5, <1>6, <1>7, <1>8

\* What decodeSymbol makes of the first k bytes of s.
LeadOf(k, b) ==
  CASE k = 1 -> b [] k = 2 -> b % 32 [] k = 3 -> b % 16 [] OTHER -> b % 8
BitsOf(s, k) == [i \in 1..k |-> IF i = 1 THEN LeadOf(k, s[1]) ELSE s[i] % 64]
Follows(b) == b \in 128..191
WellFormed(s, k) ==
  /\ k # 0 /\ k <= Len(s) /\ \A i \in 2..k : Follows(s[i])
  /\ Characters!Accepted(k, NumberOf(BitsOf(s, k), 64))

LEMMA decodeSymbolIs ==
  ASSUME NEW s, NEW k, k = Characters!Announced(s[1])
  PROVE  Characters!decodeSymbol(s)
           = IF WellFormed(s, k) THEN NumberOf(BitsOf(s, k), 64) ELSE -1
<1>1. \A d, b : Characters!NumberOf(d, b) = NumberOf(d, b)
  BY DEF Characters!NumberOf, NumberOf
<1>2. Characters!decodeSymbol(s)
        = IF /\ k # 0 /\ k <= Len(s) /\ \A i \in 2..k : Follows(s[i])
             /\ Characters!Accepted(k, Characters!NumberOf(BitsOf(s, k), 64))
          THEN Characters!NumberOf(BitsOf(s, k), 64) ELSE -1
  BY DEF Characters!decodeSymbol, BitsOf, LeadOf, Follows
<1> QED
  BY <1>1, <1>2 DEF WellFormed

LEMMA Leads ==
  ASSUME NEW b \in Nat
  PROVE  /\ Characters!Announced(b) \in {0, 1, 2, 3, 4}
         /\ Characters!Announced(b) = 1 <=> b < 128
         /\ Characters!Announced(b) = 2 <=> 192 <= b /\ b < 224
         /\ Characters!Announced(b) = 3 <=> 224 <= b /\ b < 240
         /\ Characters!Announced(b) = 4 <=> 240 <= b /\ b < 248
BY SMTT(60) DEF Characters!Announced

LEMMA LeadBits ==
  /\ \A b \in Nat : b < 128 <=> b \in Below(128)
  /\ \A x \in Below(32) : 192 + x \in Nat /\ 192 <= 192 + x /\ 192 + x < 224 /\ (192 + x) % 32 = x
  /\ \A x \in Below(16) : 224 + x \in Nat /\ 224 <= 224 + x /\ 224 + x < 240 /\ (224 + x) % 16 = x
  /\ \A x \in Below(8) : 240 + x \in Nat /\ 240 <= 240 + x /\ 240 + x < 248 /\ (240 + x) % 8 = x
  /\ \A y \in Below(64) : 128 + y \in Nat /\ Follows(128 + y) /\ (128 + y) % 64 = y
BY SMTT(30) DEF Below, Follows

LEMMA BitsLead ==
  ASSUME NEW b \in Nat
  PROVE  /\ 192 <= b /\ b < 224 => \E x \in Below(32) : b = 192 + x
         /\ 224 <= b /\ b < 240 => \E x \in Below(16) : b = 224 + x
         /\ 240 <= b /\ b < 248 => \E x \in Below(8) : b = 240 + x
         /\ Follows(b) => \E y \in Below(64) : b = 128 + y
<1>1. 192 <= b /\ b < 224 => b - 192 \in Below(32) /\ b = 192 + (b - 192)
  BY DEF Below
<1>2. 224 <= b /\ b < 240 => b - 224 \in Below(16) /\ b = 224 + (b - 224)
  BY DEF Below
<1>3. 240 <= b /\ b < 248 => b - 240 \in Below(8) /\ b = 240 + (b - 240)
  BY DEF Below
<1>4. Follows(b) => b - 128 \in Below(64) /\ b = 128 + (b - 128)
  BY DEF Below, Follows
<1> QED
  BY <1>1, <1>2, <1>3, <1>4

\* What is read of bytes that look like a form.
LEMMA ReadOne ==
  ASSUME NEW s \in Seq(Nat), Len(s) >= 1, s[1] \in Below(128)
  PROVE  Characters!Announced(s[1]) = 1 /\ Characters!decodeSymbol(s) = s[1]
<1> DEFINE x == s[1]
<1>1. x \in Nat /\ x < 128 /\ Characters!Announced(x) = 1 /\ 1 <= Len(s) /\ Len(s) \in Nat
  BY Leads, LeadBits, LenProperties DEF Below
<1>2. BitsOf(s, 1) = <<x>>
  BY DEF BitsOf, LeadOf
<1>3. NumberOf(BitsOf(s, 1), 64) = x
  <2>1. SixesAre(x, 0, 0, 0)
    BY <1>1, SixesRead
  <2> QED
    BY <1>2, <2>1 DEF SixesAre
<1> HIDE DEF x
<1>4. WellFormed(s, 1)
  <2>1. Characters!Accepted(1, NumberOf(BitsOf(s, 1), 64))
    BY DEF Characters!Accepted
  <2> QED
    BY <1>1, <2>1 DEF WellFormed
<1> QED
  BY <1>1, <1>3, <1>4, decodeSymbolIs DEF x

LEMMA ReadTwo ==
  ASSUME NEW s \in Seq(Nat), Len(s) >= 2, NEW x \in Below(32), NEW y \in Below(64),
         s[1] = 192 + x, s[2] = 128 + y
  PROVE  /\ Characters!Announced(s[1]) = 2
         /\ Characters!decodeSymbol(s) = IF TwoSixes(x, y) >= 128 THEN TwoSixes(x, y) ELSE -1
<1>1. /\ Characters!Announced(s[1]) = 2 /\ x \in Nat /\ y \in Nat /\ Len(s) \in Nat
      /\ s[1] % 32 = x /\ s[2] % 64 = y /\ Follows(s[2])
  BY Leads, LeadBits, LenProperties DEF Below
<1>2. BitsOf(s, 2) = <<x, y>>
  BY <1>1 DEF BitsOf, LeadOf
<1>3. NumberOf(BitsOf(s, 2), 64) = TwoSixes(x, y)
  <2>1. x \in Nat /\ y \in Nat /\ 0 \in Nat
    BY <1>1
  <2>2. SixesAre(x, y, 0, 0)
    BY ONLY <2>1, SixesRead
  <2> QED
    BY <1>2, <2>2 DEF SixesAre
<1>4. Characters!Accepted(2, TwoSixes(x, y)) <=> TwoSixes(x, y) >= 128
  BY DEF Characters!Accepted
<1>5. WellFormed(s, 2) <=> TwoSixes(x, y) >= 128
  <2>1. \A i \in 2..2 : Follows(s[i])
    BY <1>1
  <2> QED
    BY <1>1, <1>3, <1>4, <2>1 DEF WellFormed
<1> QED
  BY <1>1, <1>3, <1>5, decodeSymbolIs

LEMMA ReadThree ==
  ASSUME NEW s \in Seq(Nat), Len(s) >= 3, NEW x \in Below(16),
         NEW y \in Below(64), NEW z \in Below(64),
         s[1] = 224 + x, s[2] = 128 + y, s[3] = 128 + z,
         NEW c, c = ThreeSixes(x, y, z)
  PROVE  /\ Characters!Announced(s[1]) = 3
         /\ Characters!decodeSymbol(s)
              = IF c >= 2048 /\ ~Characters!Surrogate(c) THEN c ELSE -1
<1>1. /\ Characters!Announced(s[1]) = 3 /\ x \in Nat /\ y \in Nat /\ z \in Nat /\ Len(s) \in Nat
      /\ s[1] % 16 = x /\ s[2] % 64 = y /\ s[3] % 64 = z /\ Follows(s[2]) /\ Follows(s[3])
  BY Leads, LeadBits, LenProperties DEF Below
<1>2. BitsOf(s, 3) = <<x, y, z>>
  BY <1>1 DEF BitsOf, LeadOf
<1>3. NumberOf(BitsOf(s, 3), 64) = c
  <2>1. x \in Nat /\ y \in Nat /\ z \in Nat /\ 0 \in Nat
    BY <1>1
  <2>2. SixesAre(x, y, z, 0)
    BY ONLY <2>1, SixesRead
  <2> QED
    BY <1>2, <2>2 DEF SixesAre
<1>4. Characters!Accepted(3, c) <=> c >= 2048 /\ ~Characters!Surrogate(c)
  BY DEF Characters!Accepted
<1>5. WellFormed(s, 3) <=> c >= 2048 /\ ~Characters!Surrogate(c)
  <2>1. \A i \in 2..3 : Follows(s[i])
    BY <1>1
  <2> QED
    BY <1>1, <1>3, <1>4, <2>1 DEF WellFormed
<1> QED
  BY <1>1, <1>3, <1>5, decodeSymbolIs

LEMMA ReadFour ==
  ASSUME NEW s \in Seq(Nat), Len(s) >= 4, NEW x \in Below(8),
         NEW y \in Below(64), NEW z \in Below(64), NEW u \in Below(64),
         s[1] = 240 + x, s[2] = 128 + y, s[3] = 128 + z, s[4] = 128 + u,
         NEW c, c = FourSixes(x, y, z, u)
  PROVE  /\ Characters!Announced(s[1]) = 4
         /\ Characters!decodeSymbol(s)
              = IF c >= 65536 /\ c \in CodePoint THEN c ELSE -1
<1>1. /\ Characters!Announced(s[1]) = 4 /\ x \in Nat /\ y \in Nat /\ z \in Nat /\ u \in Nat
      /\ Len(s) \in Nat /\ s[1] % 8 = x /\ s[2] % 64 = y /\ s[3] % 64 = z /\ s[4] % 64 = u
      /\ Follows(s[2]) /\ Follows(s[3]) /\ Follows(s[4])
  BY Leads, LeadBits, LenProperties DEF Below
<1>2. BitsOf(s, 4) = <<x, y, z, u>>
  BY <1>1 DEF BitsOf, LeadOf
<1>3. NumberOf(BitsOf(s, 4), 64) = c
  <2>1. x \in Nat /\ y \in Nat /\ z \in Nat /\ u \in Nat /\ 0 \in Nat
    BY <1>1
  <2>2. SixesAre(x, y, z, u)
    BY ONLY <2>1, SixesRead
  <2> QED
    BY <1>2, <2>2 DEF SixesAre
<1>4. Characters!Accepted(4, c) <=> c >= 65536 /\ c \in CodePoint
  BY PointsAre DEF Characters!Accepted
<1>5. WellFormed(s, 4) <=> c >= 65536 /\ c \in CodePoint
  <2>1. \A i \in 2..4 : Follows(s[i])
    <3>1. \A i \in 2..4 : i = 2 \/ i = 3 \/ i = 4
      OBVIOUS
    <3> QED
      BY <1>1, <3>1
  <2> QED
    BY <1>1, <1>3, <1>4, <2>1 DEF WellFormed
<1> QED
  BY <1>1, <1>3, <1>5, decodeSymbolIs, SMTT(60)

\* Starts(s, a, k): the first k elements of s are those of a.
Starts(s, a, k) == k <= Len(s) /\ \A i \in 1..k : a[i] = s[i]

\* The length of a form is what its first byte announces.
LEMMA FormsTyped ==
  ASSUME NEW c, NEW a, Forms(c, a)
  PROVE  \E k \in 1..4 : OfLength(a, Nat, k) /\ Characters!Announced(a[1]) = k
<1>1. CASE FormOne(c, a)
  <2>1. a = <<c>> /\ c \in Below(128)
    BY <1>1 DEF FormOne
  <2>2. OfLength(a, Nat, 1) /\ Characters!Announced(a[1]) = 1
    BY <2>1, Leads DEF OfLength, Below
  <2> QED
    BY <2>2
<1>2. CASE FormTwo(c, a)
  <2>1. PICK x \in Below(32), y \in Below(64) : a = <<192 + x, 128 + y>>
    BY <1>2 DEF FormTwo
  <2>2. OfLength(a, Nat, 2) /\ Characters!Announced(a[1]) = 2
    BY <2>1, Leads, LeadBits DEF OfLength
  <2> QED
    BY <2>2
<1>3. CASE FormThree(c, a)
  <2>1. PICK x \in Below(16), y \in Below(64), z \in Below(64) :
          a = <<224 + x, 128 + y, 128 + z>>
    BY <1>3 DEF FormThree
  <2>2. OfLength(a, Nat, 3) /\ Characters!Announced(a[1]) = 3
    BY <2>1, Leads, LeadBits DEF OfLength
  <2> QED
    BY <2>2
<1>4. CASE FormFour(c, a)
  <2>1. PICK x \in Below(8), y \in Below(64), z \in Below(64), u \in Below(64) :
          a = <<240 + x, 128 + y, 128 + z, 128 + u>>
    BY <1>4 DEF FormFour
  <2>2. OfLength(a, Nat, 4) /\ Characters!Announced(a[1]) = 4
    BY <2>1, Leads, LeadBits DEF OfLength
  <2> QED
    BY <2>2
<1> QED
  BY <1>1, <1>2, <1>3, <1>4 DEF Forms

\* A form is read as its code point.
LEMMA FormsDecoded ==
  ASSUME NEW c, NEW a, Forms(c, a), NEW s \in Seq(Nat), Starts(s, a, Len(a))
  PROVE  /\ Characters!decodeSymbol(s) = c /\ Characters!Announced(s[1]) = Len(a)
<1>1. CASE FormOne(c, a)
  <2>1. a = <<c>> /\ c \in Below(128)
    BY <1>1 DEF FormOne
  <2>2. Len(s) >= 1 /\ s[1] = c /\ Len(a) = 1
    BY <2>1 DEF Starts
  <2> QED
    BY <2>1, <2>2, ReadOne
<1>2. CASE FormTwo(c, a)
  <2>1. PICK x \in Below(32), y \in Below(64) : c = TwoSixes(x, y) /\ a = <<192 + x, 128 + y>>
    BY <1>2 DEF FormTwo
  <2>2. Len(s) >= 2 /\ s[1] = 192 + x /\ s[2] = 128 + y /\ Len(a) = 2
    BY <2>1 DEF Starts
  <2>3. c >= 128
    BY <1>2 DEF FormTwo
  <2> QED
    BY <2>1, <2>2, <2>3, ReadTwo
<1>3. CASE FormThree(c, a)
  <2>1. PICK x \in Below(16), y \in Below(64), z \in Below(64) :
          c = ThreeSixes(x, y, z) /\ a = <<224 + x, 128 + y, 128 + z>>
    BY <1>3 DEF FormThree
  <2>2. Len(s) >= 3 /\ s[1] = 224 + x /\ s[2] = 128 + y /\ s[3] = 128 + z /\ Len(a) = 3
    BY <2>1 DEF Starts
  <2>3. c >= 2048 /\ ~Characters!Surrogate(c)
    BY <1>3 DEF FormThree
  <2> QED
    BY <2>1, <2>2, <2>3, ReadThree
<1>4. CASE FormFour(c, a)
  <2>1. PICK x \in Below(8), y \in Below(64), z \in Below(64), u \in Below(64) :
          c = FourSixes(x, y, z, u) /\ a = <<240 + x, 128 + y, 128 + z, 128 + u>>
    BY <1>4 DEF FormFour
  <2>2. /\ Len(s) >= 4 /\ s[1] = 240 + x /\ s[2] = 128 + y /\ s[3] = 128 + z
        /\ s[4] = 128 + u /\ Len(a) = 4
    BY <2>1 DEF Starts
  <2>3. c >= 65536 /\ c \in CodePoint
    BY <1>4 DEF FormFour
  <2> QED
    BY <2>1, <2>2, <2>3, ReadFour
<1> QED
  BY <1>1, <1>2, <1>3, <1>4 DEF Forms

\* What is read, unless there is an error, has the form that is there.
LEMMA DecodedForms ==
  ASSUME NEW s \in Seq(Nat), s # <<>>, NEW c, c = Characters!decodeSymbol(s), c # -1
  PROVE  \E a : Forms(c, a) /\ Starts(s, a, Len(a))
<1> DEFINE k == Characters!Announced(s[1])
<1>1. Len(s) \in Nat /\ Len(s) >= 1 /\ \A i \in 1..Len(s) : s[i] \in Nat
  BY LenProperties, EmptySeq, ElementOfSeq
<1>2. s[1] \in Nat
  BY <1>1
<1>3. k \in {0, 1, 2, 3, 4}
  BY <1>2, Leads
<1>4. k # 0 /\ k <= Len(s) /\ \A i \in 2..k : Follows(s[i])
  BY decodeSymbolIs DEF WellFormed
<1>5. CASE k = 1
  <2>1. s[1] \in Below(128)
    BY <1>2, <1>5, Leads, LeadBits
  <2>2. c = s[1]
    BY <1>1, <2>1, ReadOne
  <2> DEFINE a == <<c>>
  <2>3. Starts(s, a, Len(a)) /\ FormOne(c, a)
    BY <1>1, <2>1, <2>2 DEF Starts, FormOne
  <2> QED
    BY <2>3 DEF Forms
<1>6. CASE k = 2
  <2>1. Len(s) >= 2 /\ s[2] \in Nat /\ Follows(s[2])
    BY <1>1, <1>4, <1>6
  <2>2. PICK x \in Below(32), y \in Below(64) : s[1] = 192 + x /\ s[2] = 128 + y
    BY <1>2, <1>6, <2>1, Leads, BitsLead
  <2>3. c = TwoSixes(x, y) /\ c >= 128
    BY <2>1, <2>2, ReadTwo
  <2>4. c \in Nat
    BY <2>3 DEF TwoSixes, Below
  <2> DEFINE a == <<192 + x, 128 + y>>
  <2>5. Starts(s, a, Len(a))
    BY <2>1, <2>2 DEF Starts
  <2>6. FormTwo(c, a)
    BY <2>3, <2>4 DEF FormTwo
  <2> QED
    BY <2>5, <2>6 DEF Forms
<1>7. CASE k = 3
  <2>1. Len(s) >= 3 /\ s[2] \in Nat /\ Follows(s[2]) /\ s[3] \in Nat /\ Follows(s[3])
    BY <1>1, <1>4, <1>7
  <2>2. PICK x \in Below(16), y \in Below(64), z \in Below(64) :
          s[1] = 224 + x /\ s[2] = 128 + y /\ s[3] = 128 + z
    BY <1>2, <1>7, <2>1, Leads, BitsLead
  <2> DEFINE d == ThreeSixes(x, y, z)
             a == <<224 + x, 128 + y, 128 + z>>
  <2>3. c = d /\ c >= 2048 /\ ~Characters!Surrogate(c)
    <3> HIDE DEF d
    <3>1. c = IF d >= 2048 /\ ~Characters!Surrogate(d) THEN d ELSE -1
      BY <2>1, <2>2, ReadThree DEF d
    <3> QED
      BY <3>1
  <2>4. c \in Nat
    BY <2>3 DEF ThreeSixes, TwoSixes, Below
  <2>5. Starts(s, a, Len(a))
    BY <2>1, <2>2 DEF Starts
  <2>6. FormThree(c, a)
    BY <2>3, <2>4 DEF FormThree
  <2> QED
    BY <2>5, <2>6 DEF Forms
<1>8. CASE k = 4
  <2>1. /\ Len(s) >= 4 /\ s[2] \in Nat /\ Follows(s[2]) /\ s[3] \in Nat /\ Follows(s[3])
        /\ s[4] \in Nat /\ Follows(s[4])
    BY <1>1, <1>4, <1>8
  <2>2. PICK x \in Below(8), y \in Below(64), z \in Below(64), u \in Below(64) :
          s[1] = 240 + x /\ s[2] = 128 + y /\ s[3] = 128 + z /\ s[4] = 128 + u
    BY <1>2, <1>8, <2>1, Leads, BitsLead
  <2> DEFINE d == FourSixes(x, y, z, u)
             a == <<240 + x, 128 + y, 128 + z, 128 + u>>
  <2>3. c = d /\ c >= 65536 /\ c \in CodePoint
    <3> HIDE DEF d
    <3>1. c = IF d >= 65536 /\ d \in CodePoint THEN d ELSE -1
      BY <2>1, <2>2, ReadFour DEF d
    <3> QED
      BY <3>1
  <2>4. Starts(s, a, Len(a))
    <3>1. /\ Len(a) = 4 /\ a[1] = 240 + x /\ a[2] = 128 + y /\ a[3] = 128 + z
          /\ a[4] = 128 + u
      OBVIOUS
    <3>2. \A i \in 1..4 : i = 1 \/ i = 2 \/ i = 3 \/ i = 4
      OBVIOUS
    <3> HIDE DEF a
    <3>3. \A i \in 1..4 : a[i] = s[i]
      BY <2>2, <3>1, <3>2
    <3> QED
      BY <2>1, <3>1, <3>3 DEF Starts
  <2>5. FormFour(c, a)
    BY <2>3 DEF FormFour
  <2> QED
    BY <2>4, <2>5 DEF Forms
<1> QED
  BY <1>3, <1>4, <1>5, <1>6, <1>7, <1>8

\* The reader of UTF-8; what follows an error is not read.
Utf8Code == [c \in Scalar |-> Characters!encodeCodePoint(c)]
SymbolAt == [r \in Seq(Nat) |-> IF r = <<>> THEN -1 ELSE Characters!decodeSymbol(r)]
SymbolRest == [r \in Seq(Nat) |->
                IF r # <<>> /\ Characters!decodeSymbol(r) # -1
                THEN Past(r, Characters!Announced(r[1])) ELSE <<>>]
SymbolsOf == SymbolReader(SymbolAt, SymbolRest)
Refused == Scalar \cup {-1}

\* The form of a scalar.
LEMMA ScalarCode ==
  ASSUME NEW c \in Scalar
  PROVE  /\ Forms(c, Utf8Code[c])
         /\ \E k \in 1..4 : OfLength(Utf8Code[c], Nat, k)
                            /\ Characters!Announced(Utf8Code[c][1]) = k
<1>1. Utf8Code[c] = Characters!encodeCodePoint(c)
  BY DEF Utf8Code
<1>2. Forms(c, Utf8Code[c])
  BY <1>1, ScalarForms
<1> QED
  BY <1>2, FormsTyped

LEMMA Utf8Typed == Mapping(Utf8Code, Scalar, Seq(Nat))
<1>1. ASSUME NEW c \in Scalar PROVE Utf8Code[c] \in Seq(Nat)
  BY ScalarCode DEF OfLength
<1>2. Utf8Code = [c \in Scalar |-> Utf8Code[c]]
  BY DEF Utf8Code
<1> QED
  BY ONLY <1>1, <1>2 DEF Mapping

\* One symbol: an error, or the code point whose form is there.
LEMMA SymbolFront ==
  ASSUME NEW r \in Seq(Nat), r # <<>>
  PROVE  /\ SymbolAt[r] = Characters!decodeSymbol(r)
         /\ SymbolRest[r] \in Seq(Nat) /\ Len(SymbolRest[r]) < Len(r)
         /\ SymbolAt[r] \in Refused
         /\ SymbolAt[r] # -1 => r = Utf8Code[SymbolAt[r]] \o SymbolRest[r]
<1> DEFINE c == SymbolAt[r]
           t == SymbolRest[r]
<1>1. /\ c = Characters!decodeSymbol(r)
      /\ t = IF c # -1 THEN Past(r, Characters!Announced(r[1])) ELSE <<>>
  BY DEF SymbolAt, SymbolRest
<1>2. Len(r) \in Nat /\ Len(r) > 0
  BY LenProperties, EmptySeq
<1>3. CASE c = -1
  <2>1. t = <<>>
    BY <1>1, <1>3
  <2> HIDE DEF t
  <2>2. t \in Seq(Nat) /\ Len(t) = 0
    BY <2>1, EmptySeq
  <2> QED
    BY <1>1, <1>2, <1>3, <2>2 DEF t, Refused
<1>4. CASE c # -1
  <2> HIDE DEF c
  <2>1. PICK a : Forms(c, a) /\ Starts(r, a, Len(a))
    BY <1>1, <1>4, DecodedForms
  <2>2. c \in Scalar /\ a = Utf8Code[c]
    BY <2>1, FormsEncoded DEF Utf8Code
  <2>3. PICK k \in 1..4 : OfLength(a, Nat, k)
    BY <2>1, FormsTyped
  <2>4. Characters!Announced(r[1]) = Len(a)
    BY <2>1, FormsDecoded
  <2>5. Len(a) = k /\ k \in 1..Len(r) /\ \A i \in 1..k : a[i] = r[i]
    BY <1>2, <2>1, <2>3 DEF OfLength, Starts
  <2>6. t = Past(r, k)
    BY <1>1, <1>4, <2>4, <2>5
  <2>7. /\ r = a \o Past(r, k) /\ Past(r, k) \in Seq(Nat)
        /\ Len(Past(r, k)) < Len(r)
    <3>1. /\ r \in Seq(Nat) /\ k \in 1..Len(r) /\ OfLength(a, Nat, k)
          /\ \A i \in 1..k : a[i] = r[i]
      BY <2>3, <2>5
    <3> QED
      BY ONLY <3>1, FrontOff
  <2> HIDE DEF t
  <2>8. r = Utf8Code[c] \o t /\ t \in Seq(Nat) /\ Len(t) < Len(r) /\ c \in Refused
    BY <2>2, <2>6, <2>7 DEF Refused
  <2> QED
    BY <1>1, <2>8 DEF c, t
<1> QED
  BY <1>3, <1>4

LEMMA Utf8Reader ==
  /\ SymbolAt \in [Seq(Nat) -> Refused] /\ SymbolRest \in [Seq(Nat) -> Seq(Nat)]
  /\ Shortens(SymbolRest)
  /\ ReadsSymbols(SymbolsOf, SymbolAt, SymbolRest)
  /\ Covers(Seq(Nat), Refused, SymbolAt, SymbolRest)
  /\ Undoes(Seq(Nat), Scalar, Utf8Code, SymbolAt, SymbolRest)
<1>1. ASSUME NEW r \in Seq(Nat)
      PROVE  /\ SymbolAt[r] \in Refused /\ SymbolRest[r] \in Seq(Nat)
             /\ \/ r = <<>>
                \/ /\ Len(SymbolRest[r]) < Len(r)
                   /\ SymbolAt[r] \in Scalar => r = Utf8Code[SymbolAt[r]] \o SymbolRest[r]
  <2>1. CASE r = <<>>
    BY <2>1, EmptySeq DEF SymbolAt, SymbolRest, Refused
  <2>2. CASE r # <<>>
    <3>1. \A c \in Scalar : c # -1
      BY Utf16Is
    <3> QED
      BY <2>2, <3>1, SymbolFront
  <2> QED
    BY <2>1, <2>2
<1>2. SymbolAt \in [Seq(Nat) -> Refused]
  BY <1>1 DEF SymbolAt
<1>3. SymbolRest \in [Seq(Nat) -> Seq(Nat)]
  BY <1>1 DEF SymbolRest
<1>4. Shortens(SymbolRest)
  BY <1>1 DEF Shortens
<1>5. ReadsSymbols(SymbolsOf, SymbolAt, SymbolRest)
  BY <1>2, <1>3, <1>4, SymbolReaderReads DEF SymbolsOf
<1>6. Covers(Seq(Nat), Refused, SymbolAt, SymbolRest)
  BY <1>1 DEF Covers
<1>7. Undoes(Seq(Nat), Scalar, Utf8Code, SymbolAt, SymbolRest)
  BY <1>1 DEF Undoes
<1> QED
  BY <1>2, <1>3, <1>4, <1>5, <1>6, <1>7

LEMMA Utf8Recognized == Recognizes(Scalar, Utf8Code, SymbolAt, SymbolRest)
<1> SUFFICES ASSUME NEW c \in Scalar, NEW r \in Seq(Nat)
             PROVE  /\ Utf8Code[c] # <<>> /\ SymbolAt[Utf8Code[c] \o r] = c
                    /\ SymbolRest[Utf8Code[c] \o r] = r
  BY DEF Recognizes
<1> DEFINE a == Utf8Code[c]
           d == a \o r
           n == Len(r)
<1>1. Forms(c, a)
  BY ScalarCode
<1>2. PICK k \in 1..4 : OfLength(a, Nat, k)
  BY <1>1, FormsTyped
<1>3. a \in Seq(Nat) /\ Len(a) = k /\ n \in Nat /\ k \in Nat /\ k >= 1
  BY <1>2, LenProperties DEF OfLength
<1>4. OfLength(d, Nat, k + n) /\ Concatenates(d, a, k, r, n)
  <2>1. OfLength(a, Nat, k) /\ OfLength(r, Nat, n) /\ k \in Nat /\ n \in Nat
    BY <1>2, <1>3 DEF OfLength
  <2> HIDE DEF a, n
  <2> QED
    BY ONLY <2>1, ConcatAt
<1>5. Past(d, Len(a)) = r
  BY <1>3, FrontTaken
<1>6. c # -1 /\ a # <<>>
  <2>1. c # -1
    BY Utf16Is
  <2> HIDE DEF a
  <2>2. Len(a) # 0
    BY <1>3
  <2> QED
    BY <2>1, <2>2, EmptySeq
<1> HIDE DEF a, d, n
<1>7. d \in Seq(Nat) /\ Starts(d, a, Len(a)) /\ d # <<>>
  <2>1. d \in Seq(Nat) /\ Len(d) = k + n /\ Len(d) # 0
    BY <1>3, <1>4 DEF OfLength
  <2>2. Starts(d, a, Len(a))
    BY <1>3, <1>4, <2>1 DEF Starts, Concatenates
  <2> QED
    BY <2>1, <2>2, EmptySeq
<1>8. Characters!decodeSymbol(d) = c /\ Characters!Announced(d[1]) = Len(a)
  BY <1>1, <1>7, FormsDecoded
<1>9. SymbolAt[d] = c /\ SymbolRest[d] = r
  BY <1>5, <1>6, <1>7, <1>8 DEF SymbolAt, SymbolRest
<1> QED
  BY <1>6, <1>9 DEF a, d

LEMMA SymbolsIs ==
  ASSUME NEW s
  PROVE  Characters!Symbols(s) = SymbolsOf[s]
<1> DEFINE one(f) ==
      [r \in Seq(Nat) |->
        IF r = <<>> THEN <<>>
        ELSE LET c == Characters!decodeSymbol(r) IN
             IF c = -1 THEN Characters!Thrown
             ELSE <<c>> \o f[SubSeq(r, Characters!Announced(r[1]) + 1, Len(r))]]
           two(f) == [r \in Seq(Nat) |-> IF r = <<>> THEN <<>>
                                         ELSE <<SymbolAt[r]>> \o f[SymbolRest[r]]]
           more(f, r) == <<Characters!decodeSymbol(r)>>
                           \o f[SubSeq(r, Characters!Announced(r[1]) + 1, Len(r))]
           goes(f, r) == <<SymbolAt[r]>> \o f[SymbolRest[r]]
<1>1. ASSUME NEW f, f[<<>>] = <<>>, NEW r \in Seq(Nat), r # <<>>
      PROVE  (IF Characters!decodeSymbol(r) = -1 THEN Characters!Thrown ELSE more(f, r))
               = goes(f, r)
  <2>1. SymbolAt[r] = Characters!decodeSymbol(r)
    BY <1>1, SymbolFront
  <2>2. CASE Characters!decodeSymbol(r) = -1
    <3>1. SymbolRest[r] = <<>>
      BY <2>2 DEF SymbolRest
    <3> DEFINE thrown == <<-1>>
    <3>2. thrown \in Seq(Int) /\ Characters!Thrown = thrown
      BY DEF Characters!Thrown
    <3>3. goes(f, r) = thrown \o <<>>
      BY <1>1, <2>1, <2>2, <3>1
    <3> HIDE DEF thrown, goes, more
    <3>4. thrown \o <<>> = thrown
      BY <3>2, ConcatEmptySeq
    <3> QED
      BY <2>2, <3>2, <3>3, <3>4
  <2>3. CASE Characters!decodeSymbol(r) # -1
    <3>1. SymbolRest[r] = SubSeq(r, Characters!Announced(r[1]) + 1, Len(r))
      BY <1>1, <2>3 DEF SymbolRest, Past
    <3>2. more(f, r) = goes(f, r)
      BY <2>1, <3>1
    <3> HIDE DEF more, goes
    <3> QED
      BY <2>3, <3>2
  <2> HIDE DEF more, goes
  <2> QED
    BY <2>2, <2>3
<1>2. ASSUME NEW f, f[<<>>] = <<>> PROVE one(f) = two(f)
  <2>1. one(f) = [r \in Seq(Nat) |-> IF r = <<>> THEN <<>>
                    ELSE IF Characters!decodeSymbol(r) = -1 THEN Characters!Thrown
                    ELSE more(f, r)]
    OBVIOUS
  <2>2. two(f) = [r \in Seq(Nat) |-> IF r = <<>> THEN <<>> ELSE goes(f, r)]
    OBVIOUS
  <2> HIDE DEF one, two, more, goes
  <2> QED
    BY <1>1, <1>2, <2>1, <2>2
<1>3. ASSUME NEW f, f = one(f) \/ f = two(f) PROVE f[<<>>] = <<>>
  <2>1. <<>> \in Seq(Nat)
    BY EmptySeq
  <2>2. one(f)[<<>>] = <<>> /\ two(f)[<<>>] = <<>>
    BY <2>1
  <2> HIDE DEF one, two
  <2> QED
    BY <1>3, <2>2
<1>4. Characters!Symbols(s) = (CHOOSE f : f = one(f))[s]
  BY DEF Characters!Symbols
<1>5. SymbolsOf = CHOOSE f : f = two(f)
  BY DEF SymbolsOf, SymbolReader
<1> HIDE DEF one, two
<1>6. \A f : f = one(f) <=> f = two(f)
  BY <1>2, <1>3
<1> QED
  BY <1>4, <1>5, <1>6

\* What is encoded is read, and what is read without an error was encoded so.
LEMMA SymbolsReadBack ==
  ASSUME NEW q \in Seq(Scalar)
  PROVE  Characters!Symbols(Spelled(Utf8Code, q)) = q
<1>1. Scalar \subseteq Refused
  BY DEF Refused
<1> QED
  BY <1>1, SymbolsIs, SymbolsRead, Utf8Reader, Utf8Recognized, Utf8Typed

LEMMA SymbolsWrittenBack ==
  ASSUME NEW s \in Seq(Nat)
  PROVE  /\ Characters!Symbols(s) \in Seq(Refused)
         /\ Characters!Symbols(s) \in Seq(Scalar) => Spelled(Utf8Code, Characters!Symbols(s)) = s
<1>1. Scalar \subseteq Refused /\ Seq(Nat) \in SUBSET Seq(Nat)
  BY DEF Refused
<1>2. SymbolsOf[s] \in Seq(Refused)
  BY Utf8Reader, SymbolsTyped
<1>3. SymbolsOf[s] \in Seq(Scalar) => Spelled(Utf8Code, SymbolsOf[s]) = s
  BY <1>1, SymbolsWritten, Utf8Reader, Utf8Typed
<1> QED
  BY <1>2, <1>3, SymbolsIs

\* A string of bytes is one of code points, and of bytes.
LEMMA OctetsKept ==
  ASSUME NEW s \in Seq(Octet)
  PROVE  /\ Characters!ucs2decode(s) = s /\ Characters!Bytes(s) = s
         /\ s \in Seq(Scalar) /\ s \in Seq(Unit) /\ s \in Seq(Nat)
         /\ Characters!ucs2encode(s) = s
<1>1. s \in Seq(Scalar) /\ s \in Seq(Unit) /\ s \in Seq(Nat)
  BY OctetIs, WiderSeq
<1>2. ASSUME NEW c \in Octet PROVE Utf16[c] = <<c>>
  <2>1. c \in Scalar /\ c < 65536
    BY OctetIs DEF Octet, Below
  <2> QED
    BY <2>1 DEF Utf16
<1>3. Spelled(Utf16, s) = s
  BY <1>2, OctetIs, Utf16Typed, WrittenSelf
<1>4. Characters!ucs2decode(s) = s
  BY <1>1, <1>3, PointsRead
<1>5. Characters!Bytes(s) = s
  <2>1. ASSUME NEW i \in DOMAIN s PROVE s[i] % 256 = s[i]
    <3>1. s[i] \in Octet
      BY ElementOfSeq, LenProperties
    <3> QED
      BY <3>1 DEF Octet, Below
  <2>2. s = [i \in DOMAIN s |-> s[i]]
    BY LenProperties
  <2>3. Characters!Bytes(s) = [i \in DOMAIN s |-> s[i] % 256]
    BY <1>4 DEF Characters!Bytes
  <2> QED
    BY <2>1, <2>2, <2>3
<1> QED
  BY <1>1, <1>3, <1>4, <1>5, ucs2encodeIs

\* UTF-8 is bytes.
LEMMA Utf8Octets == Mapping(Utf8Code, Scalar, Seq(Octet))
<1>1. ASSUME NEW c \in Scalar PROVE Utf8Code[c] \in Seq(Octet)
  <2> DEFINE a == Utf8Code[c]
  <2>1. Forms(c, a)
    BY ScalarCode
  <2> HIDE DEF a
  <2>2. CASE FormOne(c, a)
    <3>1. a = <<c>> /\ c \in Octet
      BY <2>2 DEF FormOne, Octet, Below
    <3> QED
      BY <3>1 DEF a
  <2>3. CASE FormTwo(c, a)
    <3>1. PICK x \in Below(32), y \in Below(64) : a = <<192 + x, 128 + y>>
      BY <2>3 DEF FormTwo
    <3>2. 192 + x \in Octet /\ 128 + y \in Octet
      BY DEF Octet, Below
    <3> QED
      BY <3>1, <3>2 DEF a
  <2>4. CASE FormThree(c, a)
    <3>1. PICK x \in Below(16), y \in Below(64), z \in Below(64) :
            a = <<224 + x, 128 + y, 128 + z>>
      BY <2>4 DEF FormThree
    <3>2. 224 + x \in Octet /\ 128 + y \in Octet /\ 128 + z \in Octet
      BY DEF Octet, Below
    <3> QED
      BY <3>1, <3>2 DEF a
  <2>5. CASE FormFour(c, a)
    <3>1. PICK x \in Below(8), y \in Below(64), z \in Below(64), u \in Below(64) :
            a = <<240 + x, 128 + y, 128 + z, 128 + u>>
      BY <2>5 DEF FormFour
    <3>2. 240 + x \in Octet /\ 128 + y \in Octet /\ 128 + z \in Octet /\ 128 + u \in Octet
      BY DEF Octet, Below
    <3> QED
      BY <3>1, <3>2 DEF a
  <2> QED
    BY <2>1, <2>2, <2>3, <2>4, <2>5 DEF Forms
<1>2. Utf8Code = [c \in Scalar |-> Utf8Code[c]]
  BY DEF Utf8Code
<1> QED
  BY ONLY <1>1, <1>2 DEF Mapping

LEMMA utf8encodeIs ==
  ASSUME NEW s, NEW q, q = Characters!ucs2decode(s), q \in Seq(Scalar)
  PROVE  /\ Characters!utf8encode(s) = Spelled(Utf8Code, q)
         /\ Characters!utf8encode(s) \in Seq(Octet)
<1>1. ASSUME NEW i \in DOMAIN q
      PROVE  /\ ~Characters!Surrogate(q[i])
             /\ Characters!encodeCodePoint(q[i]) = Utf8Code[q[i]]
  <2>1. q[i] \in Scalar
    BY ElementOfSeq, LenProperties
  <2> QED
    BY <2>1, SurrogateIs DEF Utf8Code
<1>2. [i \in DOMAIN q |-> Characters!encodeCodePoint(q[i])] = Image(Utf8Code, q)
  BY <1>1 DEF Image
<1>3. \A ss : Characters!FlattenSeq(ss) = Strung(ss)
  BY DEF Characters!FlattenSeq, Strung
<1>4. Characters!utf8encode(s)
        = IF \E i \in DOMAIN q : Characters!Surrogate(q[i]) THEN Characters!Thrown
          ELSE Characters!FlattenSeq([i \in DOMAIN q |-> Characters!encodeCodePoint(q[i])])
  BY DEF Characters!utf8encode
<1>5. Characters!utf8encode(s) = Spelled(Utf8Code, q)
  BY <1>1, <1>2, <1>3, <1>4 DEF Spelled
<1>6. Spelled(Utf8Code, q) \in Seq(Octet)
  BY Utf8Octets, WrittenTyped
<1> QED
  BY <1>5, <1>6

LEMMA utf8decodeIs ==
  ASSUME NEW s \in Seq(Octet)
  PROVE  LET points == Characters!Symbols(s) IN
         /\ points \in Seq(Scalar) =>
              Characters!utf8decode(s) = Spelled(Utf16, points)
         /\ points \notin Seq(Scalar) => Characters!utf8decode(s) = Characters!Thrown
<1> DEFINE q == Characters!Symbols(s)
<1>1. Characters!utf8decode(s)
        = IF -1 \in Characters!Range(q) THEN Characters!Thrown ELSE Characters!ucs2encode(q)
  BY OctetsKept DEF Characters!utf8decode
<1>2. s \in Seq(Nat)
  BY OctetsKept
<1>3. q \in Seq(Refused)
  BY <1>2, SymbolsWrittenBack
<1> HIDE DEF q
<1>4. -1 \in Characters!Range(q) <=> \E i \in DOMAIN q : q[i] = -1
  BY DEF Characters!Range
<1>5. q \in Seq(Scalar) <=> ~(-1 \in Characters!Range(q))
  <2>1. ASSUME q \in Seq(Scalar) PROVE ~(-1 \in Characters!Range(q))
    <3>1. \A i \in DOMAIN q : q[i] \in Scalar
      BY <2>1, ElementOfSeq, LenProperties
    <3>2. \A i \in DOMAIN q : q[i] # -1
      BY <3>1, Utf16Is
    <3> QED
      BY <1>4, <3>2
  <2>2. ASSUME ~(-1 \in Characters!Range(q)) PROVE q \in Seq(Scalar)
    <3> DEFINE n == Len(q)
    <3>1. n \in Nat /\ q \in [1..n -> Refused] /\ DOMAIN q = 1..n
      BY <1>3, LenProperties
    <3>2. \A i \in 1..n : q[i] \in Scalar
      BY <1>4, <2>2, <3>1 DEF Refused
    <3>3. q \in [1..n -> Scalar]
      BY <3>1, <3>2
    <3> HIDE DEF n
    <3> QED
      BY <3>1, <3>3, FunctionIsSeq
  <2> QED
    BY <2>1, <2>2
<1>6. q \in Seq(Scalar) => Characters!ucs2encode(q) = Spelled(Utf16, q)
  BY ucs2encodeIs
<1> QED
  BY <1>1, <1>5, <1>6 DEF q

\* A string without lone surrogates comes back from UTF-8.
LEMMA TextBack ==
  ASSUME NEW s \in Seq(Unit), ~Characters!Lone(s)
  PROVE  /\ Characters!utf8encode(s) \in Seq(Octet)
         /\ Characters!utf8encode(s) = Spelled(Utf8Code, Characters!ucs2decode(s))
         /\ Characters!ucs2decode(s) \in Seq(Scalar)
         /\ Spelled(Utf16, Characters!ucs2decode(s)) = s
         /\ Characters!utf8decode(Characters!utf8encode(s)) = s
<1> DEFINE q == Characters!ucs2decode(s)
           b == Characters!utf8encode(s)
<1>1. q \in Seq(Scalar)
  BY LonePoints
<1>2. b = Spelled(Utf8Code, q) /\ b \in Seq(Octet)
  BY <1>1, utf8encodeIs
<1>3. Spelled(Utf16, q) = s
  BY <1>1, PointsWritten
<1>4. Characters!Symbols(b) = q
  BY <1>1, <1>2, SymbolsReadBack
<1>5. Characters!utf8decode(b) = Spelled(Utf16, q)
  <2> HIDE DEF b, q
  <2> QED
    BY <1>1, <1>2, <1>4, utf8decodeIs
<1> QED
  BY <1>1, <1>2, <1>3, <1>5

LEMMA LoneThrown ==
  ASSUME NEW s \in Seq(Unit), Characters!Lone(s)
  PROVE  Characters!utf8encode(s) = Characters!Thrown
BY LonePoints DEF Characters!utf8encode

\* Bytes that are read at all are those that encode writes.
LEMMA OctetsBack ==
  ASSUME NEW s \in Seq(Octet)
  PROVE  \/ Characters!utf8decode(s) = Characters!Thrown
         \/ Characters!utf8encode(Characters!utf8decode(s)) = s
<1> DEFINE q == Characters!Symbols(s)
           t == Characters!utf8decode(s)
<1>1. s \in Seq(Nat)
  BY OctetsKept
<1>2. q \notin Seq(Scalar) => t = Characters!Thrown
  BY utf8decodeIs
<1>3. ASSUME q \in Seq(Scalar) PROVE Characters!utf8encode(t) = s
  <2>1. t = Spelled(Utf16, q)
    BY <1>3, utf8decodeIs
  <2>2. Characters!ucs2decode(t) = q
    <3>1. Characters!ucs2decode(Spelled(Utf16, q)) = q
      BY <1>3, PointsRead
    <3> QED
      BY <2>1, <3>1
  <2>3. Spelled(Utf8Code, q) = s
    BY <1>1, <1>3, SymbolsWrittenBack
  <2>4. Characters!utf8encode(t) = Spelled(Utf8Code, q)
    <3> HIDE DEF t, q
    <3> QED
      BY <1>3, <2>2, utf8encodeIs
  <2> QED
    BY <2>3, <2>4
<1> QED
  BY <1>2, <1>3

\* ASCII is its own UTF-8.
LEMMA AsciiKept ==
  ASSUME NEW s \in Seq(Below(128))
  PROVE  /\ s \in Seq(Octet) /\ s \in Seq(Unit) /\ s \in Seq(Scalar)
         /\ Spelled(Utf8Code, s) = s /\ Spelled(Utf16, s) = s
         /\ Characters!utf8encode(s) = s /\ Characters!utf8decode(s) = s
<1>1. s \in Seq(Octet)
  BY OctetIs, WiderSeq
<1>2. Characters!ucs2decode(s) = s /\ s \in Seq(Scalar) /\ s \in Seq(Unit)
  BY <1>1, OctetsKept
<1>3. Spelled(Utf8Code, s) = s
  <2>1. \A c \in Below(128) : Utf8Code[c] = <<c>>
    BY EncodedOne DEF Utf8Code
  <2>2. Below(128) \in SUBSET Scalar
    BY OctetIs
  <2> QED
    BY <2>1, <2>2, Utf8Typed, WrittenSelf
<1>4. Characters!utf8encode(s) = s
  BY <1>2, <1>3, utf8encodeIs
<1>5. Spelled(Utf16, s) = s
  BY <1>1, <1>2, OctetsKept, ucs2encodeIs
<1>6. Characters!Symbols(s) = s
  BY <1>2, <1>3, SymbolsReadBack
<1>7. Characters!utf8decode(s) = s
  BY <1>1, <1>2, <1>5, <1>6, utf8decodeIs
<1> QED
  BY <1>1, <1>2, <1>3, <1>4, <1>5, <1>7

LEMMA ScalarLonger ==
  ASSUME NEW c \in Scalar
  PROVE  \E k \in 1..2, l \in 1..4 :
           /\ OfLength(Utf16[c], Nat, k) /\ OfLength(Utf8Code[c], Nat, l)
           /\ k < l \/ (k = 1 /\ l = 1 /\ Plain7(Utf16[c], 1))
<1>1. Forms(c, Utf8Code[c])
  BY ScalarCode
<1> DEFINE a == Utf8Code[c]
           u == Utf16[c]
<1>2. /\ c \in Nat
      /\ \/ c < 65536 /\ Len(u) = 1 /\ u[1] = c
         \/ c >= 65536 /\ Len(u) = 2
  BY Utf16Is DEF OfLength
<1>3. u \in Seq(Nat) /\ a \in Seq(Nat)
  BY Utf16Typed, Utf8Typed DEF Mapping
<1> HIDE DEF a, u
<1>4. CASE FormOne(c, a)
  <2>1. c \in Below(128) /\ Len(a) = 1 /\ c < 65536
    BY <1>4 DEF FormOne, Below
  <2>2. Plain7(u, 1) /\ Len(u) = 1
    BY <1>2, <2>1 DEF Plain7
  <2> QED
    BY <1>3, <2>1, <2>2 DEF OfLength, a, u
<1>5. CASE FormTwo(c, a)
  <2>1. Len(a) = 2 /\ c < 65536
    BY <1>5, EncodedTwo DEF FormTwo
  <2>2. Len(u) = 1
    BY <1>2, <2>1
  <2> QED
    BY <1>3, <2>1, <2>2 DEF OfLength, a, u
<1>6. CASE FormThree(c, a)
  <2>1. Len(a) = 3
    BY <1>6 DEF FormThree
  <2>2. OfLength(a, Nat, 3) /\ \E k \in 1..2 : OfLength(u, Nat, k)
    BY <1>2, <1>3, <2>1 DEF OfLength
  <2> QED
    BY <2>2 DEF a, u
<1>7. CASE FormFour(c, a)
  <2>1. Len(a) = 4
    BY <1>7 DEF FormFour
  <2>2. OfLength(a, Nat, 4) /\ \E k \in 1..2 : OfLength(u, Nat, k)
    BY <1>2, <1>3, <2>1 DEF OfLength
  <2> QED
    BY <2>2 DEF a, u
<1> QED
  BY <1>1, <1>4, <1>5, <1>6, <1>7 DEF Forms, a

LEMMA WrittenLonger ==
  ASSUME NEW q \in Seq(Scalar)
  PROVE  Outgrows(Spelled(Utf16, q), Spelled(Utf8Code, q))
<1> DEFINE T == {x \in Seq(Scalar) : Outgrows(Spelled(Utf16, x), Spelled(Utf8Code, x))}
<1>1. <<>> \in T
  <2> DEFINE none == <<>>
  <2>1. /\ Spelled(Utf16, none) = none /\ Spelled(Utf8Code, none) = none
        /\ none \in Seq(Scalar) /\ none \in Seq(Nat) /\ Len(none) = 0
    BY WrittenEmpty, EmptySeq
  <2> HIDE DEF none
  <2>2. Outgrows(none, none)
    BY <2>1 DEF Outgrows, Plain7
  <2> QED
    BY <2>1, <2>2 DEF none
<1>2. ASSUME NEW x \in T, NEW c \in Scalar PROVE Append(x, c) \in T
  <2> DEFINE one == <<c>>
             y == x \o one
  <2>1. x \in Seq(Scalar) /\ Outgrows(Spelled(Utf16, x), Spelled(Utf8Code, x))
    OBVIOUS
  <2>2. /\ one \in Seq(Scalar) /\ Spelled(Utf16, one) = Utf16[c]
        /\ Spelled(Utf8Code, one) = Utf8Code[c]
    BY Utf16Typed, Utf8Typed, WrittenOne
  <2>3. Append(x, c) = y /\ Append(x, c) \in Seq(Scalar)
    BY <2>1, AppendIsConcat, AppendProperties
  <2> HIDE DEF one, T
  <2>4. /\ Spelled(Utf16, y) = Spelled(Utf16, x) \o Spelled(Utf16, one)
        /\ Spelled(Utf8Code, y) = Spelled(Utf8Code, x) \o Spelled(Utf8Code, one)
    <3>1. x \in Seq(Scalar) /\ one \in Seq(Scalar)
      BY <2>1, <2>2
    <3>2. Mapping(Utf16, Scalar, Seq(Nat))
      BY Utf16Typed
    <3>3. Mapping(Utf8Code, Scalar, Seq(Nat))
      BY Utf8Typed
    <3>4. Spelled(Utf16, x \o one) = Spelled(Utf16, x) \o Spelled(Utf16, one)
      BY ONLY <3>1, <3>2, WrittenConcat
    <3>5. Spelled(Utf8Code, x \o one) = Spelled(Utf8Code, x) \o Spelled(Utf8Code, one)
      BY ONLY <3>1, <3>3, WrittenConcat
    <3> QED
      BY <3>4, <3>5
  <2>5. Outgrows(Utf16[c], Utf8Code[c])
    <3> DEFINE u == Utf16[c]
               a == Utf8Code[c]
    <3>1. PICK k \in 1..2, l \in 1..4 :
            /\ OfLength(u, Nat, k) /\ OfLength(a, Nat, l)
            /\ k < l \/ (k = 1 /\ l = 1 /\ Plain7(u, 1))
      BY ScalarLonger
    <3> HIDE DEF u, a
    <3>2. Outgrows(u, a)
      BY <3>1 DEF Outgrows, OfLength
    <3> QED
      BY <3>2 DEF u, a
  <2>6. Outgrows(Spelled(Utf16, y), Spelled(Utf8Code, y))
    BY <2>1, <2>2, <2>4, <2>5, LongerBoth
  <2> QED
    BY <2>3, <2>6 DEF T
<1>3. T = Seq(Scalar)
  <2>1. T \in SUBSET Seq(Scalar)
    OBVIOUS
  <2> HIDE DEF T
  <2> QED
    BY ONLY <1>1, <1>2, <2>1, SequenceInduction
<1> QED
  BY <1>3

\* An answer whose first length is too large: a numeral for n, a colon, m < n
\* characters and four more, of which the second is a colon and no other.
Overlong(d, a, n, m) ==
  /\ d \in Seq(Nat) /\ a = Payloads!IntToString(n) /\ m \in Nat /\ n > m
  /\ Len(d) = Len(a) + 1 + m + 4
  /\ \A i \in 1..Len(a) : d[i] = a[i]
  /\ d[Len(a) + 1] = 58
  /\ \A i \in 1..4 : d[Len(a) + 1 + m + i] = 58 <=> i = 2

LEMMA PacketsShort ==
  ASSUME NEW s
  PROVE  \E W : Payloads!Packets(s) \in Seq(W) /\ Len(Payloads!Packets(s)) <= 1
<1> DEFINE q == Payloads!Packets(s)
<1>1. q = <<>> \/ \E e : q = <<e>>
  BY DEF Payloads!Packets
<1> HIDE DEF q
<1>2. CASE q = <<>>
  <2>1. q \in Seq(Nat) /\ Len(q) = 0
    BY <1>2, EmptySeq
  <2> QED
    BY <2>1 DEF q
<1>3. CASE \E e : q = <<e>>
  <2>1. PICK e : q = <<e>>
    BY <1>3
  <2>2. <<e>> \in Seq({e}) /\ Len(<<e>>) = 1
    OBVIOUS
  <2>3. q \in Seq({e}) /\ Len(q) = 1
    BY ONLY <2>1, <2>2
  <2> QED
    BY <2>3 DEF q
<1> QED
  BY <1>1, <1>2, <1>3

LEMMA OverlongCut ==
  ASSUME NEW d, NEW a, NEW n \in Nat, NEW m, Overlong(d, a, n, m)
  PROVE  Len(ClientReader[d]) <= 1
<1> DEFINE l == Len(a)
           g == Payloads!Digits(n)
           F == ClientReader
<1>1. /\ d \in Seq(Nat) /\ m \in Nat /\ n > m /\ Len(d) = l + 1 + m + 4
      /\ \A i \in 1..l : d[i] = a[i]
      /\ d[l + 1] = 58 /\ \A i \in 1..4 : d[l + 1 + m + i] = 58 <=> i = 2
      /\ a = Payloads!IntToString(n)
  BY DEF Overlong
<1>2. /\ g \in Seq(0..9) /\ NumberOf(g, 10) = n /\ a \in Seq(Nat)
      /\ l = Len(g) /\ l \in Nat /\ l >= 1
      /\ \A i \in 1..l : g[i] \in 0..9 /\ a[i] = 48 + g[i]
  BY <1>1, DigitsIn10, NumeralDigits
<1> HIDE DEF g, l
<1>3. IndexOf(d, 58) = l + 1
  <2>1. ASSUME NEW i \in 1..l PROVE d[i] # 58
    <3>1. d[i] = a[i] /\ a[i] = 48 + g[i] /\ g[i] \in 0..9
      BY <1>1, <1>2
    <3> QED
      BY <3>1
  <2> DEFINE p == l + 1
  <2>2. p \in 1..Len(d) /\ p - 1 = l /\ d[p] = 58
    BY <1>1, <1>2, SMTT(60)
  <2> HIDE DEF p
  <2>3. \A j \in 1..p - 1 : d[j] # 58
    BY <2>1, <2>2
  <2>4. d \in Seq(Nat)
    BY <1>1
  <2>5. IndexOf(d, 58) = p
    BY ONLY <2>2, <2>3, <2>4, IndexFirst
  <2> QED
    BY <2>5 DEF p
<1>4. LengthOf(d) = g
  <2>1. IndexOf(d, 58) - 1 = l
    BY <1>2, <1>3
  <2>2. LengthOf(d) = [k \in 1..l |-> d[k] - 48]
    BY <2>1 DEF LengthOf
  <2>3. g = [k \in 1..l |-> g[k]]
    BY <1>2, LenProperties
  <2>4. ASSUME NEW k \in 1..l PROVE d[k] - 48 = g[k]
    <3>1. d[k] = a[k] /\ a[k] = 48 + g[k] /\ g[k] \in 0..9
      BY <1>1, <1>2
    <3> QED
      BY <3>1
  <2> QED
    BY ONLY <2>2, <2>3, <2>4
<1>5. CASE d \in TextStop
  <2>1. F[d] = <<>>
    BY <1>1, <1>5, ClientReaderReads DEF Reader
  <2> HIDE DEF F
  <2>2. Len(F[d]) = 0
    BY <2>1, EmptySeq
  <2> QED
    BY <2>2 DEF F
<1>6. CASE d \notin TextStop
  <2> DEFINE r == Payloads!After(d, TextAt[d] + TextLength[d])
             h == l + 1 + n
             s == Payloads!Slice(d, TextAt[d], TextLength[d])
  <2>1. TextAt[d] = l + 1 /\ TextLength[d] = n /\ h <= Len(d)
    <3>1. ~(IndexOf(d, 58) + NumberOf(LengthOf(d), 10) > Len(d))
      BY <1>1, <1>6 DEF TextStop
    <3>2. Len(d) \in Nat
      BY <1>1, <1>2
    <3>3. h <= Len(d)
      BY <1>2, <1>3, <1>4, <3>1, <3>2
    <3> QED
      BY <1>1, <1>2, <1>3, <1>4, <1>6, <3>3 DEF TextAt, TextLength
  <2>2. r = SubSeq(d, h + 1, Len(d))
    BY <2>1 DEF Payloads!After
  <2>3. h \in Nat /\ Len(d) \in Nat
    BY <1>1, <1>2
  <2>4. /\ r \in Seq(Nat) /\ Len(r) = Len(d) - h
        /\ \A j \in 1..Len(d) - h : r[j] = d[h + j]
    <3> HIDE DEF r, h
    <3>1. \A k \in h + 1..Len(d) : d[k] \in Nat
      BY <1>1, <2>3, ElementOfSeq
    <3>2. r \in Seq(Nat)
      BY <1>1, <2>2, <2>3, <3>1, SubSeqProperties
    <3>3. Len(r) = Len(d) - h
      BY <1>1, <2>1, <2>2, <2>3, SubSeqProperties
    <3> QED
      BY <1>1, <2>1, <2>2, <2>3, <3>2, <3>3, SubSeqProperties
  <2> HIDE DEF r, h, s
  <2>5. ASSUME NEW j \in 1..Len(r), r[j] = 58 PROVE j = 1
    <3> DEFINE i == n - m + j
    <3>1. j \in Nat /\ j >= 1 /\ j <= Len(d) - h
      BY <2>3, <2>4
    <3>2. h = l + 1 + n
      BY DEF h
    <3>3. i \in 1..4 /\ h + j = l + 1 + m + i
      BY <1>1, <1>2, <3>1, <3>2
    <3>4. d[l + 1 + m + i] = 58
      BY <2>4, <2>5, <3>3
    <3>5. i = 2
      BY <1>1, <3>3, <3>4
    <3> QED
      BY <1>1, <3>1, <3>5
  <2>6. IndexOf(r, 58) <= 1
    <3>0. Len(r) \in Nat
      BY <2>4, LenProperties
    <3>1. CASE Lacks(r, 58)
      BY <3>1, IndexNone
    <3>2. CASE ~Lacks(r, 58)
      <4>1. PICK j \in 1..Len(r) : r[j] = 58
        BY <3>2 DEF Lacks
      <4>2. j = 1
        BY <2>5, <4>1
      <4>3. \A i \in 1..1 - 1 : r[i] # 58
        OBVIOUS
      <4>4. IndexOf(r, 58) = 1
        BY <2>4, <4>1, <4>2, <4>3, IndexFirst
      <4> QED
        BY <4>4
    <3> QED
      BY <3>1, <3>2
  <2>7. F[r] = <<>>
    <3>1. r \in TextStop
      BY <2>4, <2>6 DEF TextStop
    <3> QED
      BY <2>4, <3>1, ClientReaderReads DEF Reader
  <2>8. F[d] = Payloads!Packets(s) \o F[r]
    BY <1>1, <1>6, ClientReaderReads DEF Reader, r, s
  <2> DEFINE q == Payloads!Packets(s)
  <2> HIDE DEF F
  <2>9. PICK W : q \in Seq(W) /\ Len(q) <= 1
    BY PacketsShort
  <2> HIDE DEF q
  <2>10. q \o <<>> = q
    BY <2>9, ConcatEmptySeq
  <2>11. F[d] = q
    BY <2>7, <2>8, <2>10 DEF q
  <2> QED
    BY <2>9, <2>11 DEF F
<1> QED
  BY <1>5, <1>6

\* The text of the second packet: its length, a colon, its type, its character.
Second == <<50, 58, 52, 97>>
Front(n) == (Payloads!IntToString(n) \o << 58 >>) \o << 52 >>

LEMMA SecondIs ==
  /\ Second \in Seq(Below(128)) /\ Second \in Seq(Nat) /\ Len(Second) = 4
  /\ Second[1] = 50 /\ Second[2] = 58 /\ Second[3] = 52 /\ Second[4] = 97
  /\ (<< 50 >> \o << 58 >>) \o (<< 52 >> \o << 97 >>) = Second
<1>1. (<< 50 >> \o << 58 >>) \o (<< 52 >> \o << 97 >>) = Second
  BY FourElements DEF Second
<1>3. 50 \in Below(128) /\ 58 \in Below(128) /\ 52 \in Below(128) /\ 97 \in Below(128)
  BY DEF Below
<1>4. Second \in Seq(Below(128)) /\ Second \in Seq(Nat)
  BY <1>3 DEF Second
<1>5. /\ Len(Second) = 4
      /\ Second[1] = 50 /\ Second[2] = 58 /\ Second[3] = 52 /\ Second[4] = 97
  BY DEF Second
<1> QED
  BY <1>1, <1>4, <1>5

LEMMA NumeralAscii ==
  ASSUME NEW n \in Nat
  PROVE  Payloads!IntToString(n) \in Seq(Below(128))
<1> DEFINE a == Payloads!IntToString(n)
           g == Payloads!Digits(n)
           l == Len(g)
<1>1. /\ a \in Seq(Nat) /\ Len(a) = l /\ l \in Nat
      /\ \A i \in 1..l : g[i] \in 0..9 /\ a[i] = 48 + g[i]
  BY NumeralDigits
<1> HIDE DEF a, g, l
<1>2. ASSUME NEW i \in 1..l PROVE a[i] \in Below(128)
  <2>1. g[i] \in 0..9 /\ a[i] = 48 + g[i]
    BY <1>1
  <2> QED
    BY <2>1 DEF Below
<1>3. a \in [1..l -> Nat]
  BY <1>1, LenProperties
<1>4. a \in [1..l -> Below(128)]
  BY <1>2, <1>3
<1> QED
  BY <1>1, <1>4, FunctionIsSeq DEF a

LEMMA FrontIs ==
  ASSUME NEW n \in Nat
  PROVE  /\ Front(n) \in Seq(Below(128)) /\ Front(n) \in Seq(Nat)
         /\ Payloads!IntToString(n) \in Seq(Nat)
         /\ Len(Payloads!IntToString(n)) \in Nat
         /\ Len(Front(n)) = Len(Payloads!IntToString(n)) + 2
         /\ \A i \in 1..Len(Payloads!IntToString(n)) : Front(n)[i] = Payloads!IntToString(n)[i]
         /\ Front(n)[Len(Payloads!IntToString(n)) + 1] = 58
         /\ Front(n)[Len(Payloads!IntToString(n)) + 2] = 52
<1> DEFINE a == Payloads!IntToString(n)
           l == Len(a)
           W == Below(128)
           c == << 58 >>
           t == << 52 >>
           h == a \o c
<1>1. OfLength(a, W, l) /\ l \in Nat /\ 1 \in Nat
  BY NumeralAscii, LenProperties DEF OfLength
<1>2. OfLength(c, W, 1) /\ OfLength(t, W, 1) /\ c[1] = 58 /\ t[1] = 52
  <2>1. 58 \in W /\ 52 \in W
    BY DEF Below
  <2> HIDE DEF W
  <2> QED
    BY <2>1 DEF OfLength
<1>3. OfLength(h, W, l + 1) /\ Concatenates(h, a, l, c, 1)
  <2> HIDE DEF a, l, W, c
  <2> QED
    BY ONLY <1>1, <1>2, ConcatAt
<1>4. l + 1 \in Nat
  BY <1>1
<1> HIDE DEF a, l, c, t, h
<1>5. OfLength(h \o t, W, (l + 1) + 1) /\ Concatenates(h \o t, h, l + 1, t, 1)
  BY ONLY <1>1, <1>2, <1>3, <1>4, ConcatAt
<1> DEFINE f == h \o t
<1>6. f = Front(n)
  BY DEF f, h, t, c, a, Front
<1>7. f \in Seq(W) /\ Len(f) = (l + 1) + 1
  BY <1>5 DEF OfLength
<1>8. f \in Seq(Nat) /\ a \in Seq(Nat)
  <2>1. W \in SUBSET Nat
    BY DEF Below
  <2> HIDE DEF W, f
  <2> QED
    BY <1>1, <1>7, <2>1, NatSequence DEF OfLength
<1>9. \A i \in 1..l : f[i] = a[i]
  <2>1. \A i \in 1..l : i \in 1..l + 1
    BY <1>1
  <2> HIDE DEF f
  <2> QED
    BY <1>3, <1>5, <2>1 DEF Concatenates, f
<1>10. f[l + 1] = 58 /\ f[(l + 1) + 1] = 52
  <2>1. l + 1 \in 1..l + 1 /\ 1 \in 1..1
    BY <1>1
  <2>2. f[l + 1] = h[l + 1] /\ f[(l + 1) + 1] = t[1] /\ h[l + 1] = c[1]
    BY <1>3, <1>5, <2>1 DEF Concatenates
  <2> QED
    BY <1>2, <2>2
<1> HIDE DEF f
<1>11. /\ f \in Seq(W) /\ f \in Seq(Nat) /\ a \in Seq(Nat) /\ l \in Nat
       /\ Len(f) = l + 2 /\ \A i \in 1..l : f[i] = a[i]
       /\ f[l + 1] = 58 /\ f[l + 2] = 52
  <2>1. (l + 1) + 1 = l + 2
    BY <1>1
  <2> QED
    BY <1>1, <1>7, <1>8, <1>9, <1>10, <2>1
<1> QED
  BY <1>6, <1>11 DEF a, l

\* What the server sends of a text, and what the page makes of it.
LEMMA SentTextIs ==
  ASSUME NEW b \in Seq(Nat)
  PROVE  /\ Sent(b) \in AnyPacket /\ Strip[Sent(b)] = [type |-> 4, body |-> b]
         /\ Payloads!EncodePacket(Sent(b)) = << 52 >> \o b
<1> DEFINE p == Sent(b)
<1>1. p.type = 4 /\ p.body = b /\ p.raw = FALSE
  BY DEF Sent
<1>2. p \in AnyPacket
  BY DEF Sent, AnyPacket
<1>3. Payloads!Digits(4) = << 4 >>
  <2>1. 4 \in 1..6
    OBVIOUS
  <2> QED
    BY <2>1, SingleDigit
<1>4. Payloads!IntToString(4) = << 52 >>
  BY <1>3 DEF Payloads!IntToString, Payloads!Zero
<1> HIDE DEF p
<1>5. Payloads!EncodePacket(p) = << 52 >> \o b
  BY <1>1, <1>4 DEF Payloads!EncodePacket
<1>6. Strip[p] = [type |-> 4, body |-> b]
  BY <1>1, <1>2 DEF Strip
<1> QED
  BY <1>2, <1>5, <1>6 DEF p

LEMMA SentPiece ==
  ASSUME NEW b \in Seq(Nat)
  PROVE  TextPiece[Sent(b)] = Front(Len(b) + 1) \o b
<1> DEFINE n == Len(b) + 1
           a == Payloads!IntToString(n)
           c == << 58 >>
           t == << 52 >>
           h == a \o c
           e == Payloads!EncodePacket(Sent(b))
<1>1. n \in Nat /\ Len(b) \in Nat
  BY LenProperties
<1>2. e = t \o b /\ Sent(b) \in AnyPacket
  BY SentTextIs
<1>3. Len(e) = n
  <2>1. t \in Seq(Nat) /\ Len(t) = 1
    OBVIOUS
  <2> HIDE DEF t, e, n
  <2>2. Len(t \o b) = Len(t) + Len(b)
    BY <2>1, ConcatProperties
  <2> QED
    BY <1>1, <1>2, <2>1, <2>2 DEF n
<1>4. TextPiece[Sent(b)] = (Payloads!IntToString(Len(e)) \o c) \o e
  BY <1>2 DEF TextPiece, TextualPiece, Payloads!Colon
<1>5. Triple(Nat, h, t, b)
  <2>1. a \in Seq(Nat) /\ c \in Seq(Nat) /\ t \in Seq(Nat)
    BY <1>1, FrontIs
  <2> HIDE DEF a, c, t
  <2>2. h \in Seq(Nat)
    BY <2>1, ConcatProperties
  <2> QED
    BY <2>1, <2>2 DEF Triple
<1> HIDE DEF e, t, h, n
<1>6. (h \o t) \o b = h \o (t \o b)
  BY <1>5, Associate
<1>7. TextPiece[Sent(b)] = h \o e
  BY <1>3, <1>4 DEF h
<1>8. Front(n) = h \o t
  BY DEF Front, h, t
<1> QED
  BY <1>2, <1>6, <1>7, <1>8 DEF n

LEMMA SecondPiece == TextPiece[Sent(<< 97 >>)] = Second
<1> DEFINE b == << 97 >>
<1>1. b \in Seq(Nat) /\ Len(b) = 1
  OBVIOUS
<1>2. Payloads!EncodePacket(Sent(b)) = << 52 >> \o b /\ Sent(b) \in AnyPacket
  BY <1>1, SentTextIs
<1>3. Len(<< 52 >> \o b) = 2
  OBVIOUS
<1>4. Payloads!IntToString(2) = << 50 >>
  <2>1. 2 \in 1..6
    OBVIOUS
  <2>2. Payloads!Digits(2) = << 2 >>
    BY <2>1, SingleDigit
  <2> QED
    BY <2>2 DEF Payloads!IntToString, Payloads!Zero
<1> DEFINE e == Payloads!EncodePacket(Sent(b))
<1>5. TextPiece[Sent(b)] = (Payloads!IntToString(Len(e)) \o << 58 >>) \o e
  BY <1>2 DEF TextPiece, TextualPiece, Payloads!Colon
<1>6. Len(e) = 2
  BY <1>2, <1>3
<1> HIDE DEF e
<1>7. TextPiece[Sent(b)] = (<< 50 >> \o << 58 >>) \o e
  BY <1>4, <1>5, <1>6
<1> QED
  BY <1>2, <1>7, SecondIs DEF e

LEMMA TwoSent ==
  ASSUME NEW b \in Seq(Nat), NEW two, two = <<Sent(b), Sent(<< 97 >>)>>
  PROVE  /\ two \in Seq(AnyPacket)
         /\ Payloads!EncodePayloadAsText(two) = (Front(Len(b) + 1) \o b) \o Second
         /\ Payloads!Stripped(two)
              = <<[type |-> 4, body |-> b], [type |-> 4, body |-> << 97 >>]>>
<1> DEFINE x == Sent(b)
           y == Sent(<< 97 >>)
           one == <<x>>
           other == <<y>>
<1>1. x \in AnyPacket /\ y \in AnyPacket
  <2>1. << 97 >> \in Seq(Nat)
    OBVIOUS
  <2> QED
    BY <2>1, SentTextIs
<1>2. Strip[x] = [type |-> 4, body |-> b] /\ Strip[y] = [type |-> 4, body |-> << 97 >>]
  <2>1. << 97 >> \in Seq(Nat)
    OBVIOUS
  <2> QED
    BY <2>1, SentTextIs
<1>3. TextPiece[x] = Front(Len(b) + 1) \o b /\ TextPiece[y] = Second
  BY SentPiece, SecondPiece
<1> HIDE DEF x, y
<1>4. two = <<x, y>> /\ two = one \o other
  BY DEF x, y
<1>5. one \in Seq(AnyPacket) /\ other \in Seq(AnyPacket) /\ two \in Seq(AnyPacket)
  BY <1>1, <1>4
<1>6. Spelled(TextPiece, one) = TextPiece[x] /\ Spelled(TextPiece, other) = TextPiece[y]
  BY <1>1, TextPieceTyped, WrittenOne
<1> HIDE DEF one, other
<1>7. Spelled(TextPiece, one \o other) = Spelled(TextPiece, one) \o Spelled(TextPiece, other)
  <2>1. Mapping(TextPiece, AnyPacket, Seq(Nat))
    BY TextPieceTyped
  <2> QED
    BY ONLY <1>5, <2>1, WrittenConcat
<1>8. Payloads!EncodePayloadAsText(two) = Spelled(TextPiece, two)
  BY <1>5, TextPieces DEF Spelled
<1>9. Payloads!Stripped(two) = <<Strip[x], Strip[y]>>
  <2>1. Payloads!Stripped(two) = Image(Strip, two)
    BY <1>5, StrippedIs
  <2>2. Image(Strip, <<x, y>>) = <<Strip[x], Strip[y]>>
    BY DEF Image
  <2> QED
    BY <1>4, <2>1, <2>2
<1> QED
  BY <1>2, <1>3, <1>4, <1>5, <1>6, <1>7, <1>8, <1>9

\* Around a text, what is written as it is stays so.
LEMMA WrittenAround ==
  ASSUME NEW w, Mapping(w, Scalar, Seq(Nat)),
         NEW f \in Seq(Scalar), Spelled(w, f) = f, NEW q \in Seq(Scalar),
         NEW t \in Seq(Scalar), Spelled(w, t) = t
  PROVE  /\ Spelled(w, (f \o q) \o t) = (f \o Spelled(w, q)) \o t
         /\ (f \o q) \o t \in Seq(Scalar)
<1> DEFINE h == f \o q
<1>1. h \in Seq(Scalar) /\ f \in Seq(Scalar) /\ q \in Seq(Scalar) /\ t \in Seq(Scalar)
      /\ Mapping(w, Scalar, Seq(Nat))
  BY ConcatProperties
<1>2. Spelled(w, f \o q) = Spelled(w, f) \o Spelled(w, q)
  BY ONLY <1>1, WrittenConcat
<1> HIDE DEF h
<1>3. Spelled(w, h \o t) = Spelled(w, h) \o Spelled(w, t)
  BY ONLY <1>1, WrittenConcat
<1>4. h \o t \in Seq(Scalar)
  BY ONLY <1>1, ConcatProperties
<1> QED
  BY <1>2, <1>3, <1>4 DEF h

\* The page has the text of the answer as the server meant it.
LEMMA ResponseRead ==
  ASSUME NEW s \in Seq(Unit), ~Characters!Lone(s), NEW f \in Seq(Below(128)),
         NEW b, b = Characters!utf8encode(s)
  PROVE  ResponseText((f \o b) \o Second) = (f \o s) \o Second
<1> DEFINE q == Characters!ucs2decode(s)
           p == (f \o q) \o Second
           d == (f \o b) \o Second
<1>1. q \in Seq(Scalar) /\ b = Spelled(Utf8Code, q) /\ s = Spelled(Utf16, q)
  BY TextBack
<1>2. /\ f \in Seq(Scalar) /\ Spelled(Utf8Code, f) = f /\ Spelled(Utf16, f) = f
      /\ Second \in Seq(Scalar)
      /\ Spelled(Utf8Code, Second) = Second /\ Spelled(Utf16, Second) = Second
  BY AsciiKept, SecondIs
<1> HIDE DEF q
<1> DEFINE w == Utf8Code
           v == Utf16
           x == Second
<1>8. Mapping(w, Scalar, Seq(Nat)) /\ Mapping(v, Scalar, Seq(Nat))
  BY Utf8Typed, Utf16Typed
<1>9. q \in Seq(Scalar) /\ f \in Seq(Scalar) /\ x \in Seq(Scalar)
  BY <1>1, <1>2
<1>12. Spelled(w, f) = f /\ Spelled(w, x) = x
  BY <1>2
<1>13. Spelled(v, f) = f /\ Spelled(v, x) = x
  BY <1>2
<1>14. b = Spelled(w, q) /\ s = Spelled(v, q)
  BY <1>1
<1> HIDE DEF w, v, x
<1>10. Spelled(w, (f \o q) \o x) = (f \o Spelled(w, q)) \o x /\ (f \o q) \o x \in Seq(Scalar)
  BY ONLY <1>8, <1>9, <1>12, WrittenAround
<1>11. Spelled(v, (f \o q) \o x) = (f \o Spelled(v, q)) \o x
  BY ONLY <1>8, <1>9, <1>13, WrittenAround, SMTT(60)
<1>3. Spelled(Utf8Code, p) = d /\ p \in Seq(Scalar)
  BY <1>14, <1>10 DEF w, x
<1>4. Spelled(Utf16, p) = (f \o s) \o Second
  BY <1>14, <1>11 DEF v, x
<1> HIDE DEF p, d
<1>5. d \in Seq(Octet)
  BY <1>3, Utf8Octets, WrittenTyped
<1>6. Characters!Symbols(d) = p
  BY <1>3, SymbolsReadBack
<1>7. Characters!utf8decode(d) = Spelled(Utf16, p)
  BY <1>3, <1>5, <1>6, utf8decodeIs
<1> QED
  BY <1>4, <1>7 DEF ResponseText, d

\* When the length counts more than there are characters, the packet after it is lost.
LEMMA ResponseOverlong ==
  ASSUME NEW s \in Seq(Nat), NEW n \in Nat, n > Len(s) + 1
  PROVE  Overlong((Front(n) \o s) \o Second, Payloads!IntToString(n), n, Len(s) + 1)
<1> DEFINE a == Payloads!IntToString(n)
           l == Len(a)
           k == l + 2
           m == Len(s)
           f == Front(n)
           h == f \o s
           d == h \o Second
<1>1. /\ l \in Nat /\ m \in Nat /\ k \in Nat /\ f \in Seq(Nat) /\ Len(f) = k
      /\ \A i \in 1..l : f[i] = a[i]
      /\ f[l + 1] = 58 /\ k = l + 2
  BY FrontIs, LenProperties
<1> HIDE DEF f, k
<1>2. OfLength(h, Nat, k + m) /\ Concatenates(h, f, k, s, m)
  <2>1. OfLength(f, Nat, k) /\ OfLength(s, Nat, m)
    BY <1>1 DEF OfLength
  <2> HIDE DEF m
  <2> QED
    BY ONLY <1>1, <2>1, ConcatAt
<1> HIDE DEF h, m, a, l
<1>3. OfLength(d, Nat, (k + m) + 4) /\ Concatenates(d, h, k + m, Second, 4)
  <2>1. OfLength(Second, Nat, 4) /\ k + m \in Nat /\ 4 \in Nat
    BY <1>1, SecondIs DEF OfLength
  <2> QED
    BY ONLY <1>2, <2>1, ConcatAt
<1> HIDE DEF d
<1>4. d \in Seq(Nat) /\ Len(d) = l + 1 + (m + 1) + 4
  BY <1>1, <1>3 DEF OfLength
<1>5. \A i \in 1..k : d[i] = f[i]
  <2>1. ASSUME NEW i \in 1..k PROVE d[i] = f[i]
    <3>1. i \in 1..k + m
      BY <1>1
    <3> QED
      BY <1>2, <1>3, <3>1 DEF Concatenates
  <2> QED
    BY <2>1
<1>6. /\ \A i \in 1..l : d[i] = a[i]
      /\ d[l + 1] = 58
  <2>1. \A i \in 1..l : i \in 1..k
    BY <1>1
  <2>2. l + 1 \in 1..k
    BY <1>1
  <2> QED
    BY <1>1, <1>5, <2>1, <2>2
<1>7. ASSUME NEW i \in 1..4 PROVE d[l + 1 + (m + 1) + i] = 58 <=> i = 2
  <2>1. l + 1 + (m + 1) + i = (k + m) + i
    BY <1>1
  <2>2. d[(k + m) + i] = Second[i]
    BY <1>3 DEF Concatenates
  <2>3. i = 1 \/ i = 2 \/ i = 3 \/ i = 4
    OBVIOUS
  <2>4. Second[i] = 58 <=> i = 2
    BY <2>3, SecondIs
  <2> QED
    BY <2>1, <2>2, <2>4
<1>8. m + 1 \in Nat /\ n > m + 1
  BY <1>1 DEF m
<1>9. Overlong(d, a, n, m + 1)
  <2>1. a = Payloads!IntToString(n) /\ l = Len(a)
    BY DEF a, l
  <2> QED
    BY <1>4, <1>6, <1>7, <1>8, <2>1 DEF Overlong
<1> QED
  BY <1>9 DEF d, h, f, a, m

\* In a binary payload of the client the bytes of a text stay as they are.
LEMMA BinaryKept ==
  ASSUME NEW b \in Seq(Nat)
  PROVE  Payloads!DecodePayload(Payloads!ClientBinary(<<Blob, Sent(b)>>))[2].body = b
<1> DEFINE x == Blob
           y == Sent(b)
           q == <<x, y>>
<1>1. y \in AnyPacket /\ Strip[y] = [type |-> 4, body |-> b]
  BY SentTextIs
<1>2. x \in AnyPacket
  <2>1. << 255 >> \in Seq(Nat)
    OBVIOUS
  <2>2. 4 \in 1..6
    OBVIOUS
  <2> QED
    BY <2>1, <2>2 DEF Blob, AnyPacket
<1> HIDE DEF x, y
<1>3. q \in Seq(AnyPacket) /\ Len(q) = 2 /\ q # <<>>
  BY <1>1, <1>2
<1>4. Image(Strip, q)[2] = Strip[y]
  BY DEF Image
<1> HIDE DEF q
<1>5. Payloads!DecodePayload(Payloads!ClientBinary(q)) = Image(Strip, q)
  BY <1>3, BinaryRead, StrippedIs
<1> QED
  BY <1>1, <1>4, <1>5 DEF q, x, y

\* In a binary payload of the server a text alone arrives as it was written.
LEMMA LastKept ==
  ASSUME NEW b \in Seq(Nat)
  PROVE  Bodies(Payloads!ClientReadsBinary(Payloads!EncodePayloadAsBinary(<<Sent(b)>>)))
           = <<Characters!utf8decode(b)>>
<1> DEFINE y == Sent(b)
           q == <<y>>
           m == Strip[y]
<1>1. y \in AnyPacket /\ m = [type |-> 4, body |-> b]
  BY SentTextIs
<1> HIDE DEF y, m
<1>2. q \in Seq(AnyPacket) /\ Len(q) = 1 /\ q # <<>> /\ q[1] = y /\ q = <<q[Len(q)]>>
  BY <1>1
<1>3. Image(Strip, q) = <<m>>
  BY ImageOne DEF q, m
<1> HIDE DEF q
<1>4. Payloads!ClientReadsBinary(Payloads!EncodePayloadAsBinary(q)) = <<m>>
  BY <1>2, <1>3, LastRead, StrippedIs
<1>5. Bodies(<<m>>) = <<Characters!utf8decode(m.body)>>
  BY DEF Bodies
<1> QED
  BY <1>1, <1>4, <1>5 DEF q, y

\* A textual payload of the server with two texts, read by the client: as
\* written if the first is ASCII, and only then.
LEMMA TextualKept ==
  ASSUME NEW s \in Seq(Unit), ~Characters!Lone(s),
         NEW b, b = Characters!utf8encode(s),
         NEW two, two = <<Sent(b), Sent(<< 97 >>)>>
  PROVE  Bodies(Payloads!ClientReads(ResponseText(Payloads!EncodePayloadAsText(two))))
           = <<s, << 97 >>>>
         <=> \A i \in DOMAIN s : s[i] < 128
<1> DEFINE q == Characters!ucs2decode(s)
           n == Len(b) + 1
           d == (Front(n) \o s) \o Second
           read == Payloads!ClientReads(d)
<1>1. /\ b \in Seq(Octet) /\ b = Spelled(Utf8Code, q) /\ q \in Seq(Scalar)
      /\ s = Spelled(Utf16, q) /\ Characters!utf8decode(b) = s
  BY TextBack
<1>2. b \in Seq(Nat) /\ s \in Seq(Nat) /\ Len(b) \in Nat /\ Len(s) \in Nat /\ n \in Nat
      /\ DOMAIN s = 1..Len(s) /\ \A i \in 1..Len(s) : s[i] \in Nat
  <2>1. b \in Seq(Nat) /\ s \in Seq(Nat)
    BY <1>1, NatSequence, OctetIs, UnitNat
  <2> QED
    BY <2>1, LenProperties, ElementOfSeq
<1>3. /\ two \in Seq(AnyPacket)
      /\ Payloads!EncodePayloadAsText(two) = (Front(n) \o b) \o Second
      /\ Payloads!Stripped(two)
           = <<[type |-> 4, body |-> b], [type |-> 4, body |-> << 97 >>]>>
  BY <1>2, TwoSent
<1>4. Front(n) \in Seq(Below(128))
  BY <1>2, FrontIs
<1> HIDE DEF n, q
<1>5. ResponseText(Payloads!EncodePayloadAsText(two)) = d
  BY <1>3, <1>4, ResponseRead
<1>6. ASSUME \A i \in DOMAIN s : s[i] < 128
      PROVE  Bodies(read) = <<s, << 97 >>>>
  <2>1. s \in Seq(Below(128))
    <3> DEFINE m == Len(s)
    <3>1. m \in Nat /\ DOMAIN s = 1..m /\ \A i \in 1..m : s[i] \in Nat
      BY <1>2
    <3>2. s = [i \in 1..m |-> s[i]]
      BY <1>2, LenProperties
    <3> HIDE DEF m
    <3>3. \A i \in 1..m : s[i] \in Below(128)
      BY <1>6, <3>1 DEF Below
    <3>4. s \in [1..m -> Below(128)]
      BY <3>2, <3>3
    <3> QED
      BY <3>1, <3>4, FunctionIsSeq
  <2>2. b = s
    BY <2>1, AsciiKept
  <2>3. read = Payloads!Stripped(two)
    BY <1>3, <2>2, TextualRead
  <2>4. Characters!utf8decode(<< 97 >>) = << 97 >>
    <3>1. << 97 >> \in Seq(Below(128))
      <4>1. 97 \in Below(128)
        BY DEF Below
      <4> QED
        BY <4>1
    <3> QED
      BY <3>1, AsciiKept
  <2> DEFINE x == [type |-> 4, body |-> b]
             y == [type |-> 4, body |-> << 97 >>]
  <2>5. x.body = b /\ y.body = << 97 >>
    OBVIOUS
  <2> HIDE DEF x, y
  <2>6. Bodies(<<x, y>>) = <<Characters!utf8decode(x.body), Characters!utf8decode(y.body)>>
    BY DEF Bodies
  <2>7. read = <<x, y>>
    BY <1>3, <2>3 DEF x, y
  <2> QED
    BY <1>1, <2>4, <2>5, <2>6, <2>7
<1>7. ASSUME Bodies(read) = <<s, << 97 >>>>
      PROVE  \A i \in DOMAIN s : s[i] < 128
  <2>1. read = ClientReader[d]
    BY ClientReadsIs DEF ClientReader
  <2>2. Len(s) < Len(b) \/ (Len(s) = Len(b) /\ Plain7(s, Len(s)))
    BY <1>1, WrittenLonger DEF Outgrows
  <2>3. CASE Len(s) < Len(b)
    <3>1. n > Len(s) + 1
      BY <1>2, <2>3 DEF n
    <3>2. Overlong(d, Payloads!IntToString(n), n, Len(s) + 1)
      BY <1>2, <3>1, ResponseOverlong
    <3>3. Len(read) <= 1
      BY <1>2, <2>1, <3>2, OverlongCut
    <3>4. DOMAIN read = 1..2
      <4> DEFINE z == << 97 >>
      <4> HIDE DEF z
      <4>1. DOMAIN <<s, z>> = 1..2
        OBVIOUS
      <4>2. DOMAIN Bodies(read) = DOMAIN read
        BY DEF Bodies
      <4> QED
        BY <1>7, <4>1, <4>2 DEF z
    <3>5. read \in Seq(Message)
      <4>1. d \in Seq(Nat)
        BY <3>2 DEF Overlong
      <4> QED
        BY <2>1, <4>1, ClientReaderReads, TextTyped, ReaderTyped, ZenonT(60)
    <3>6. Len(read) \in Nat /\ DOMAIN read = 1..Len(read)
      BY <3>5, LenProperties
    <3>7. 2 \in 1..Len(read)
      BY <3>4, <3>6
    <3> QED
      BY <3>3, <3>6, <3>7
  <2>4. CASE Plain7(s, Len(s))
    BY <1>2, <2>4 DEF Plain7, Below
  <2> QED
    BY <2>2, <2>3, <2>4
<1> QED
  BY <1>5, <1>6, <1>7

CharactersTyped == text \in Seq(Unit) /\ octets \in Seq(Octet)

LEMMA CharacterSteps ==
  ASSUME CharactersTyped, [Next]_vars
  PROVE  CharactersTyped'
<1>1. Units \subseteq Unit /\ Octets \subseteq Octet
  <2>1. \A u \in Units : u \in Unit
    <3>1. \A u \in Units : u \in Nat /\ u <= 65535
      BY CharactersAssumption
    <3> QED
      BY <3>1, UnitIs
  <2>2. \A b \in Octets : b \in Octet
    BY CharactersAssumption DEF Octet, Below
  <2> QED
    BY ONLY <2>1, <2>2
<1>2. Characters!Next \/ UNCHANGED <<text, octets>>
  BY DEF Next, vars, strings, CharactersRest
<1>3. CASE Characters!Next
  <2>1. CASE (\E u \in Units : text' = Append(text, u)) /\ octets' = octets
    BY <1>1, <2>1, AppendProperties DEF CharactersTyped
  <2>2. CASE (\E b \in Octets : octets' = Append(octets, b)) /\ text' = text
    BY <1>1, <2>2, AppendProperties DEF CharactersTyped
  <2> QED
    BY <1>3, <2>1, <2>2 DEF Characters!Next
<1>4. CASE UNCHANGED <<text, octets>>
  BY <1>4 DEF CharactersTyped
<1> QED
  BY <1>2, <1>3, <1>4

LEMMA CharactersTypedSays ==
  ASSUME CharactersTyped
  PROVE  CharactersRead
<1>1. text \in Seq(Unit) /\ octets \in Seq(Octet)
  BY DEF CharactersTyped
<1>2. Characters!EncodedOnce
  BY <1>1, LoneThrown, TextBack, OctetsBack DEF Characters!EncodedOnce
<1>3. ASSUME ~Characters!Lone(text),
             NEW b, b = Characters!utf8encode(text),
             NEW two, two = <<Sent(b), Sent(<< 97 >>)>>
      PROVE  /\ Payloads!DecodePayload(Payloads!ClientBinary(<<Blob, Sent(b)>>))[2].body = b
             /\ Bodies(Payloads!ClientReadsBinary(Payloads!EncodePayloadAsBinary(<<two[1]>>)))
                  = <<text>>
             /\ Bodies(Payloads!ClientReads(
                  ResponseText(Payloads!EncodePayloadAsText(two)))) = <<text, << 97 >>>>
                  <=> \A i \in DOMAIN text : text[i] < 128
  <2>1. b \in Seq(Nat) /\ Characters!utf8decode(b) = text
    BY <1>1, <1>3, TextBack, NatSequence, OctetIs
  <2>2. two[1] = Sent(b)
    <3> DEFINE x == Sent(b)
               y == Sent(<< 97 >>)
    <3> HIDE DEF x, y
    <3>1. <<x, y>>[1] = x
      OBVIOUS
    <3> QED
      BY <1>3, <3>1 DEF x, y
  <2>3. Payloads!DecodePayload(Payloads!ClientBinary(<<Blob, Sent(b)>>))[2].body = b
    BY <2>1, BinaryKept
  <2>4. Bodies(Payloads!ClientReadsBinary(Payloads!EncodePayloadAsBinary(<<two[1]>>)))
          = <<text>>
    BY <2>1, <2>2, LastKept
  <2>5. Bodies(Payloads!ClientReads(
          ResponseText(Payloads!EncodePayloadAsText(two)))) = <<text, << 97 >>>>
          <=> \A i \in DOMAIN text : text[i] < 128
    BY <1>1, <1>3, TextualKept
  <2> QED
    BY <2>3, <2>4, <2>5
<1> DEFINE bytes == Characters!utf8encode(text)
           both == <<Sent(bytes), Sent(<< 97 >>)>>
<1> HIDE DEF bytes, both
<1>4. ASSUME ~Characters!Lone(text)
      PROVE  /\ Payloads!DecodePayload(
                  Payloads!ClientBinary(<<Blob, Sent(bytes)>>))[2].body = bytes
             /\ Bodies(Payloads!ClientReadsBinary(Payloads!EncodePayloadAsBinary(<<both[1]>>)))
                  = <<text>>
             /\ Bodies(Payloads!ClientReads(
                  ResponseText(Payloads!EncodePayloadAsText(both)))) = <<text, << 97 >>>>
                  <=> \A i \in DOMAIN text : text[i] < 128
  <2>1. bytes = Characters!utf8encode(text) /\ both = <<Sent(bytes), Sent(<< 97 >>)>>
    BY DEF bytes, both
  <2> QED
    BY <1>3, <1>4, <2>1
<1> QED
  BY <1>2, <1>4 DEF CharactersRead, bytes, both

\* utf8.js and the formats of payloads, for any code units and bytes: every text
\* without a surrogate on its own comes back, what decode accepts is what encode
\* writes, binary payloads carry a text whole, and of textual ones the client
\* reads those, and only those, whose first text is ASCII.
THEOREM CharactersAreRead == Spec => []CharactersRead
<1>1. Init => CharactersTyped
  BY EmptySeq DEF Init, Characters!Init, CharactersTyped
<1>2. CharactersTyped /\ [Next]_vars => CharactersTyped'
  BY CharacterSteps
<1>3. CharactersTyped => CharactersRead
  BY CharactersTypedSays
<1> QED
  BY <1>1, <1>2, <1>3, PTL DEF Spec
=============================================================================
