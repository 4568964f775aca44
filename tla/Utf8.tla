-------------------------------- MODULE Utf8 --------------------------------
(***************************************************************************)
(* utf8.js as the client ships it (socket.io.js): texts of polling         *)
(* payloads pass through it, in both directions.  A string of JavaScript   *)
(* is a sequence of UTF-16 code units; the result of encode, and what      *)
(* decode is given, is a sequence of bytes.                                *)
(***************************************************************************)
EXTENDS Integers, Texts, Numerals

CONSTANTS Units,      \* the code units of strings
          Octets,     \* the bytes of strings that are decoded
          MaxUnits,   \* bound: the length of a string
          MaxOctets   \* bound: the length of a string of bytes

VARIABLES text, octets      \* a string, and a string of bytes

Init == text = <<>> /\ octets = <<>>
Next ==
  \/ /\ Len(text) < MaxUnits /\ octets = <<>>
     /\ \E u \in Units : text' = Append(text, u)
     /\ UNCHANGED octets
  \/ /\ Len(octets) < MaxOctets /\ text = <<>>
     /\ \E b \in Octets : octets' = Append(octets, b)
     /\ UNCHANGED text

Spec == Init /\ [][Next]_<<text, octets>>

-----------------------------------------------------------------------------
\* An error is thrown.
Thrown == <<-1>>

High(u) == u \in 55296..56319
Low(u) == u \in 56320..57343
Surrogate(c) == High(c) \/ Low(c)

\* The code points of a string; an unmatched surrogate stands for itself.
ucs2decode(s) ==
  LET points[r \in Seq(Nat)] ==
        IF r = <<>> THEN <<>>
        ELSE IF Len(r) > 1 /\ High(r[1]) /\ Low(r[2])
        THEN <<(r[1] - 55296) * 1024 + (r[2] - 56320) + 65536>>
               \o points[SubSeq(r, 3, Len(r))]
        ELSE <<r[1]>> \o points[Tail(r)]
  IN  points[s]

ucs2encode(points) ==
  FlattenSeq([i \in DOMAIN points |->
    LET c == points[i] - 65536 IN
    IF c < 0 THEN <<points[i]>> ELSE <<55296 + (c \div 1024), 56320 + (c % 1024)>>])

createByte(c, unit) == 128 + ((c \div unit) % 64)

\* checkScalarValue is called for three bytes only.
encodeCodePoint(c) ==
  CASE c < 128 -> <<c>>
    [] 128 <= c /\ c < 2048 -> <<192 + (c \div 64), createByte(c, 1)>>
    [] 2048 <= c /\ c < 65536 -> <<224 + (c \div 4096), createByte(c, 64), createByte(c, 1)>>
    [] OTHER -> <<240 + (c \div (64 * 4096)), createByte(c, 4096),
                  createByte(c, 64), createByte(c, 1)>>

utf8encode(s) ==
  LET points == ucs2decode(s) IN
  IF \E i \in DOMAIN points : Surrogate(points[i]) THEN Thrown
  ELSE FlattenSeq([i \in DOMAIN points |-> encodeCodePoint(points[i])])

\* The number of bytes that the first one announces; 0 is invalid.
Announced(b) ==
  CASE b < 128 -> 1
    [] b \in 192..223 -> 2
    [] b \in 224..239 -> 3
    [] b \in 240..247 -> 4
    [] OTHER -> 0

\* Code points: 17 planes.
LastPoint == 17 * 65536 - 1
Point == 0..LastPoint

\* Mutant of Accepted: a code point may have more bytes than it needs.
AcceptedLong(k, c) == c \in Point /\ ~Surrogate(c)

\* The code points that k bytes may stand for.
Accepted(k, c) ==
  CASE k = 1 -> TRUE
    [] k = 2 -> c >= 128
    [] k = 3 -> c >= 2048 /\ ~Surrogate(c)
    [] k = 4 -> c >= 65536 /\ c \in Point

\* decodeSymbol and readContinuationByte: the code point s starts with, -1
\* when an error is thrown.
decodeSymbol(s) ==
  LET k == Announced(s[1])
      lead == CASE k = 1 -> s[1] [] k = 2 -> s[1] % 32 [] k = 3 -> s[1] % 16
                [] OTHER -> s[1] % 8
      c == NumberOf([i \in 1..k |-> IF i = 1 THEN lead ELSE s[i] % 64], 64)
  IN  IF /\ k # 0 /\ k <= Len(s) /\ \A i \in 2..k : s[i] \in 128..191
         /\ Accepted(k, c)
      THEN c ELSE -1

Symbols(s) ==
  LET symbols[r \in Seq(Nat)] ==
        IF r = <<>> THEN <<>>
        ELSE LET c == decodeSymbol(r) IN
             IF c = -1 THEN Thrown
             ELSE <<c>> \o symbols[SubSeq(r, Announced(r[1]) + 1, Len(r))]
  IN  symbols[s]

\* byteArray: of each code point the last eight bits.
Bytes(s) == LET points == ucs2decode(s) IN [i \in DOMAIN points |-> points[i] % 256]

utf8decode(s) ==
  LET points == Symbols(Bytes(s)) IN
  IF -1 \in Range(points) THEN Thrown ELSE ucs2encode(points)

-----------------------------------------------------------------------------
\* A surrogate without its other half.
Lone(s) ==
  \E i \in DOMAIN s :
    \/ High(s[i]) /\ (i = Len(s) \/ ~Low(s[i + 1]))
    \/ Low(s[i]) /\ (i = 1 \/ ~High(s[i - 1]))

\* Every string comes back as it was, and one that has a surrogate without its
\* other half is refused at once; of strings of bytes those are accepted that
\* encode writes, and no other: each string has one form.
EncodedOnce ==
  /\ IF Lone(text) THEN utf8encode(text) = Thrown
                   ELSE utf8decode(utf8encode(text)) = text
  /\ \/ utf8decode(octets) = Thrown
     \/ utf8encode(utf8decode(octets)) = octets
=============================================================================
