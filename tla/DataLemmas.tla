----------------------------- MODULE DataLemmas -----------------------------
(***************************************************************************)
(* Facts about the data of the models, for any contents: induction on      *)
(* numbers and on sequences, in terms of sets; numbers and their digits;   *)
(* sequences in parts, and texts that are split at a character; what       *)
(* increasing sequences keep; what the updates of the maps of an Adapter   *)
(* do; and texts that are written and read symbol by symbol, UTF-16 the    *)
(* first of them.                                                          *)
(***************************************************************************)
EXTENDS RoomMaps, Numerals, SequenceTheorems, WellFoundedInduction, TLAPS

-----------------------------------------------------------------------------
\* Induction.  The principles of the library quantify over an operator, which
\* the provers cannot instantiate; a property is given here as the set of the
\* numbers, or of the sequences, that have it.

LEMMA SmallestNumber ==
  ASSUME NEW T \in SUBSET Nat, T # {}
  PROVE  \E m \in T : \A k \in T : m <= k
<1> DEFINE R == OpToRel(<, Nat)
<1>1. IsWellFoundedOn(R, Nat)
  BY NatLessThanWellFounded
<1>2. \A x, y \in Nat : x < y => <<x, y>> \in R
  BY DEF OpToRel
<1> HIDE DEF R
<1>3. PICK m \in T : \A k \in T : ~(<<k, m>> \in R)
  BY <1>1, WFMin
<1>4. \A k \in T : ~(k < m)
  BY <1>2, <1>3
<1> QED
  BY <1>3, <1>4

LEMMA NumberInduction ==
  ASSUME NEW T \in SUBSET Nat, 0 \in T, \A n \in T : n + 1 \in T
  PROVE  T = Nat
<1> DEFINE rest == Nat \ T
<1> SUFFICES ASSUME rest # {} PROVE FALSE
  OBVIOUS
<1>1. PICK m \in rest : \A k \in rest : m <= k
  BY SmallestNumber
<1>2. m # 0 /\ m \in Nat /\ m - 1 \in Nat
  BY <1>1
<1>3. m - 1 \notin rest
  BY <1>1, <1>2
<1> QED
  BY <1>1, <1>2, <1>3

\* What the empty sequence has, and Append hands on, every sequence has.
LEMMA SequenceInduction ==
  ASSUME NEW S, NEW T \in SUBSET Seq(S), <<>> \in T,
         \A s \in T, e \in S : Append(s, e) \in T
  PROVE  T = Seq(S)
<1> DEFINE L == {n \in Nat : \A s \in Seq(S) : Len(s) = n => s \in T}
<1>1. 0 \in L
  BY EmptySeq
<1>2. ASSUME NEW n \in L PROVE n + 1 \in L
  <2> SUFFICES ASSUME NEW s \in Seq(S), Len(s) = n + 1 PROVE s \in T
    OBVIOUS
  <2>1. s # <<>>
    BY EmptySeq
  <2>2. PICK q \in Seq(S), e \in S : s = Append(q, e)
    BY <2>1, SequenceEmptyOrAppend
  <2>3. Len(q) = n
    BY <2>2, AppendProperties, LenProperties
  <2> QED
    BY <2>2, <2>3
<1>3. L = Nat
  <2> HIDE DEF L
  <2>1. L \in SUBSET Nat
    BY DEF L
  <2> QED
    BY <1>1, <1>2, <2>1, NumberInduction
<1> QED
  BY <1>3, LenProperties

\* F goes from b by n steps, within V.
Stages(F, V, b, n, st) ==
  F \in [0..n -> V] /\ F[0] = b /\ \A k \in 1..n : F[k] = st[k][F[k - 1]]

\* Recursion on the numbers to n exists, and keeps to the set V of its steps.
LEMMA Recursion ==
  ASSUME NEW V, NEW b \in V, NEW n \in Nat, NEW st \in [1..n -> [V -> V]]
  PROVE  \E F : Stages(F, V, b, n, st)
<1> SUFFICES \E F \in [0..n -> V] : F[0] = b /\ \A k \in 1..n : F[k] = st[k][F[k - 1]]
  BY DEF Stages
<1> DEFINE Upto(m, F) == F[0] = b /\ \A k \in 1..m : F[k] = st[k][F[k - 1]]
           T == {m \in Nat : m <= n => \E F \in [0..m -> V] : Upto(m, F)}
<1>1. 0 \in T
  <2> DEFINE F == [k \in 0..0 |-> b]
  <2>1. F \in [0..0 -> V] /\ Upto(0, F)
    OBVIOUS
  <2> QED
    BY <2>1
<1>2. ASSUME NEW m \in T PROVE m + 1 \in T
  <2> SUFFICES ASSUME m + 1 <= n PROVE \E F \in [0..m + 1 -> V] : Upto(m + 1, F)
    OBVIOUS
  <2>1. PICK F \in [0..m -> V] : Upto(m, F)
    OBVIOUS
  <2> DEFINE G == [k \in 0..m + 1 |-> IF k <= m THEN F[k] ELSE st[m + 1][F[m]]]
  <2>2. m \in Nat /\ m + 1 \in 1..n /\ F[m] \in V
    OBVIOUS
  <2>3. st[m + 1] \in [V -> V]
    BY <2>2
  <2>4. st[m + 1][F[m]] \in V
    BY <2>2, <2>3
  <2>5. G \in [0..m + 1 -> V]
    BY <2>2, <2>4
  <2>6. G[0] = b
    BY <2>1, <2>2
  <2>7. ASSUME NEW k \in 1..m + 1 PROVE G[k] = st[k][G[k - 1]]
    <3>1. CASE k <= m
      <4>1. G[k] = F[k] /\ G[k - 1] = F[k - 1] /\ k \in 1..m
        BY <3>1, <2>2
      <4> QED
        BY <4>1, <2>1
    <3>2. CASE k = m + 1
      <4>1. G[k] = st[k][F[m]] /\ G[k - 1] = F[m]
        BY <3>2, <2>2
      <4> QED
        BY <4>1
    <3> QED
      BY <3>1, <3>2, <2>2
  <2> HIDE DEF G
  <2> QED
    BY <2>5, <2>6, <2>7
<1>3. T = Nat
  <2> HIDE DEF T
  <2>1. T \in SUBSET Nat
    BY DEF T
  <2> QED
    BY <1>1, <1>2, <2>1, NumberInduction
<1> QED
  BY <1>3

\* Its only solution is in V as well.
LEMMA RecursionTyped ==
  ASSUME NEW V, NEW b \in V, NEW n \in Nat, NEW st \in [1..n -> [V -> V]],
         NEW G, G[0] = b, \A k \in 1..n : G[k - 1] \in V => G[k] = st[k][G[k - 1]]
  PROVE  \A k \in 0..n : G[k] \in V
<1> DEFINE T == {k \in Nat : k <= n => G[k] \in V}
<1>1. 0 \in T
  OBVIOUS
<1>2. ASSUME NEW k \in T PROVE k + 1 \in T
  <2> SUFFICES ASSUME k + 1 <= n PROVE G[k + 1] \in V
    OBVIOUS
  <2>1. k + 1 \in 1..n /\ (k + 1) - 1 = k /\ G[k] \in V
    OBVIOUS
  <2>2. G[k + 1] = st[k + 1][G[k]]
    BY <2>1
  <2>3. st[k + 1] \in [V -> V]
    BY <2>1
  <2> QED
    BY <2>1, <2>2, <2>3
<1>3. T = Nat
  <2> HIDE DEF T
  <2>1. T \in SUBSET Nat
    BY DEF T
  <2> QED
    BY <1>1, <1>2, <2>1, NumberInduction
<1> QED
  BY <1>3

\* Two functions that begin alike and go on alike are alike.
Alike(F, G, n) ==
  F[0] = G[0] /\ \A k \in 1..n : F[k - 1] = G[k - 1] => F[k] = G[k]

LEMMA SameStages ==
  ASSUME NEW F, NEW G, NEW n \in Nat, Alike(F, G, n)
  PROVE  \A k \in 0..n : F[k] = G[k]
<1>0. F[0] = G[0] /\ \A k \in 1..n : F[k - 1] = G[k - 1] => F[k] = G[k]
  BY DEF Alike
<1> DEFINE T == {k \in Nat : k <= n => F[k] = G[k]}
<1>1. 0 \in T
  BY <1>0
<1>2. ASSUME NEW k \in T PROVE k + 1 \in T
  <2> SUFFICES ASSUME k + 1 <= n PROVE F[k + 1] = G[k + 1]
    OBVIOUS
  <2>1. k + 1 \in 1..n /\ (k + 1) - 1 = k /\ F[k] = G[k]
    OBVIOUS
  <2> QED
    BY <1>0, <2>1
<1>3. T = Nat
  <2> HIDE DEF T
  <2>1. T \in SUBSET Nat
    BY DEF T
  <2> QED
    BY <1>1, <1>2, <2>1, NumberInduction
<1> QED
  BY <1>3

\* What begins so and goes on so is always so: P is where it is.
LEMMA Inherited ==
  ASSUME NEW P, NEW n \in Nat, 0 \in P, \A k \in 1..n : k - 1 \in P => k \in P
  PROVE  0..n \subseteq P
<1> DEFINE T == {k \in Nat : k <= n => k \in P}
<1>1. 0 \in T
  OBVIOUS
<1>2. ASSUME NEW k \in T PROVE k + 1 \in T
  <2> SUFFICES ASSUME k + 1 <= n PROVE k + 1 \in P
    OBVIOUS
  <2>1. k + 1 \in 1..n /\ (k + 1) - 1 = k /\ k \in P
    OBVIOUS
  <2> QED
    BY <2>1
<1>3. T = Nat
  <2> HIDE DEF T
  <2>1. T \in SUBSET Nat
    BY DEF T
  <2> QED
    BY <1>1, <1>2, <2>1, NumberInduction
<1> QED
  BY <1>3

\* Recursion that goes down in size.  F is what it computes: in B it is b, and
\* elsewhere st makes it of what F is at the next, smaller, element.
Solves(F, D, B, b, next, st) ==
  \A x \in D : F[x] = IF x \in B THEN b[x] ELSE st[x][F[next[x]]]

\* The data of such a recursion: D is what it is defined on, V where it goes.
Descends(D, V, size, B, b, next, st) ==
  /\ size \in [D -> Nat] /\ next \in [D -> D]
  /\ b \in [D -> V] /\ st \in [D -> [V -> V]]
  /\ \A x \in D : x \in B \/ size[next[x]] < size[x]

LEMMA SizeRecursion ==
  ASSUME NEW D, NEW V, NEW size, NEW B, NEW b, NEW next, NEW st,
         Descends(D, V, size, B, b, next, st)
  PROVE  \E F \in [D -> V] : Solves(F, D, B, b, next, st)
<1>0. /\ size \in [D -> Nat] /\ next \in [D -> D]
      /\ b \in [D -> V] /\ st \in [D -> [V -> V]]
      /\ \A x \in D : x \in B \/ size[next[x]] < size[x]
  BY DEF Descends
<1> DEFINE At(F, x) == F[x] = IF x \in B THEN b[x] ELSE st[x][F[next[x]]]
           Upto(F, m) == \A x \in D : size[x] <= m => At(F, x)
           T == {m \in Nat : \E F \in [D -> V] : Upto(F, m)}
           U == {m \in Nat : \A F, G \in [D -> V] : Upto(F, m) /\ Upto(G, m) =>
                               \A x \in D : size[x] <= m => F[x] = G[x]}
<1>1. ASSUME NEW F \in [D -> V], NEW x \in D
      PROVE  (IF x \in B THEN b[x] ELSE st[x][F[next[x]]]) \in V
  <2>1. next[x] \in D /\ F[next[x]] \in V /\ st[x] \in [V -> V] /\ b[x] \in V
    BY <1>0
  <2> QED
    BY <2>1
<1>2. 0 \in T
  <2> DEFINE F == b
  <2>1. ASSUME NEW x \in D, size[x] <= 0 PROVE x \in B
    <3>1. size[x] \in Nat /\ size[next[x]] \in Nat
      BY <1>0
    <3> QED
      BY <1>0, <2>1, <3>1
  <2>2. b \in [D -> V] /\ Upto(b, 0)
    BY <1>0, <2>1
  <2> QED
    BY <2>2
<1>3. ASSUME NEW m \in T PROVE m + 1 \in T
  <2>1. PICK F \in [D -> V] : Upto(F, m)
    OBVIOUS
  <2> DEFINE G == [x \in D |-> IF x \in B THEN b[x] ELSE st[x][F[next[x]]]]
  <2>2. G \in [D -> V]
    BY <1>1
  <2>3. \A x \in D : size[x] <= m => G[x] = F[x]
    BY <2>1
  <2>4. ASSUME NEW x \in D, size[x] <= m + 1 PROVE At(G, x)
    <3>1. CASE x \in B
      BY <3>1
    <3>2. CASE x \notin B
      <4>1. size[next[x]] \in Nat /\ size[x] \in Nat /\ size[next[x]] < size[x] /\ next[x] \in D
            /\ m \in Nat
        BY <1>0, <3>2
      <4>2. size[next[x]] <= m
        BY <2>4, <4>1
      <4>3. G[next[x]] = F[next[x]]
        BY <2>3, <4>1, <4>2
      <4> QED
        BY <3>2, <4>3
    <3> QED
      BY <3>1, <3>2
  <2> HIDE DEF G
  <2> QED
    BY <2>2, <2>4
<1>4. T = Nat
  <2> HIDE DEF T
  <2>1. T \in SUBSET Nat
    BY DEF T
  <2> QED
    BY <1>2, <1>3, <2>1, NumberInduction
<1>5. 0 \in U
  <2>1. ASSUME NEW x \in D, size[x] <= 0 PROVE x \in B
    <3>1. size[x] \in Nat /\ size[next[x]] \in Nat
      BY <1>0
    <3> QED
      BY <1>0, <2>1, <3>1
  <2> QED
    BY <2>1
<1>6. ASSUME NEW m \in U PROVE m + 1 \in U
  <2> SUFFICES ASSUME NEW F \in [D -> V], NEW G \in [D -> V], Upto(F, m + 1), Upto(G, m + 1),
                      NEW x \in D, size[x] <= m + 1
               PROVE  F[x] = G[x]
    OBVIOUS
  <2>0. m \in Nat /\ \A y \in D : size[y] \in Nat
    BY <1>0
  <2>1. Upto(F, m) /\ Upto(G, m)
    BY <2>0
  <2>2. \A y \in D : size[y] <= m => F[y] = G[y]
    BY <2>1
  <2>3. At(F, x) /\ At(G, x)
    OBVIOUS
  <2>4. CASE x \in B
    BY <2>3, <2>4
  <2>5. CASE x \notin B
    <3>1. next[x] \in D /\ size[next[x]] < size[x]
      BY <1>0, <2>5
    <3>2. F[next[x]] = G[next[x]]
      BY <2>0, <2>2, <3>1
    <3> QED
      BY <2>3, <2>5, <3>2
  <2> QED
    BY <2>4, <2>5
<1>7. U = Nat
  <2> HIDE DEF U
  <2>1. U \in SUBSET Nat
    BY DEF U
  <2> QED
    BY <1>5, <1>6, <2>1, NumberInduction
<1> DEFINE Best(m) == CHOOSE F \in [D -> V] : Upto(F, m)
           H == [x \in D |-> Best(size[x])[x]]
<1>8. \A m \in Nat : Best(m) \in [D -> V] /\ Upto(Best(m), m)
  BY <1>4
<1>9. ASSUME NEW m \in Nat, NEW x \in D, size[x] <= m PROVE H[x] = Best(m)[x]
  <2> DEFINE k == size[x]
             F == Best(k)
             G == Best(m)
  <2>1. k \in Nat /\ \A y \in D : size[y] \in Nat
    BY <1>0
  <2>2. F \in [D -> V] /\ Upto(F, k) /\ G \in [D -> V] /\ Upto(G, m)
    BY <1>8, <2>1
  <2>3. Upto(G, k)
    BY <1>9, <2>1, <2>2
  <2>4. H[x] = F[x]
    OBVIOUS
  <2> HIDE DEF F, G, H
  <2>5. F[x] = G[x]
    BY <1>7, <2>1, <2>2, <2>3
  <2> QED
    BY <2>4, <2>5 DEF G
<1>10. H \in [D -> V]
  <2>1. ASSUME NEW x \in D PROVE Best(size[x])[x] \in V
    <3>1. size[x] \in Nat
      BY <1>0
    <3>2. Best(size[x]) \in [D -> V]
      BY <1>8, <3>1
    <3> QED
      BY <3>2
  <2> QED
    BY <2>1
<1>11. ASSUME NEW x \in D PROVE At(H, x)
  <2> DEFINE m == size[x]
             G == Best(m)
  <2>1. m \in Nat /\ size[next[x]] \in Nat /\ next[x] \in D
    BY <1>0
  <2>2. At(G, x)
    BY <1>8, <2>1
  <2>3. H[x] = G[x]
    BY <1>9, <2>1
  <2>4. x \notin B => H[next[x]] = G[next[x]]
    <3> SUFFICES ASSUME x \notin B PROVE H[next[x]] = G[next[x]]
      OBVIOUS
    <3>1. size[next[x]] <= m
      BY <1>0, <2>1
    <3> HIDE DEF H, Best
    <3> QED
      BY <1>9, <2>1, <3>1
  <2> HIDE DEF G, H
  <2> QED
    BY <2>2, <2>3, <2>4
<1> HIDE DEF H, At
<1>12. Solves(H, D, B, b, next, st)
  BY <1>11 DEF Solves, At
<1> QED
  BY <1>10, <1>12

\* A sequence without its i-th element.
LEMMA WithoutOne ==
  ASSUME NEW S, NEW s \in Seq(S), NEW i \in 1..Len(s)
  PROVE  LET r == SubSeq(s, 1, i - 1) \o SubSeq(s, i + 1, Len(s)) IN
         /\ r \in Seq(S) /\ Len(r) = Len(s) - 1
         /\ \A j \in 1..Len(r) : r[j] = IF j < i THEN s[j] ELSE s[j + 1]
<1> DEFINE n == Len(s)
           a == SubSeq(s, 1, i - 1)
           z == SubSeq(s, i + 1, n)
<1>1. n \in Nat /\ i \in 1..n /\ \A j \in 1..n : s[j] \in S
  BY LenProperties, ElementOfSeq
<1>2. /\ a \in Seq(S) /\ Len(a) = i - 1
      /\ \A j \in 1..i - 1 : a[j] = s[j]
  <2>1. \A j \in 1..i - 1 : s[j] \in S
    BY <1>1
  <2> QED
    BY <1>1, <2>1, SubSeqProperties
<1>3. /\ z \in Seq(S) /\ Len(z) = n - i
      /\ \A j \in 1..n - i : z[j] = s[i + j]
  <2>1. \A j \in i + 1..n : s[j] \in S
    BY <1>1
  <2> QED
    BY <1>1, <2>1, SubSeqProperties
<1> HIDE DEF a, z
<1>4. /\ a \o z \in Seq(S) /\ Len(a \o z) = n - 1
      /\ \A j \in 1..n - 1 : (a \o z)[j] = IF j <= i - 1 THEN a[j] ELSE z[j - (i - 1)]
  BY <1>1, <1>2, <1>3, ConcatProperties
<1>5. ASSUME NEW j \in 1..n - 1 PROVE (a \o z)[j] = IF j < i THEN s[j] ELSE s[j + 1]
  <2>1. CASE j < i
    BY <1>1, <1>2, <1>4, <2>1
  <2>2. CASE ~(j < i)
    <3>1. j - (i - 1) \in 1..n - i /\ i + (j - (i - 1)) = j + 1
      BY <1>1, <2>2
    <3> QED
      BY <1>1, <1>3, <1>4, <2>2, <3>1
  <2> QED
    BY <2>1, <2>2
<1> QED
  BY <1>4, <1>5 DEF a, z

\* A concatenation can be taken apart again.
LEMMA SplitConcat ==
  ASSUME NEW S, NEW a \in Seq(S), NEW b \in Seq(S)
  PROVE  /\ SubSeq(a \o b, 1, Len(a)) = a
         /\ SubSeq(a \o b, Len(a) + 1, Len(a \o b)) = b
<1> DEFINE s == a \o b
           m == Len(a)
           n == Len(b)
<1>1. /\ s \in Seq(S) /\ Len(s) = m + n /\ m \in Nat /\ n \in Nat
      /\ \A i \in 1..m + n : s[i] = IF i <= m THEN a[i] ELSE b[i - m]
  BY ConcatProperties, LenProperties
<1>2. \A i \in 1..m + n : s[i] \in S
  BY <1>1, ElementOfSeq
<1> HIDE DEF s
<1>3. SubSeq(s, 1, m) = a
  <2>1. \A i \in 1..m : s[i] \in S
    BY <1>1, <1>2
  <2>2. /\ SubSeq(s, 1, m) \in Seq(S) /\ Len(SubSeq(s, 1, m)) = m
        /\ \A i \in 1..m : SubSeq(s, 1, m)[i] = s[i]
    BY <1>1, <2>1, SubSeqProperties
  <2>3. \A i \in 1..m : SubSeq(s, 1, m)[i] = a[i]
    BY <1>1, <2>2
  <2> QED
    BY <2>2, <2>3, SeqEqual
<1>4. SubSeq(s, m + 1, m + n) = b
  <2>1. \A i \in m + 1..m + n : s[i] \in S
    BY <1>1, <1>2
  <2>2. /\ SubSeq(s, m + 1, m + n) \in Seq(S)
        /\ Len(SubSeq(s, m + 1, m + n)) = n
        /\ \A i \in 1..n : SubSeq(s, m + 1, m + n)[i] = s[m + i]
    BY <1>1, <2>1, SubSeqProperties
  <2>3. \A i \in 1..n : SubSeq(s, m + 1, m + n)[i] = b[i]
    BY SMTT(30), <1>1, <2>2
  <2> QED
    BY <2>2, <2>3, SeqEqual
<1> QED
  BY <1>1, <1>3, <1>4 DEF s

-----------------------------------------------------------------------------
\* Numbers from their digits, most significant first.

Base == {10, 64, 256}

More(v, b, d) == v * b + d

LEMMA MoreNat ==
  ASSUME NEW v \in Nat, NEW b \in Base, NEW d \in Nat
  PROVE  More(v, b, d) \in Nat
<1>1. CASE b = 10
  BY <1>1 DEF More
<1>2. CASE b = 64
  BY <1>2 DEF More
<1>3. CASE b = 256
  BY <1>3 DEF More
<1> QED
  BY <1>1, <1>2, <1>3 DEF Base

\* The recursion of NumberOf.
Sums(F, s, b) == F = [i \in 0..Len(s) |-> IF i = 0 THEN 0 ELSE F[i - 1] * b + s[i]]

LEMMA NumberOfIs ==
  ASSUME NEW s, NEW b
  PROVE  NumberOf(s, b) = (CHOOSE F : Sums(F, s, b))[Len(s)]
BY DEF NumberOf, Sums

LEMMA SumsFacts ==
  ASSUME NEW s \in Seq(Nat), NEW b, NEW F, Sums(F, s, b)
  PROVE  F[0] = 0 /\ \A i \in 1..Len(s) : F[i] = More(F[i - 1], b, s[i])
<1>1. Len(s) \in Nat
  BY LenProperties
<1>2. \A i \in 0..Len(s) : F[i] = IF i = 0 THEN 0 ELSE F[i - 1] * b + s[i]
  BY DEF Sums
<1>3. 0 \in 0..Len(s) /\ \A i \in 1..Len(s) : i \in 0..Len(s) /\ i # 0
  BY <1>1
<1>4. F[0] = 0
  BY <1>2, <1>3
<1>5. \A i \in 1..Len(s) : F[i] = F[i - 1] * b + s[i]
  BY ONLY <1>2, <1>3
<1> QED
  BY <1>4, <1>5 DEF More

LEMMA SumsExist ==
  ASSUME NEW s \in Seq(Nat), NEW b \in Base
  PROVE  \E F : Sums(F, s, b)
<1> DEFINE n == Len(s)
           st == [k \in 1..n |-> [v \in Nat |-> More(v, b, s[k])]]
<1>1. n \in Nat /\ \A k \in 1..n : s[k] \in Nat
  BY LenProperties, ElementOfSeq
<1>2. st \in [1..n -> [Nat -> Nat]]
  BY <1>1, MoreNat
<1>3. \A k \in 1..n, v \in Nat : st[k][v] = More(v, b, s[k])
  OBVIOUS
<1> HIDE DEF st, n
<1>4. PICK F : Stages(F, Nat, 0, n, st)
  <2>1. 0 \in Nat
    OBVIOUS
  <2> QED
    BY ONLY <1>1, <1>2, <2>1, Recursion
<1>5. /\ F \in [0..n -> Nat] /\ F[0] = 0
      /\ \A k \in 1..n : F[k] = st[k][F[k - 1]]
  BY <1>4 DEF Stages
<1>6. ASSUME NEW k \in 1..n PROVE F[k] = F[k - 1] * b + s[k]
  <2>1. F[k - 1] \in Nat
    <3>1. k - 1 \in 0..n
      BY <1>1
    <3> QED
      BY <1>5, <3>1
  <2> QED
    BY <1>3, <1>5, <2>1 DEF More
<1>7. F = [i \in 0..n |-> IF i = 0 THEN 0 ELSE F[i - 1] * b + s[i]]
  <2>1. F = [i \in 0..n |-> F[i]]
    BY <1>5
  <2>2. \A i \in 0..n : F[i] = IF i = 0 THEN 0 ELSE F[i - 1] * b + s[i]
    <3>1. \A i \in 0..n : i = 0 \/ i \in 1..n
      BY <1>1
    <3> QED
      BY <1>5, <1>6, <3>1
  <2> QED
    BY ONLY <2>1, <2>2
<1> QED
  BY <1>7 DEF Sums, n

LEMMA NumberOfSums ==
  ASSUME NEW s \in Seq(Nat), NEW b \in Base
  PROVE  \E F : /\ F[0] = 0 /\ \A i \in 1..Len(s) : F[i] = More(F[i - 1], b, s[i])
                /\ NumberOf(s, b) = F[Len(s)]
<1> DEFINE G == CHOOSE F : Sums(F, s, b)
<1>1. Sums(G, s, b)
  BY SumsExist
<1>2. NumberOf(s, b) = G[Len(s)]
  BY NumberOfIs
<1> HIDE DEF G
<1> QED
  BY <1>1, <1>2, SumsFacts

LEMMA NumberOfEmpty ==
  ASSUME NEW b \in Base
  PROVE  NumberOf(<<>>, b) = 0
<1>1. <<>> \in Seq(Nat) /\ Len(<<>>) = 0
  BY EmptySeq
<1> QED
  BY <1>1, NumberOfSums

LEMMA NumberOfAppend ==
  ASSUME NEW b \in Base, NEW s \in Seq(Nat), NEW d \in Nat
  PROVE  NumberOf(Append(s, d), b) = NumberOf(s, b) * b + d
<1> DEFINE n == Len(s)
           t == Append(s, d)
<1>1. /\ n \in Nat /\ t \in Seq(Nat) /\ Len(t) = n + 1 /\ t[n + 1] = d
      /\ \A i \in 1..n : t[i] = s[i]
  BY LenProperties, AppendProperties
<1> HIDE DEF t
<1>2. PICK F : /\ F[0] = 0 /\ \A i \in 1..n : F[i] = More(F[i - 1], b, s[i])
               /\ NumberOf(s, b) = F[n]
  BY NumberOfSums
<1>3. PICK G : /\ G[0] = 0 /\ \A i \in 1..n + 1 : G[i] = More(G[i - 1], b, t[i])
               /\ NumberOf(t, b) = G[n + 1]
  BY <1>1, NumberOfSums
<1> HIDE DEF n
<1>4. \A k \in 1..n : G[k - 1] = F[k - 1] => G[k] = F[k]
  <2>1. \A i \in 1..n : i \in 1..n + 1
    BY <1>1
  <2> QED
    BY <1>1, <1>2, <1>3, <2>1
<1>5. G[n] = F[n]
  <2>1. G[0] = F[0]
    BY <1>2, <1>3
  <2>2. \A k \in 0..n : G[k] = F[k]
    <3>1. n \in Nat
      BY <1>1
    <3>2. Alike(G, F, n)
      BY <1>4, <2>1 DEF Alike
    <3> QED
      BY ONLY <3>1, <3>2, SameStages
  <2>3. n \in 0..n
    BY <1>1
  <2> QED
    BY <2>2, <2>3
<1>6. n + 1 \in 1..n + 1 /\ (n + 1) - 1 = n
  BY <1>1
<1>7. G[n + 1] = More(G[n], b, d)
  BY <1>1, <1>3, <1>6
<1> QED
  BY <1>2, <1>3, <1>5, <1>7 DEF More, t

-----------------------------------------------------------------------------
\* The digits of a number.

LEMMA Divided ==
  ASSUME NEW k \in Nat, NEW b \in Base
  PROVE  /\ b \in Nat /\ b > 1
         /\ k \div b \in Nat /\ k % b \in 0..b - 1
         /\ k = More(k \div b, b, k % b)
         /\ k >= b => k \div b < k /\ k \div b >= 1
<1>1. CASE b = 10
  BY <1>1 DEF More
<1>2. CASE b = 64
  BY <1>2 DEF More
<1>3. CASE b = 256
  BY <1>3 DEF More
<1> QED
  BY <1>1, <1>2, <1>3 DEF Base

DigitsOf(f, b) ==
  f = [k \in Nat |-> IF k < b THEN <<k>> ELSE Append(f[k \div b], k % b)]

LEMMA InBaseIs ==
  ASSUME NEW n, NEW b
  PROVE  InBase(n, b) = (CHOOSE f : DigitsOf(f, b))[n]
BY DEF InBase, DigitsOf

LEMMA DigitsExist ==
  ASSUME NEW b \in Base
  PROVE  \E f \in [Nat -> Seq(0..b - 1)] : DigitsOf(f, b)
<1> DEFINE V == Seq(0..b - 1)
           size == [k \in Nat |-> k]
           B == 0..b - 1
           one == [k \in Nat |-> IF k < b THEN <<k>> ELSE <<>>]
           next == [k \in Nat |-> k \div b]
           st == [k \in Nat |-> [s \in V |-> Append(s, k % b)]]
<1>0. b \in Nat /\ b > 1
  BY Divided
<1>1. one \in [Nat -> V]
  <2>1. ASSUME NEW k \in Nat, k < b PROVE <<k>> \in V
    <3>1. k \in 0..b - 1
      BY <1>0, <2>1
    <3> QED
      BY <3>1
  <2>2. <<>> \in V
    BY EmptySeq
  <2> QED
    BY <2>1, <2>2
<1>2. st \in [Nat -> [V -> V]]
  <2>1. ASSUME NEW k \in Nat, NEW s \in V PROVE Append(s, k % b) \in V
    <3>1. k % b \in 0..b - 1
      BY Divided
    <3> QED
      BY <3>1, AppendProperties
  <2> QED
    BY <2>1
<1>3. next \in [Nat -> Nat] /\ size \in [Nat -> Nat]
  BY Divided
<1>4. \A k \in Nat : k \in B \/ size[next[k]] < size[k]
  <2>1. ASSUME NEW k \in Nat, k \notin B PROVE k \div b < k
    <3>1. k >= b
      BY <1>0, <2>1
    <3> QED
      BY <3>1, Divided
  <2> QED
    BY <1>3, <2>1
<1>a. /\ \A k \in Nat : k < b <=> k \in B
      /\ \A k \in Nat : k < b => one[k] = <<k>>
      /\ \A k \in Nat, s \in V : st[k][s] = Append(s, k % b)
      /\ \A k \in Nat : next[k] = k \div b
  BY <1>0
<1> HIDE DEF V, size, B, one, next, st
<1>5. Descends(Nat, V, size, B, one, next, st)
  BY <1>1, <1>2, <1>3, <1>4 DEF Descends
<1>6. PICK f \in [Nat -> V] : Solves(f, Nat, B, one, next, st)
  BY <1>5, SizeRecursion
<1>7. ASSUME NEW k \in Nat
      PROVE  f[k] = IF k < b THEN <<k>> ELSE Append(f[k \div b], k % b)
  <2>1. f[k] = IF k \in B THEN one[k] ELSE st[k][f[next[k]]]
    BY <1>6 DEF Solves
  <2>2. next[k] \in Nat /\ f[next[k]] \in V
    BY <1>3, <1>6
  <2> QED
    BY <1>a, <2>1, <2>2
<1>8. DigitsOf(f, b)
  <2>1. f = [k \in Nat |-> f[k]]
    BY <1>6
  <2> QED
    BY <1>7, <2>1 DEF DigitsOf
<1> QED
  BY <1>6, <1>8 DEF V

\* What the digits of a number are made of.
LEMMA InBaseFacts ==
  ASSUME NEW n \in Nat, NEW b \in Base
  PROVE  InBase(n, b) = IF n < b THEN <<n>> ELSE Append(InBase(n \div b, b), n % b)
<1> DEFINE f == CHOOSE f : DigitsOf(f, b)
<1>1. DigitsOf(f, b)
  BY DigitsExist
<1>2. InBase(n, b) = f[n] /\ InBase(n \div b, b) = f[n \div b]
  BY InBaseIs
<1> HIDE DEF f
<1>3. f[n] = IF n < b THEN <<n>> ELSE Append(f[n \div b], n % b)
  BY <1>1 DEF DigitsOf
<1> QED
  BY <1>2, <1>3

\* What all numbers below have, a number has: so has every number.
LEMMA DigitInduction ==
  ASSUME NEW b \in Base, NEW P \in SUBSET Nat,
         \A n \in Nat : n < b => n \in P,
         \A n \in Nat : n >= b /\ n \div b \in P => n \in P
  PROVE  P = Nat
<1> DEFINE T == {m \in Nat : \A k \in 0..m : k \in P}
<1>0. b \in Nat /\ b > 1
  BY Divided
<1>1. 0 \in T
  BY <1>0
<1>2. ASSUME NEW m \in T PROVE m + 1 \in T
  <2>1. m + 1 \in P
    <3>1. CASE m + 1 < b
      BY <3>1
    <3>2. CASE ~(m + 1 < b)
      <4>1. m + 1 \in Nat /\ m + 1 >= b
        BY <1>0, <3>2
      <4>2. (m + 1) \div b \in Nat /\ (m + 1) \div b < m + 1
        BY <4>1, Divided
      <4>3. (m + 1) \div b \in 0..m
        BY <4>2
      <4>4. (m + 1) \div b \in P
        BY <4>3
      <4> QED
        BY <4>1, <4>4
    <3> QED
      BY <3>1, <3>2
  <2>2. \A k \in 0..m + 1 : k \in 0..m \/ k = m + 1
    OBVIOUS
  <2> QED
    BY <2>1, <2>2
<1>3. T = Nat
  <2> HIDE DEF T
  <2>1. T \in SUBSET Nat
    BY DEF T
  <2> QED
    BY <1>1, <1>2, <2>1, NumberInduction
<1>4. ASSUME NEW k \in Nat PROVE k \in P
  <2>1. k \in T /\ k \in 0..k
    BY <1>3
  <2> QED
    BY <2>1
<1> QED
  BY <1>4

\* A number is the number of its digits.
LEMMA DigitsRead ==
  ASSUME NEW n \in Nat, NEW b \in Base
  PROVE  /\ InBase(n, b) \in Seq(0..b - 1) /\ InBase(n, b) \in Seq(Nat)
         /\ InBase(n, b) # <<>>
         /\ NumberOf(InBase(n, b), b) = n
<1> DEFINE Fine(k) == /\ InBase(k, b) \in Seq(0..b - 1)
                      /\ InBase(k, b) # <<>>
                      /\ NumberOf(InBase(k, b), b) = k
           P == {k \in Nat : Fine(k)}
<1>0. b \in Nat /\ b > 1 /\ Seq(0..b - 1) \subseteq Seq(Nat)
  <2>1. b \in Nat /\ b > 1
    BY Divided
  <2>2. 0..b - 1 \subseteq Nat
    BY <2>1
  <2>3. ASSUME NEW s \in Seq(0..b - 1) PROVE s \in Seq(Nat)
    <3>1. Len(s) \in Nat /\ \A i \in 1..Len(s) : s[i] \in Nat
      BY <2>2, LenProperties, ElementOfSeq
    <3>2. s \in [1..Len(s) -> 0..b - 1]
      BY LenProperties
    <3> QED
      BY <3>1, <3>2, IsASeq
  <2> QED
    BY <2>1, <2>3
<1>1. ASSUME NEW k \in Nat, k < b PROVE Fine(k)
  <2>1. InBase(k, b) = <<k>>
    BY <1>1, InBaseFacts
  <2>2. <<k>> \in Seq(0..b - 1) /\ <<k>> = Append(<<>>, k) /\ <<>> \in Seq(Nat) /\ <<k>> # <<>>
    <3>1. k \in 0..b - 1
      BY <1>0, <1>1
    <3> QED
      BY <3>1, EmptySeq
  <2>3. NumberOf(<<k>>, b) = 0 * b + k
    BY <2>2, NumberOfAppend, NumberOfEmpty
  <2> QED
    BY <1>0, <2>1, <2>2, <2>3
<1>2. ASSUME NEW k \in Nat, k >= b, Fine(k \div b) PROVE Fine(k)
  <2> DEFINE s == InBase(k \div b, b)
             d == k % b
  <2>1. InBase(k, b) = Append(s, d)
    <3>1. ~(k < b)
      BY <1>0, <1>2
    <3> QED
      BY <3>1, InBaseFacts
  <2>2. d \in 0..b - 1 /\ d \in Nat /\ s \in Seq(0..b - 1) /\ s \in Seq(Nat)
        /\ NumberOf(s, b) = k \div b
    BY <1>0, <1>2, Divided
  <2>3. k = More(k \div b, b, d)
    BY Divided
  <2> HIDE DEF s, d
  <2>4. Append(s, d) \in Seq(0..b - 1) /\ Append(s, d) # <<>>
    BY <2>2, AppendProperties
  <2>5. NumberOf(Append(s, d), b) = k
    BY <2>2, <2>3, NumberOfAppend DEF More
  <2> QED
    BY <2>1, <2>4, <2>5
<1>3. P = Nat
  <2> HIDE DEF Fine
  <2>1. P \in SUBSET Nat
    OBVIOUS
  <2>2. \A k \in Nat : k < b => k \in P
    BY <1>1
  <2>3. \A k \in Nat : k >= b /\ k \div b \in P => k \in P
    BY <1>2
  <2> HIDE DEF P
  <2> QED
    BY ONLY <2>1, <2>2, <2>3, DigitInduction, b \in Base
<1>4. Fine(n)
  BY <1>3
<1> QED
  BY <1>0, <1>4

LEMMA DigitsIn64 ==
  ASSUME NEW n \in Nat
  PROVE  /\ InBase(n, 64) \in Seq(0..63) /\ NumberOf(InBase(n, 64), 64) = n
<1> DEFINE b == 64
<1>1. b \in Base /\ b - 1 = 63
  BY DEF Base
<1> HIDE DEF b
<1>2. InBase(n, b) \in Seq(0..b - 1) /\ NumberOf(InBase(n, b), b) = n
  BY <1>1, DigitsRead
<1> QED
  BY <1>1, <1>2 DEF b

-----------------------------------------------------------------------------
\* Sequences in parts.

LEMMA FunctionIsSeq ==
  ASSUME NEW S, NEW n \in Nat, NEW f \in [1..n -> S]
  PROVE  f \in Seq(S) /\ Len(f) = n
OBVIOUS

LEMMA HeadTailOne ==
  ASSUME NEW S, NEW x \in S, NEW s \in Seq(S)
  PROVE  Head(<<x>> \o s) = x /\ Tail(<<x>> \o s) = s /\ <<x>> \o s # <<>>
<1> DEFINE n == Len(s)
           t == <<x>> \o s
<1>1. <<x>> \in Seq(S) /\ Len(<<x>>) = 1 /\ n \in Nat
  BY LenProperties
<1>2. /\ t \in Seq(S) /\ Len(t) = 1 + n
      /\ \A i \in 1..1 + n : t[i] = IF i <= 1 THEN <<x>>[i] ELSE s[i - 1]
  BY <1>1, ConcatProperties
<1> HIDE DEF t
<1>3. t # <<>> /\ 1 \in 1..1 + n
  BY <1>1, <1>2, EmptySeq
<1>4. Head(t) = x
  BY <1>1, <1>2, <1>3, HeadTailProperties
<1>5. /\ Tail(t) \in Seq(S) /\ Len(Tail(t)) = n
      /\ \A i \in 1..n : Tail(t)[i] = t[i + 1]
  BY <1>1, <1>2, <1>3, HeadTailProperties
<1>6. ASSUME NEW i \in 1..n PROVE Tail(t)[i] = s[i]
  <2>1. i + 1 \in 1..1 + n /\ ~(i + 1 <= 1) /\ (i + 1) - 1 = i
    BY <1>1
  <2>2. t[i + 1] = s[(i + 1) - 1]
    BY <1>2, <2>1
  <2> QED
    BY <1>5, <2>1, <2>2
<1>7. Tail(t) = s
  BY <1>5, <1>6, SeqEqual
<1> QED
  BY <1>3, <1>4, <1>7 DEF t

\* A text of three parts can be taken apart again.
LEMMA ThreeParts ==
  ASSUME NEW S, NEW a \in Seq(S), NEW b \in Seq(S), NEW c \in Seq(S)
  PROVE  LET s == (a \o b) \o c IN
         /\ s \in Seq(S) /\ Len(s) = Len(a) + Len(b) + Len(c)
         /\ \A i \in 1..Len(a) : s[i] = a[i]
         /\ SubSeq(s, Len(a) + 1, Len(a) + Len(b)) = b
         /\ SubSeq(s, Len(a) + Len(b) + 1, Len(a) + Len(b) + Len(c)) = c
<1> DEFINE l == Len(a)
           m == Len(b)
           n == Len(c)
           u == a \o b
           s == u \o c
<1>1. l \in Nat /\ m \in Nat /\ n \in Nat
  BY LenProperties
<1>2. /\ u \in Seq(S) /\ Len(u) = l + m
      /\ \A i \in 1..l + m : u[i] = IF i <= l THEN a[i] ELSE b[i - l]
  BY ConcatProperties
<1> HIDE DEF u
<1>3. /\ s \in Seq(S) /\ Len(s) = (l + m) + n
      /\ \A i \in 1..(l + m) + n : s[i] = IF i <= l + m THEN u[i] ELSE c[i - (l + m)]
  <2>1. /\ s \in Seq(S) /\ Len(s) = Len(u) + Len(c)
        /\ \A i \in 1..Len(u) + Len(c) : s[i] = IF i <= Len(u) THEN u[i] ELSE c[i - Len(u)]
    <3>1. u \in Seq(S)
      BY <1>2
    <3> QED
      BY ONLY c \in Seq(S), <3>1, ConcatProperties
  <2> HIDE DEF s
  <2>2. Len(u) = l + m /\ Len(c) = n
    BY <1>2
  <2> QED
    BY <2>1, <2>2
<1> HIDE DEF s
<1>4. \A i \in 1..l + m + n : s[i] \in S
  BY <1>1, <1>3, ElementOfSeq
<1>5. \A i \in 1..l : s[i] = a[i]
  BY <1>1, <1>2, <1>3
<1>6. \A i \in 1..m : s[l + i] = b[i]
  <2> TAKE i \in 1..m
  <2>1. /\ l + i \in 1..(l + m) + n /\ l + i \in 1..l + m /\ l + i <= l + m
        /\ ~(l + i <= l) /\ (l + i) - l = i
    BY <1>1
  <2>2. s[l + i] = u[l + i]
    BY <1>3, <2>1
  <2>3. u[l + i] = b[(l + i) - l]
    BY <1>2, <2>1
  <2> QED
    BY <2>1, <2>2, <2>3
<1>7. \A i \in 1..n : s[l + m + i] = c[i]
  <2> TAKE i \in 1..n
  <2>1. /\ l + m + i \in 1..(l + m) + n /\ ~(l + m + i <= l + m)
        /\ (l + m + i) - (l + m) = i
    BY <1>1
  <2>2. s[l + m + i] = c[(l + m + i) - (l + m)]
    BY <1>3, <2>1
  <2> QED
    BY <2>1, <2>2
<1>8. SubSeq(s, l + 1, l + m) = b
  <2>1. \A i \in l + 1..l + m : s[i] \in S
    BY <1>1, <1>4
  <2>2. /\ SubSeq(s, l + 1, l + m) \in Seq(S)
        /\ Len(SubSeq(s, l + 1, l + m)) = IF l + 1 <= l + m THEN (l + m) - (l + 1) + 1 ELSE 0
        /\ \A i \in 1..(l + m) - (l + 1) + 1 : SubSeq(s, l + 1, l + m)[i] = s[(l + 1) + i - 1]
    BY <1>1, <2>1, SubSeqProperties
  <2>3. Len(SubSeq(s, l + 1, l + m)) = m
    BY <1>1, <2>2
  <2>4. ASSUME NEW i \in 1..m PROVE SubSeq(s, l + 1, l + m)[i] = b[i]
    <3>1. i \in 1..(l + m) - (l + 1) + 1 /\ (l + 1) + i - 1 = l + i
      BY <1>1
    <3>2. SubSeq(s, l + 1, l + m)[i] = s[(l + 1) + i - 1]
      BY <2>2, <3>1
    <3> QED
      BY <1>6, <3>1, <3>2
  <2> QED
    BY <2>2, <2>3, <2>4, SeqEqual
<1>9. SubSeq(s, l + m + 1, l + m + n) = c
  <2> DEFINE k == l + m
  <2>0. k \in Nat
    BY <1>1
  <2>1. \A i \in k + 1..k + n : s[i] \in S
    BY <1>1, <1>4
  <2>7. \A i \in 1..n : s[k + i] = c[i]
    BY <1>7
  <2> HIDE DEF k
  <2>2. /\ SubSeq(s, k + 1, k + n) \in Seq(S)
        /\ Len(SubSeq(s, k + 1, k + n)) = IF k + 1 <= k + n THEN (k + n) - (k + 1) + 1 ELSE 0
        /\ \A i \in 1..(k + n) - (k + 1) + 1 : SubSeq(s, k + 1, k + n)[i] = s[(k + 1) + i - 1]
    BY <1>1, <2>0, <2>1, SubSeqProperties
  <2>3. Len(SubSeq(s, k + 1, k + n)) = n
    BY <1>1, <2>0, <2>2
  <2>4. ASSUME NEW i \in 1..n PROVE SubSeq(s, k + 1, k + n)[i] = c[i]
    <3>1. i \in 1..(k + n) - (k + 1) + 1 /\ (k + 1) + i - 1 = k + i
      BY <1>1, <2>0
    <3>2. SubSeq(s, k + 1, k + n)[i] = s[(k + 1) + i - 1]
      BY <2>2, <3>1
    <3> QED
      BY <2>7, <3>1, <3>2
  <2>5. SubSeq(s, k + 1, k + n) = c
    BY <2>2, <2>3, <2>4, SeqEqual
  <2> QED
    BY <2>5 DEF k
<1> QED
  BY <1>3, <1>5, <1>8, <1>9 DEF s, u

\* Three sequences over S.
Triple(S, x, y, z) == x \in Seq(S) /\ y \in Seq(S) /\ z \in Seq(S)

LEMMA Associate ==
  ASSUME NEW S, NEW x, NEW y, NEW z, Triple(S, x, y, z)
  PROVE  (x \o y) \o z = x \o (y \o z)
BY ConcatAssociative DEF Triple

LEMMA ConcatAppend ==
  ASSUME NEW S, NEW a \in Seq(S), NEW b \in Seq(S), NEW e \in S
  PROVE  a \o Append(b, e) = Append(a \o b, e)
<1>1. <<e>> \in Seq(S) /\ a \o b \in Seq(S)
  BY ConcatProperties
<1>2. Append(b, e) = b \o <<e>> /\ Append(a \o b, e) = (a \o b) \o <<e>>
  BY <1>1, AppendIsConcat
<1>3. (a \o b) \o <<e>> = a \o (b \o <<e>>)
  BY <1>1, ConcatAssociative
<1> QED
  BY <1>2, <1>3

OfLength(s, S, n) == s \in Seq(S) /\ Len(s) = n

\* r is s, of length m, and then t, of length n.
Concatenates(r, s, m, t, n) ==
  (\A i \in 1..m : r[i] = s[i]) /\ (\A i \in 1..n : r[m + i] = t[i])

LEMMA ConcatAt ==
  ASSUME NEW S, NEW s, NEW t, NEW m \in Nat, NEW n \in Nat,
         OfLength(s, S, m), OfLength(t, S, n)
  PROVE  OfLength(s \o t, S, m + n) /\ Concatenates(s \o t, s, m, t, n)
<1> DEFINE r == s \o t
<1>0. s \in Seq(S) /\ Len(s) = m /\ t \in Seq(S) /\ Len(t) = n
  BY DEF OfLength
<1>1. /\ r \in Seq(S) /\ Len(r) = m + n
      /\ \A i \in 1..m + n : r[i] = IF i <= m THEN s[i] ELSE t[i - m]
  BY <1>0, ConcatProperties
<1> HIDE DEF r
<1>2. ASSUME NEW i \in 1..m PROVE r[i] = s[i]
  <2>1. i \in 1..m + n /\ i <= m
    OBVIOUS
  <2> QED
    BY <1>1, <2>1
<1>3. ASSUME NEW i \in 1..n PROVE r[m + i] = t[i]
  <2>1. m + i \in 1..m + n /\ ~(m + i <= m) /\ (m + i) - m = i
    OBVIOUS
  <2> QED
    BY <1>1, <2>1
<1>4. OfLength(r, S, m + n)
  BY <1>1 DEF OfLength
<1> QED
  BY <1>2, <1>3, <1>4 DEF r, Concatenates

-----------------------------------------------------------------------------
\* Sequences whose elements are mapped.

Image(f, q) == [i \in DOMAIN q |-> f[q[i]]]

Mapping(f, S, R) == f \in [S -> R]

LEMMA ImageTyped ==
  ASSUME NEW S, NEW R, NEW f, Mapping(f, S, R), NEW q \in Seq(S)
  PROVE  /\ Image(f, q) \in Seq(R) /\ Len(Image(f, q)) = Len(q)
         /\ \A i \in 1..Len(q) : Image(f, q)[i] = f[q[i]]
<1> DEFINE n == Len(q)
           s == [i \in 1..n |-> f[q[i]]]
<1>1. n \in Nat /\ DOMAIN q = 1..n /\ \A i \in 1..n : q[i] \in S
  BY LenProperties, ElementOfSeq
<1> HIDE DEF n
<1>2. \A i \in 1..n : f[q[i]] \in R
  BY <1>1 DEF Mapping
<1>3. s \in Seq(R) /\ Len(s) = n /\ \A i \in 1..n : s[i] = f[q[i]]
  BY <1>1, <1>2
<1>4. Image(f, q) = s
  BY <1>1 DEF Image
<1> HIDE DEF s
<1> QED
  BY <1>3, <1>4 DEF n

LEMMA ImageEmpty ==
  ASSUME NEW f
  PROVE  Image(f, <<>>) = <<>>
BY DEF Image

LEMMA ImageConcat ==
  ASSUME NEW S, NEW R, NEW f, Mapping(f, S, R), NEW a \in Seq(S), NEW b \in Seq(S)
  PROVE  Image(f, a \o b) = Image(f, a) \o Image(f, b)
<1> DEFINE c == a \o b
           x == Image(f, a)
           y == Image(f, b)
           z == Image(f, c)
           m == Len(a)
           n == Len(b)
<1>1. m \in Nat /\ n \in Nat
  BY LenProperties
<1>2. /\ c \in Seq(S) /\ Len(c) = m + n
      /\ \A i \in 1..m + n : c[i] = IF i <= m THEN a[i] ELSE b[i - m]
  BY ConcatProperties
<1>3. /\ x \in Seq(R) /\ Len(x) = m /\ \A i \in 1..m : x[i] = f[a[i]]
      /\ y \in Seq(R) /\ Len(y) = n /\ \A i \in 1..n : y[i] = f[b[i]]
  <2>1. x \in Seq(R) /\ Len(x) = m /\ \A i \in 1..m : x[i] = f[a[i]]
    BY ImageTyped
  <2>2. y \in Seq(R) /\ Len(y) = n /\ \A i \in 1..n : y[i] = f[b[i]]
    BY ImageTyped
  <2> QED
    BY <2>1, <2>2
<1> HIDE DEF c
<1>4. /\ z \in Seq(R) /\ Len(z) = Len(c) /\ \A i \in 1..Len(c) : z[i] = f[c[i]]
  <2>1. c \in Seq(S) /\ Mapping(f, S, R)
    BY <1>2
  <2> QED
    BY ONLY <2>1, ImageTyped
<1> HIDE DEF x, y, z
<1> DEFINE w == x \o y
<1>5. /\ w \in Seq(R) /\ Len(w) = Len(x) + Len(y)
      /\ \A i \in 1..Len(x) + Len(y) : w[i] = IF i <= Len(x) THEN x[i] ELSE y[i - Len(x)]
  <2>1. x \in Seq(R) /\ y \in Seq(R)
    BY <1>3
  <2> HIDE DEF m, n, c
  <2> QED
    BY ONLY <2>1, ConcatProperties
<1> HIDE DEF w, m, n
<1>6. Len(w) = m + n /\ \A i \in 1..m + n : w[i] = IF i <= m THEN x[i] ELSE y[i - m]
  BY <1>3, <1>5
<1>7. ASSUME NEW i \in 1..m + n PROVE z[i] = w[i]
  <2>1. z[i] = f[c[i]]
    BY <1>2, <1>4
  <2>2. CASE i <= m
    <3>1. i \in 1..m
      BY <1>1, <2>2
    <3> QED
      BY <1>2, <1>3, <1>6, <2>1, <2>2, <3>1
  <2>3. CASE ~(i <= m)
    <3>1. i - m \in 1..n
      BY <1>1, <2>3
    <3> QED
      BY <1>2, <1>3, <1>6, <2>1, <2>3, <3>1
  <2> QED
    BY <2>2, <2>3
<1>8. Len(z) = Len(w) /\ \A i \in 1..Len(z) : z[i] = w[i]
  BY <1>2, <1>4, <1>6, <1>7
<1>9. z = w
  BY ONLY <1>4, <1>5, <1>8, SeqEqual
<1> QED
  BY <1>9 DEF z, w, x, y, c

LEMMA ImageOne ==
  ASSUME NEW f, NEW x
  PROVE  Image(f, <<x>>) = <<f[x]>>
BY DEF Image

LEMMA ImageAppend ==
  ASSUME NEW S, NEW R, NEW f, Mapping(f, S, R), NEW a \in Seq(S), NEW e \in S
  PROVE  /\ Image(f, Append(a, e)) = Append(Image(f, a), f[e])
         /\ Image(f, a) \in Seq(R) /\ f[e] \in R
<1> DEFINE one == <<e>>
           u == Image(f, a)
           v == f[e]
<1>1. one \in Seq(S) /\ Image(f, one) = <<v>> /\ Append(a, e) = a \o one
  BY ImageOne, AppendIsConcat
<1>2. u \in Seq(R)
  BY ImageTyped
<1>3. v \in R
  BY DEF Mapping
<1> HIDE DEF one
<1>4. Image(f, a \o one) = u \o Image(f, one)
  <2>1. Mapping(f, S, R) /\ a \in Seq(S) /\ one \in Seq(S)
    BY <1>1
  <2> HIDE DEF v
  <2>2. Image(f, a \o one) = Image(f, a) \o Image(f, one)
    BY ONLY <2>1, ImageConcat
  <2> QED
    BY <2>2
<1> HIDE DEF u, v
<1>5. Append(u, v) = u \o <<v>>
  BY ONLY <1>2, <1>3, AppendIsConcat
<1> QED
  BY <1>1, <1>2, <1>3, <1>4, <1>5 DEF u, v

-----------------------------------------------------------------------------
\* Texts that are split at a character, and where a character is.

\* Which character a digit has: the j-th of one of the three rows, or one of two.
InRow(A, s, k, n, i) == \E j \in 1..n : i = k + j /\ A[i] = s[j]

LEMMA AlphabetParts ==
  ASSUME NEW S, NEW N, NEW U, NEW L, NEW E,
         OfLength(N, S, 10), OfLength(U, S, 26), OfLength(L, S, 26), OfLength(E, S, 2)
  PROVE  LET A == N \o U \o L \o E IN
         /\ OfLength(A, S, 64)
         /\ \A i \in 1..64 : InRow(A, N, 0, 10, i) \/ InRow(A, U, 10, 26, i)
                               \/ InRow(A, L, 36, 26, i) \/ InRow(A, E, 62, 2, i)
<1> DEFINE NU == N \o U
           NUL == NU \o L
           A == NUL \o E
<1>0. /\ 10 \in Nat /\ 26 \in Nat /\ 36 \in Nat /\ 62 \in Nat /\ 2 \in Nat
      /\ 36 = 10 + 26 /\ 62 = 36 + 26 /\ 64 = 62 + 2
  OBVIOUS
<1>a. OfLength(N, S, 10) /\ OfLength(U, S, 26) /\ OfLength(L, S, 26) /\ OfLength(E, S, 2)
  OBVIOUS
<1>1. OfLength(NU, S, 36) /\ Concatenates(NU, N, 10, U, 26)
  <2>1. OfLength(NU, S, 10 + 26) /\ Concatenates(NU, N, 10, U, 26)
    BY ONLY <1>0, <1>a, ConcatAt
  <2> QED
    BY ONLY <1>0, <2>1
<1> HIDE DEF NU
<1>2. OfLength(NUL, S, 62) /\ Concatenates(NUL, NU, 36, L, 26)
  <2>1. OfLength(NUL, S, 36 + 26) /\ Concatenates(NUL, NU, 36, L, 26)
    BY ONLY <1>0, <1>a, <1>1, ConcatAt
  <2> QED
    BY ONLY <1>0, <2>1
<1> HIDE DEF NUL
<1>3. OfLength(A, S, 64) /\ Concatenates(A, NUL, 62, E, 2)
  <2>1. OfLength(A, S, 62 + 2) /\ Concatenates(A, NUL, 62, E, 2)
    BY ONLY <1>0, <1>a, <1>2, ConcatAt
  <2> QED
    BY ONLY <1>0, <2>1
<1> HIDE DEF A
<1>4. ASSUME NEW i \in 1..10 PROVE InRow(A, N, 0, 10, i)
  <2>1. i \in 1..36 /\ i \in 1..62 /\ i = 0 + i
    BY ONLY i \in 1..10
  <2>2. A[i] = N[i]
    BY ONLY <1>1, <1>2, <1>3, <2>1, i \in 1..10 DEF Concatenates
  <2> QED
    BY ONLY <2>1, <2>2, i \in 1..10 DEF InRow
<1>5. ASSUME NEW i \in 11..36 PROVE InRow(A, U, 10, 26, i)
  <2>1. PICK j \in 1..26 : i = 10 + j
    <3>1. i - 10 \in 1..26 /\ i = 10 + (i - 10)
      BY ONLY i \in 11..36
    <3> QED
      BY ONLY <3>1
  <2>2. i \in 1..36 /\ i \in 1..62
    BY ONLY i \in 11..36
  <2>3. A[i] = U[j]
    <3>1. A[i] = NUL[i] /\ NUL[i] = NU[i]
      BY ONLY <1>2, <1>3, <2>2 DEF Concatenates
    <3>2. NU[i] = U[j]
      BY ONLY <1>1, <2>1 DEF Concatenates
    <3> QED
      BY <3>1, <3>2
  <2> QED
    BY ONLY <2>1, <2>3 DEF InRow
<1>6. ASSUME NEW i \in 37..62 PROVE InRow(A, L, 36, 26, i)
  <2>1. PICK j \in 1..26 : i = 36 + j
    <3>1. i - 36 \in 1..26 /\ i = 36 + (i - 36)
      BY ONLY i \in 37..62
    <3> QED
      BY ONLY <3>1
  <2>2. i \in 1..62
    BY ONLY i \in 37..62
  <2>3. A[i] = L[j]
    BY ONLY <1>2, <1>3, <2>1, <2>2 DEF Concatenates
  <2> QED
    BY ONLY <2>1, <2>3 DEF InRow
<1>7. ASSUME NEW i \in 63..64 PROVE InRow(A, E, 62, 2, i)
  <2>1. PICK j \in 1..2 : i = 62 + j
    <3>1. i - 62 \in 1..2 /\ i = 62 + (i - 62)
      BY ONLY i \in 63..64
    <3> QED
      BY ONLY <3>1
  <2>2. A[i] = E[j]
    BY ONLY <1>3, <2>1 DEF Concatenates
  <2> QED
    BY ONLY <2>1, <2>2 DEF InRow
<1>8. \A i \in 1..64 : i \in 1..10 \/ i \in 11..36 \/ i \in 37..62 \/ i \in 63..64
  BY ONLY TRUE
<1>9. \A i \in 1..64 : InRow(A, N, 0, 10, i) \/ InRow(A, U, 10, 26, i)
                         \/ InRow(A, L, 36, 26, i) \/ InRow(A, E, 62, 2, i)
  BY ONLY <1>4, <1>5, <1>6, <1>7, <1>8
<1> QED
  BY <1>3, <1>9 DEF A, NUL, NU

\* No element of s is c.
Lacks(s, c) == \A i \in 1..Len(s) : s[i] # c

\* s is a up to its first c, which is in front of b.
Splits(s, a, c, b, S) ==
  a \in Seq(S) /\ b \in Seq(S) /\ c \in S /\ Lacks(a, c) /\ s = a \o <<c>> \o b

LEMMA SplitFacts ==
  ASSUME NEW S, NEW a, NEW b, NEW c, NEW s, Splits(s, a, c, b, S)
  PROVE  /\ s \in Seq(S) /\ Len(s) = Len(a) + 1 + Len(b) /\ Len(a) \in Nat /\ Len(b) \in Nat
         /\ \A i \in 1..Len(a) : s[i] = a[i] /\ s[i] # c
         /\ s[Len(a) + 1] = c
         /\ \A i \in 1..Len(b) : s[Len(a) + 1 + i] = b[i]
<1>1. /\ a \in Seq(S) /\ b \in Seq(S) /\ c \in S /\ Lacks(a, c)
      /\ s = (a \o <<c>>) \o b
  BY DEF Splits
<1> DEFINE l == Len(a)
           m == Len(b)
           one == <<c>>
           u == a \o one
<1>2. l \in Nat /\ m \in Nat /\ 1 \in Nat
  BY <1>1, LenProperties
<1>3. OfLength(a, S, l) /\ OfLength(b, S, m)
  BY <1>1 DEF OfLength
<1>4. OfLength(one, S, 1) /\ one[1] = c
  BY <1>1 DEF OfLength
<1> HIDE DEF l, m, one
<1>5. OfLength(u, S, l + 1) /\ Concatenates(u, a, l, one, 1)
  BY ONLY <1>2, <1>3, <1>4, ConcatAt
<1>6. s = u \o b /\ l + 1 \in Nat
  BY <1>1, <1>2 DEF one
<1> HIDE DEF u
<1>7. OfLength(s, S, (l + 1) + m) /\ Concatenates(s, u, l + 1, b, m)
  <2>1. OfLength(u \o b, S, (l + 1) + m) /\ Concatenates(u \o b, u, l + 1, b, m)
    BY ONLY <1>2, <1>3, <1>5, <1>6, ConcatAt
  <2> QED
    BY ONLY <1>6, <2>1
<1>8. ASSUME NEW i \in 1..l PROVE s[i] = a[i] /\ s[i] # c
  <2>1. i \in 1..l + 1
    BY <1>2
  <2>2. s[i] = u[i] /\ u[i] = a[i]
    BY ONLY <1>5, <1>7, <2>1, i \in 1..l DEF Concatenates
  <2>3. a[i] # c
    BY <1>1 DEF Lacks, l
  <2> QED
    BY <2>2, <2>3
<1>9. s[l + 1] = c
  <2>1. l + 1 \in 1..l + 1 /\ 1 \in 1..1
    BY <1>2
  <2>2. s[l + 1] = u[l + 1] /\ u[l + 1] = one[1]
    BY ONLY <1>5, <1>7, <2>1 DEF Concatenates
  <2> QED
    BY <1>4, <2>2
<1>10. \A i \in 1..m : s[l + 1 + i] = b[i]
  BY <1>7 DEF Concatenates
<1>11. s \in Seq(S) /\ Len(s) = l + 1 + m
  BY <1>7 DEF OfLength
<1> QED
  BY <1>2, <1>8, <1>9, <1>10, <1>11 DEF l, m

\* There is only one place to split.
LEMMA SplitOnce ==
  ASSUME NEW S, NEW s, NEW c, NEW a, NEW b, NEW x, NEW y,
         Splits(s, a, c, b, S), Splits(s, x, c, y, S)
  PROVE  a = x /\ b = y
<1> DEFINE l == Len(a)
           m == Len(b)
           k == Len(x)
           n == Len(y)
<1>1. /\ l \in Nat /\ m \in Nat /\ Len(s) = l + 1 + m
      /\ \A i \in 1..l : s[i] = a[i] /\ s[i] # c
      /\ s[l + 1] = c
      /\ \A i \in 1..m : s[l + 1 + i] = b[i]
  BY SplitFacts
<1>2. /\ k \in Nat /\ n \in Nat /\ Len(s) = k + 1 + n
      /\ \A i \in 1..k : s[i] = x[i] /\ s[i] # c
      /\ s[k + 1] = c
      /\ \A i \in 1..n : s[k + 1 + i] = y[i]
  BY SplitFacts
<1>3. a \in Seq(S) /\ b \in Seq(S) /\ x \in Seq(S) /\ y \in Seq(S)
  BY DEF Splits
<1> DEFINE z == Len(s)
<1> HIDE DEF l, m, k, n, z
<1>4. l = k
  <2>1. CASE l < k
    <3>1. l + 1 \in 1..k
      BY <1>1, <1>2, <2>1
    <3> QED
      BY <1>1, <1>2, <3>1
  <2>2. CASE k < l
    <3>1. k + 1 \in 1..l
      BY <1>1, <1>2, <2>2
    <3> QED
      BY <1>1, <1>2, <3>1
  <2> QED
    BY <1>1, <1>2, <2>1, <2>2
<1>5. m = n
  BY <1>1, <1>2, <1>4 DEF z
<1>6. Len(a) = Len(x) /\ \A i \in 1..Len(a) : a[i] = x[i]
  BY <1>1, <1>2, <1>4 DEF l, k
<1>7. Len(b) = Len(y) /\ \A i \in 1..Len(b) : b[i] = y[i]
  BY <1>1, <1>2, <1>4, <1>5 DEF m, n
<1> QED
  BY <1>3, <1>6, <1>7, SeqEqual

\* What is split is not without its separator.
LEMMA SplitHas ==
  ASSUME NEW S, NEW s, NEW c, NEW a, NEW b, Splits(s, a, c, b, S)
  PROVE  ~Lacks(s, c)
<1>1. Len(a) + 1 \in 1..Len(s) /\ s[Len(a) + 1] = c
  BY SplitFacts
<1> QED
  BY <1>1 DEF Lacks

LEMMA OneMore ==
  /\ \A x \in 0..63 : x + 1 \in 1..64
  /\ \A x, y \in 0..63 : x + 1 = y + 1 => x = y
OBVIOUS

First(T) == CHOOSE x \in T : \A y \in T : x <= y

LEMMA FirstIs ==
  ASSUME NEW T \in SUBSET Nat, NEW i \in T, \A j \in T : i <= j
  PROVE  First(T) = i
<1>1. First(T) \in T /\ \A y \in T : First(T) <= y
  BY DEF First
<1> DEFINE m == First(T)
<1>2. m \in Nat /\ i \in Nat /\ m <= i /\ i <= m
  BY <1>1
<1> HIDE DEF m
<1>3. m = i
  BY <1>2
<1> QED
  BY <1>3 DEF m

LEMMA FirstIn ==
  ASSUME NEW T \in SUBSET Nat, T # {}
  PROVE  First(T) \in T /\ \A y \in T : First(T) <= y
BY SmallestNumber DEF First

Places(s, c) == {i \in 1..Len(s) : s[i] = c}

IndexOf(s, c) == IF Places(s, c) # {} THEN First(Places(s, c)) ELSE 0

LEMMA IndexTyped ==
  ASSUME NEW S, NEW s \in Seq(S), NEW c
  PROVE  IndexOf(s, c) \in 0..Len(s)
<1>1. Len(s) \in Nat /\ Places(s, c) \in SUBSET Nat /\ Places(s, c) \subseteq 1..Len(s)
  BY LenProperties DEF Places
<1>2. CASE Places(s, c) = {}
  BY <1>1, <1>2 DEF IndexOf
<1>3. CASE Places(s, c) # {}
  <2>1. First(Places(s, c)) \in Places(s, c)
    BY <1>1, <1>3, FirstIn
  <2> QED
    BY <1>1, <1>3, <2>1 DEF IndexOf
<1> QED
  BY <1>2, <1>3

LEMMA IndexFirst ==
  ASSUME NEW S, NEW s \in Seq(S), NEW c, NEW i \in 1..Len(s), s[i] = c,
         \A j \in 1..i - 1 : s[j] # c
  PROVE  IndexOf(s, c) = i
<1> DEFINE T == Places(s, c)
<1>1. Len(s) \in Nat /\ T \in SUBSET Nat /\ i \in T
  BY LenProperties DEF Places
<1>2. ASSUME NEW j \in T PROVE i <= j
  <2>1. j \in 1..Len(s) /\ s[j] = c
    BY DEF Places
  <2>2. CASE j < i
    <3>1. j \in 1..i - 1
      BY <1>1, <2>1, <2>2
    <3> QED
      BY <2>1, <3>1
  <2> QED
    BY <1>1, <2>1, <2>2
<1> HIDE DEF T
<1>3. First(T) = i /\ T # {}
  BY <1>1, <1>2, FirstIs
<1> QED
  BY <1>3 DEF IndexOf, T

LEMMA IndexNone ==
  ASSUME NEW s, NEW c, Lacks(s, c)
  PROVE  IndexOf(s, c) = 0
BY DEF Lacks, IndexOf, Places

LEMMA IndexSplit ==
  ASSUME NEW S, NEW s, NEW c, NEW a, NEW b, Splits(s, a, c, b, S)
  PROVE  IndexOf(s, c) = Len(a) + 1
<1>1. /\ s \in Seq(S) /\ Len(s) = Len(a) + 1 + Len(b) /\ Len(a) \in Nat /\ Len(b) \in Nat
      /\ \A i \in 1..Len(a) : s[i] # c
      /\ s[Len(a) + 1] = c
  BY SplitFacts
<1>2. Len(a) + 1 \in 1..Len(s) /\ (Len(a) + 1) - 1 = Len(a)
  BY <1>1
<1> QED
  BY ONLY <1>1, <1>2, IndexFirst

\* In a list without repetitions everything is found where it is.
LEMMA FoundWhere ==
  ASSUME NEW s, NEW n \in Nat, Len(s) = n, \A i, j \in 1..n : s[i] = s[j] => i = j,
         NEW i \in 1..n
  PROVE  IndexOf(s, s[i]) = i
<1> DEFINE T == Places(s, s[i])
<1>1. T = {i}
  BY DEF Places
<1> HIDE DEF T
<1>2. T \in SUBSET Nat /\ i \in T /\ \A j \in T : i <= j
  BY <1>1
<1>3. First(T) = i
  BY <1>2, FirstIs
<1> QED
  BY <1>1, <1>3 DEF IndexOf, T

LEMMA PrefixIs ==
  ASSUME NEW S, NEW d \in Seq(S), NEW a \in Seq(S), Len(a) <= Len(d),
         \A k \in 1..Len(a) : d[k] = a[k]
  PROVE  SubSeq(d, 1, Len(a)) = a
<1> DEFINE n == Len(a)
           s == SubSeq(d, 1, n)
<1>1. n \in Nat /\ Len(d) \in Nat
  BY LenProperties
<1>2. \A i \in 1..n : d[i] \in S
  BY ElementOfSeq
<1>3. \A i \in 1..n : d[i] = a[i]
  OBVIOUS
<1> HIDE DEF n
<1>4. /\ s \in Seq(S) /\ Len(s) = IF 1 <= n THEN n - 1 + 1 ELSE 0
      /\ \A i \in 1..n - 1 + 1 : s[i] = d[1 + i - 1]
  BY <1>1, <1>2, SubSeqProperties
<1> HIDE DEF s
<1>5. Len(s) = n
  BY <1>1, <1>4
<1>6. ASSUME NEW i \in 1..n PROVE s[i] = a[i]
  <2>1. i \in 1..n - 1 + 1 /\ 1 + i - 1 = i
    BY <1>1
  <2> QED
    BY <1>3, <1>4, <2>1
<1>7. s = a
  BY <1>5, <1>6, <1>4, SeqEqual DEF n
<1> QED
  BY <1>7 DEF s, n

LEMMA NumberTypedOf ==
  ASSUME NEW b \in Base, NEW s \in Seq(Nat)
  PROVE  NumberOf(s, b) \in Nat
<1> DEFINE T == {x \in Seq(Nat) : NumberOf(x, b) \in Nat}
<1>1. <<>> \in T
  BY NumberOfEmpty, EmptySeq
<1>2. ASSUME NEW x \in T, NEW d \in Nat PROVE Append(x, d) \in T
  <2>1. x \in Seq(Nat) /\ NumberOf(x, b) \in Nat
    OBVIOUS
  <2>2. Append(x, d) \in Seq(Nat)
    BY <2>1, AppendProperties
  <2>3. NumberOf(Append(x, d), b) = NumberOf(x, b) * b + d
    BY <2>1, NumberOfAppend
  <2>4. More(NumberOf(x, b), b, d) \in Nat
    BY <2>1, MoreNat
  <2> QED
    BY <2>2, <2>3, <2>4 DEF More
<1>3. T = Seq(Nat)
  <2>1. T \in SUBSET Seq(Nat)
    OBVIOUS
  <2> HIDE DEF T
  <2> QED
    BY ONLY <1>1, <1>2, <2>1, SequenceInduction
<1> QED
  BY <1>3

\* The number of a text is not below the last of its characters.
LEMMA NumberAtLeast ==
  ASSUME NEW s \in Seq(Nat), s # <<>>, NEW m \in Nat, \A i \in 1..Len(s) : s[i] >= m
  PROVE  NumberOf(s, 10) \in Nat /\ NumberOf(s, 10) >= m
<1>1. PICK t \in Seq(Nat), e \in Nat : s = Append(t, e)
  BY SequenceEmptyOrAppend
<1>2. Len(t) \in Nat /\ Len(s) = Len(t) + 1 /\ s[Len(t) + 1] = e
  BY <1>1, AppendProperties, LenProperties
<1>3. e >= m
  <2>1. Len(t) + 1 \in 1..Len(s)
    BY <1>2
  <2> QED
    BY <1>2, <2>1
<1>4. 10 \in Base
  BY DEF Base
<1>5. NumberOf(t, 10) \in Nat
  BY <1>4, NumberTypedOf
<1>6. NumberOf(s, 10) = NumberOf(t, 10) * 10 + e
  BY <1>1, <1>4, NumberOfAppend
<1> DEFINE v == NumberOf(t, 10)
<1> HIDE DEF v
<1>7. NumberOf(s, 10) = v * 10 + e /\ v \in Nat
  BY <1>5, <1>6 DEF v
<1> QED
  BY <1>3, <1>7

-----------------------------------------------------------------------------
\* Rising sequences of numbers up to n: nothing is repeated or overtaken.

Rising(s, n) ==
  /\ \A i, j \in 1..Len(s) : i < j => s[i] < s[j]
  /\ \A i \in 1..Len(s) : s[i] <= n

LEMMA RisingAppend ==
  ASSUME NEW s \in Seq(Nat), NEW n \in Nat, Rising(s, n)
  PROVE  Rising(Append(s, n + 1), n + 1)
<1> DEFINE t == Append(s, n + 1)
<1>1. /\ Len(s) \in Nat /\ Len(t) = Len(s) + 1 /\ t[Len(s) + 1] = n + 1
      /\ \A i \in 1..Len(s) : t[i] = s[i] /\ s[i] \in Nat
  OBVIOUS
<1> HIDE DEF t
<1>2. ASSUME NEW i \in 1..Len(t)
      PROVE  t[i] <= n + 1 /\ (i # Len(s) + 1 => t[i] < n + 1)
  <2>1. CASE i = Len(s) + 1
    BY <1>1, <2>1
  <2>2. CASE i \in 1..Len(s)
    BY <1>1, <2>2 DEF Rising
  <2> QED
    BY <1>1, <2>1, <2>2
<1>3. ASSUME NEW i \in 1..Len(t), NEW j \in 1..Len(t), i < j PROVE t[i] < t[j]
  <2>1. i \in 1..Len(s) /\ i # Len(s) + 1
    BY <1>1, <1>3
  <2>2. CASE j = Len(s) + 1
    BY <1>1, <1>2, <2>1, <2>2
  <2>3. CASE j \in 1..Len(s)
    BY <1>1, <1>3, <2>1, <2>3 DEF Rising
  <2> QED
    BY <1>1, <2>2, <2>3
<1> QED
  BY <1>2, <1>3 DEF Rising, t

\* Each still holds when a part in the middle, or the end, is gone.
LEMMA RisingDrop ==
  ASSUME NEW a \in Seq(Nat), NEW b \in Seq(Nat), NEW c \in Seq(Nat), NEW n,
         Rising(a \o b \o c, n)
  PROVE  Rising(a \o c, n)
<1> DEFINE s == a \o b \o c
           t == a \o c
           at(i) == IF i <= Len(a) THEN i ELSE i + Len(b)
<1>1. Len(a) \in Nat /\ Len(b) \in Nat /\ Len(c) \in Nat
  BY LenProperties
<1>2. Len(t) = Len(a) + Len(c) /\ Len(s) = Len(a) + Len(b) + Len(c)
  OBVIOUS
<1>3. ASSUME NEW i \in 1..Len(t)
      PROVE  at(i) \in 1..Len(s) /\ t[i] = s[at(i)]
  <2>1. at(i) \in 1..Len(s)
    BY <1>1, <1>2
  <2>2. CASE i <= Len(a)
    <3>1. t[i] = a[i] /\ s[i] = (a \o b)[i] /\ (a \o b)[i] = a[i]
      BY <2>2, <1>1, <1>2
    <3> QED
      BY <2>1, <2>2, <3>1
  <2>3. CASE ~(i <= Len(a))
    <3>1. t[i] = c[i - Len(a)]
      BY <2>3, <1>1, <1>2
    <3>2. s[i + Len(b)] = c[i + Len(b) - (Len(a) + Len(b))]
      BY <2>3, <1>1, <1>2
    <3> QED
      BY <2>1, <2>3, <3>1, <3>2, <1>1
  <2> QED
    BY <2>2, <2>3
<1>4. \A i, j \in 1..Len(t) : i < j => at(i) < at(j)
  BY <1>1, <1>2
<1> HIDE DEF s, t, at
<1>5. Rising(s, n)
  BY DEF s
<1>6. Rising(t, n)
  BY <1>3, <1>4, <1>5 DEF Rising
<1> QED
  BY <1>6 DEF t

\* All the numbers up to n, and one more.
LEMMA UpToAppend ==
  ASSUME NEW n \in Nat
  PROVE  /\ [i \in 1..n |-> i] \in Seq(Nat)
         /\ Append([i \in 1..n |-> i], n + 1) = [i \in 1..n + 1 |-> i]
<1> DEFINE s == [i \in 1..n |-> i]
           t == [i \in 1..n + 1 |-> i]
<1>1. s \in Seq(Nat) /\ Len(s) = n /\ t \in Seq(Nat) /\ Len(t) = n + 1
  OBVIOUS
<1>2. \A i \in 1..n + 1 : Append(s, n + 1)[i] = t[i]
  BY <1>1, AppendProperties
<1>3. Append(s, n + 1) \in Seq(Nat) /\ Len(Append(s, n + 1)) = n + 1
  BY <1>1, AppendProperties
<1> HIDE DEF s, t
<1>4. Append(s, n + 1) = t
  BY <1>1, <1>2, <1>3, SeqEqual
<1> QED
  BY <1>1, <1>4 DEF s, t

-----------------------------------------------------------------------------
\* The maps of an Adapter.

LEMMA NoKeysEmpty == DOMAIN NoKeys = {}
BY DEF NoKeys

\* A map belongs to Maps(K, V) when its keys are in K and its rows within V.
LEMMA MapsMember ==
  ASSUME NEW K, NEW V, NEW D \in SUBSET K, NEW m \in [D -> SUBSET V]
  PROVE  m \in Maps(K, V)
BY DEF Maps

LEMMA MapsRow ==
  ASSUME NEW K, NEW V, NEW m \in Maps(K, V)
  PROVE  /\ DOMAIN m \subseteq K
         /\ m \in [DOMAIN m -> SUBSET V]
         /\ \A x : Row(m, x) \subseteq V
BY DEF Maps, Row

\* Put adds v to the row of k, leaves every other row as it was, and makes
\* no row empty (Adapter::Add).
LEMMA PutRow ==
  ASSUME NEW m, NEW k, NEW v
  PROVE  /\ \A x : Row(Put(m, k, v), x) =
                     IF x = k THEN Row(m, k) \cup {v} ELSE Row(m, x)
         /\ (\A x \in DOMAIN m : m[x] # {}) =>
              \A x \in DOMAIN Put(m, k, v) : Put(m, k, v)[x] # {}
BY DEF Put, Row

LEMMA PutMap ==
  ASSUME NEW K, NEW V, NEW m \in Maps(K, V), NEW k \in K, NEW v \in V
  PROVE  Put(m, k, v) \in Maps(K, V)
<1> DEFINE D == DOMAIN m \cup {k}
<1>1. /\ DOMAIN m \subseteq K
      /\ m \in [DOMAIN m -> SUBSET V]
      /\ Row(m, k) \subseteq V
  BY MapsRow
<1>2. D \in SUBSET K
  BY <1>1
<1>3. Put(m, k, v) \in [D -> SUBSET V]
  BY <1>1 DEF Put
<1> QED
  BY <1>2, <1>3, MapsMember

\* Take removes v from the row of k, drops the row when nothing is left of
\* it, and leaves every other row as it was (Adapter::Del).
LEMMA TakeRow ==
  ASSUME NEW m, NEW k, NEW v
  PROVE  /\ \A x : Row(Take(m, k, v), x) =
                     IF x = k THEN Row(m, k) \ {v} ELSE Row(m, x)
         /\ (\A x \in DOMAIN m : m[x] # {}) =>
              \A x \in DOMAIN Take(m, k, v) : Take(m, k, v)[x] # {}
BY DEF Take, Row

LEMMA TakeMap ==
  ASSUME NEW K, NEW V, NEW m \in Maps(K, V), NEW k \in K, NEW v \in V
  PROVE  Take(m, k, v) \in Maps(K, V)
<1> DEFINE D == IF Row(m, k) \ {v} = {} THEN DOMAIN m \ {k}
                                       ELSE DOMAIN m \cup {k}
<1>1. /\ DOMAIN m \subseteq K
      /\ m \in [DOMAIN m -> SUBSET V]
      /\ Row(m, k) \subseteq V
  BY MapsRow
<1>2. D \in SUBSET K
  BY <1>1
<1>3. Take(m, k, v) \in [D -> SUBSET V]
  BY <1>1 DEF Take
<1> QED
  BY <1>2, <1>3, MapsMember

-----------------------------------------------------------------------------
\* Both maps of a new Adapter are empty.
LEMMA NewAdapterTyped ==
  ASSUME NEW K, NEW R
  PROVE  /\ NewAdapter \in Adapters(K, R)
         /\ \A x : Row(NewAdapter.rooms, x) = {}
<1>1. NoKeys \in [{} -> SUBSET R] /\ NoKeys \in [{} -> SUBSET K]
  BY DEF NoKeys
<1>2. NoKeys \in Maps(K, R) /\ NoKeys \in Maps(R, K)
  BY <1>1, MapsMember
<1>3. \A x : Row(NoKeys, x) = {}
  BY NoKeysEmpty DEF Row
<1> QED
  BY <1>2, <1>3 DEF NewAdapter, Adapters

\* Adapter::Add and Adapter::Del keep the type, and change one row of rooms_.
LEMMA AddedRooms ==
  ASSUME NEW K, NEW R, NEW a \in Adapters(K, R), NEW i \in K, NEW r \in R
  PROVE  /\ Added(a, i, r) \in Adapters(K, R)
         /\ \A x : Row(Added(a, i, r).rooms, x) =
                     IF x = r THEN Row(a.rooms, r) \cup {i} ELSE Row(a.rooms, x)
<1>1. a.sids \in Maps(K, R) /\ a.rooms \in Maps(R, K)
  BY DEF Adapters
<1>2. Put(a.sids, i, r) \in Maps(K, R) /\ Put(a.rooms, r, i) \in Maps(R, K)
  BY <1>1, PutMap
<1>3. \A x : Row(Put(a.rooms, r, i), x) =
              IF x = r THEN Row(a.rooms, r) \cup {i} ELSE Row(a.rooms, x)
  BY PutRow
<1> QED
  BY <1>2, <1>3 DEF Added, Adapters

LEMMA DeletedAdapter ==
  ASSUME NEW K, NEW R, NEW a \in Adapters(K, R), NEW i \in K, NEW r \in R
  PROVE  Deleted(a, i, r) \in Adapters(K, R)
<1>1. a.sids \in Maps(K, R) /\ a.rooms \in Maps(R, K)
  BY DEF Adapters
<1>2. Take(a.sids, i, r) \in Maps(K, R) /\ Take(a.rooms, r, i) \in Maps(R, K)
  BY <1>1, TakeMap
<1> QED
  BY <1>2 DEF Deleted, Adapters

LEMMA DeletedRooms ==
  ASSUME NEW a, NEW i, NEW r
  PROVE  \A x, y : y \in Row(Deleted(a, i, r).rooms, x) <=>
                   y \in Row(a.rooms, x) /\ ~(x = r /\ y = i)
<1>1. Deleted(a, i, r).rooms = Take(a.rooms, r, i)
  BY DEF Deleted
<1>2. \A x : Row(Take(a.rooms, r, i), x) =
              IF x = r THEN Row(a.rooms, r) \ {i} ELSE Row(a.rooms, x)
  BY TakeRow
<1> QED
  BY <1>1, <1>2

-----------------------------------------------------------------------------
\* Sequences of sequences.

\* The sequences in ss, one after the other: FlattenSeq, of which every format
\* has an instance of its own.
Strung(ss) ==
  LET flat[i \in 0..Len(ss)] == IF i = 0 THEN <<>> ELSE flat[i - 1] \o ss[i]
  IN  flat[Len(ss)]

\* Its recursion.
Flattens(F, ss) == F = [i \in 0..Len(ss) |-> IF i = 0 THEN <<>> ELSE F[i - 1] \o ss[i]]

LEMMA FlattenSeqIs ==
  ASSUME NEW ss
  PROVE  Strung(ss) = (CHOOSE F : Flattens(F, ss))[Len(ss)]
BY DEF Strung, Flattens

LEMMA FlattensExist ==
  ASSUME NEW S, NEW ss \in Seq(Seq(S))
  PROVE  \E F : Flattens(F, ss)
<1> DEFINE n == Len(ss)
           V == Seq(S)
<1>1. n \in Nat /\ \A k \in 1..n : ss[k] \in V
  BY LenProperties, ElementOfSeq
<1>2. <<>> \in V /\ \A v, w \in V : v \o w \in V
  BY EmptySeq, ConcatProperties
<1> HIDE DEF V
<1> DEFINE st == [k \in 1..n |-> [v \in V |-> v \o ss[k]]]
<1> HIDE DEF n
<1>3. st \in [1..n -> [V -> V]]
  BY <1>1, <1>2
<1>4. \A k \in 1..n, v \in V : st[k][v] = v \o ss[k]
  OBVIOUS
<1> HIDE DEF st
<1>5. PICK F : Stages(F, V, <<>>, n, st)
  BY ONLY <1>1, <1>2, <1>3, Recursion
<1>6. /\ F \in [0..n -> V] /\ F[0] = <<>>
      /\ \A k \in 1..n : F[k] = st[k][F[k - 1]]
  BY <1>5 DEF Stages
<1>7. ASSUME NEW k \in 1..n PROVE F[k] = F[k - 1] \o ss[k]
  <2>1. F[k - 1] \in V
    <3>1. k - 1 \in 0..n
      BY <1>1
    <3> QED
      BY <1>6, <3>1
  <2> QED
    BY <1>4, <1>6, <2>1
<1>8. F = [i \in 0..n |-> IF i = 0 THEN <<>> ELSE F[i - 1] \o ss[i]]
  <2>1. F = [i \in 0..n |-> F[i]]
    BY <1>6
  <2>2. \A i \in 0..n : F[i] = IF i = 0 THEN <<>> ELSE F[i - 1] \o ss[i]
    <3>1. \A i \in 0..n : i = 0 \/ i \in 1..n
      BY <1>1
    <3> QED
      BY <1>6, <1>7, <3>1
  <2> QED
    BY ONLY <2>1, <2>2
<1> QED
  BY <1>8 DEF Flattens, n

LEMMA FlattenSeqSums ==
  ASSUME NEW S, NEW ss \in Seq(Seq(S))
  PROVE  \E F : /\ F[0] = <<>> /\ \A i \in 1..Len(ss) : F[i] = F[i - 1] \o ss[i]
                /\ Strung(ss) = F[Len(ss)]
<1> DEFINE G == CHOOSE F : Flattens(F, ss)
           n == Len(ss)
<1>1. Flattens(G, ss)
  BY FlattensExist
<1>2. Strung(ss) = G[n]
  BY FlattenSeqIs
<1>3. n \in Nat
  BY LenProperties
<1> HIDE DEF G
<1>4. \A i \in 0..n : G[i] = IF i = 0 THEN <<>> ELSE G[i - 1] \o ss[i]
  BY <1>1 DEF Flattens
<1> HIDE DEF n
<1>5. G[0] = <<>> /\ \A i \in 1..n : G[i] = G[i - 1] \o ss[i]
  <2>1. 0 \in 0..n /\ \A i \in 1..n : i \in 0..n /\ i # 0
    BY <1>3
  <2> QED
    BY ONLY <1>4, <2>1
<1> QED
  BY <1>2, <1>5 DEF n

LEMMA FlattenEmpty == Strung(<<>>) = <<>>
<1> DEFINE ss == <<>>
<1>1. ss \in Seq(Seq({})) /\ Len(ss) = 0
  BY EmptySeq
<1> HIDE DEF ss
<1>2. PICK F : F[0] = <<>> /\ Strung(ss) = F[Len(ss)]
  BY <1>1, FlattenSeqSums
<1> QED
  BY <1>1, <1>2 DEF ss

LEMMA FlattenAppend ==
  ASSUME NEW S, NEW ss \in Seq(Seq(S)), NEW s \in Seq(S)
  PROVE  Strung(Append(ss, s)) = Strung(ss) \o s
<1> DEFINE n == Len(ss)
           tt == Append(ss, s)
<1>1. /\ n \in Nat /\ tt \in Seq(Seq(S)) /\ Len(tt) = n + 1 /\ tt[n + 1] = s
      /\ \A i \in 1..n : tt[i] = ss[i]
  BY LenProperties, AppendProperties
<1> HIDE DEF tt
<1>2. PICK F : /\ F[0] = <<>> /\ \A i \in 1..n : F[i] = F[i - 1] \o ss[i]
               /\ Strung(ss) = F[n]
  BY FlattenSeqSums
<1>3. PICK G : /\ G[0] = <<>> /\ \A i \in 1..n + 1 : G[i] = G[i - 1] \o tt[i]
               /\ Strung(tt) = G[n + 1]
  BY <1>1, FlattenSeqSums
<1> HIDE DEF n
<1>4. \A k \in 1..n : G[k - 1] = F[k - 1] => G[k] = F[k]
  <2>1. \A i \in 1..n : i \in 1..n + 1
    BY <1>1
  <2> QED
    BY <1>1, <1>2, <1>3, <2>1
<1>5. G[n] = F[n]
  <2>1. G[0] = F[0]
    BY <1>2, <1>3
  <2>2. \A k \in 0..n : G[k] = F[k]
    <3>1. n \in Nat
      BY <1>1
    <3>2. Alike(G, F, n)
      BY <1>4, <2>1 DEF Alike
    <3> QED
      BY ONLY <3>1, <3>2, SameStages
  <2>3. n \in 0..n
    BY <1>1
  <2> QED
    BY <2>2, <2>3
<1>6. n + 1 \in 1..n + 1 /\ (n + 1) - 1 = n
  BY <1>1
<1>7. G[n + 1] = G[n] \o s
  BY <1>1, <1>3, <1>6
<1> QED
  BY <1>2, <1>3, <1>5, <1>7 DEF tt

LEMMA FlattenTyped ==
  ASSUME NEW S, NEW ss \in Seq(Seq(S))
  PROVE  Strung(ss) \in Seq(S)
<1> DEFINE T == {x \in Seq(Seq(S)) : Strung(x) \in Seq(S)}
<1>1. <<>> \in T
  BY FlattenEmpty, EmptySeq
<1>2. ASSUME NEW x \in T, NEW s \in Seq(S) PROVE Append(x, s) \in T
  <2>1. Append(x, s) \in Seq(Seq(S))
    BY AppendProperties
  <2>2. Strung(Append(x, s)) = Strung(x) \o s
    BY FlattenAppend
  <2>3. Strung(x) \o s \in Seq(S)
    BY ConcatProperties
  <2> QED
    BY <2>1, <2>2, <2>3
<1> DEFINE R == Seq(S)
<1>3. T \in SUBSET Seq(R)
  OBVIOUS
<1>4. T = Seq(R)
  <2> HIDE DEF T, R
  <2>1. <<>> \in T /\ \A x \in T, s \in R : Append(x, s) \in T
    BY <1>1, <1>2 DEF R
  <2> QED
    BY ONLY <1>3, <2>1, SequenceInduction
<1> QED
  BY <1>4

-----------------------------------------------------------------------------
\* Readers of what was written piece by piece.

\* F reads a text that starts with the w of a p as the g of p, and then the rest.
Reads(F, S, M, P, w, g) ==
  /\ \A d \in Seq(S) : F[d] \in Seq(M)
  /\ F[<<>>] = <<>>
  /\ Mapping(w, P, Seq(S)) /\ Mapping(g, P, M)
  /\ \A p \in P, r \in Seq(S) : F[w[p] \o r] = <<g[p]>> \o F[r]

LEMMA ReadsAll ==
  ASSUME NEW S, NEW M, NEW F, NEW P, NEW w, NEW g, Reads(F, S, M, P, w, g),
         NEW q \in Seq(P)
  PROVE  F[Strung(Image(w, q))] = Image(g, q)
<1>0. /\ \A d \in Seq(S) : F[d] \in Seq(M)
      /\ F[<<>>] = <<>>
      /\ Mapping(w, P, Seq(S)) /\ Mapping(g, P, M)
      /\ \A p \in P, r \in Seq(S) : F[w[p] \o r] = <<g[p]>> \o F[r]
  BY DEF Reads
<1> DEFINE Flattened(x) == Strung(Image(w, x))
           Good(x) == \A r \in Seq(S) : F[Flattened(x) \o r] = Image(g, x) \o F[r]
           T == {x \in Seq(P) : Good(x)}
<1>1. ASSUME NEW x \in Seq(P)
      PROVE  Flattened(x) \in Seq(S) /\ Image(g, x) \in Seq(M)
             /\ Image(w, x) \in Seq(Seq(S))
  BY <1>0, ImageTyped, FlattenTyped
<1>2. <<>> \in T
  <2>1. Image(w, <<>>) = <<>> /\ Image(g, <<>>) = <<>>
    BY ImageEmpty
  <2>2. Flattened(<<>>) = <<>>
    BY <2>1, FlattenEmpty
  <2>3. <<>> \in Seq(P)
    BY EmptySeq
  <2>4. ASSUME NEW r \in Seq(S) PROVE <<>> \o r = r /\ <<>> \o F[r] = F[r]
    BY <1>0, ConcatEmptySeq
  <2> QED
    BY <2>1, <2>2, <2>3, <2>4
<1>3. ASSUME NEW x \in T, NEW p \in P PROVE Append(x, p) \in T
  <2> DEFINE y == Append(x, p)
             a == Flattened(x)
             b == w[p]
             one == <<g[p]>>
             i == Image(g, x)
  <2>1. x \in Seq(P) /\ <<p>> \in Seq(P) /\ y \in Seq(P) /\ y = x \o <<p>>
    <3>1. x \in Seq(P)
      OBVIOUS
    <3> HIDE DEF T
    <3> QED
      BY <3>1, AppendProperties, AppendIsConcat
  <2>2. b \in Seq(S) /\ g[p] \in M /\ one \in Seq(M)
    <3>1. b \in Seq(S) /\ g[p] \in M
      BY <1>0 DEF Mapping
    <3> DEFINE e == g[p]
    <3>2. e \in M
      BY <3>1
    <3> HIDE DEF e
    <3>3. <<e>> \in Seq(M)
      BY <3>2
    <3> QED
      BY <3>1, <3>3 DEF e
  <2>4. Image(g, y) = i \o one
    <3>1. Image(g, y) = Append(i, g[p]) /\ i \in Seq(M) /\ g[p] \in M
      <4>1. Mapping(g, P, M) /\ x \in Seq(P) /\ p \in P
        BY <1>0, <2>1
      <4> QED
        BY ONLY <4>1, ImageAppend
    <3> HIDE DEF i, y
    <3> QED
      BY <3>1, AppendIsConcat
  <2>5. Flattened(y) = a \o b
    <3> DEFINE u == Image(w, x)
    <3>1. Image(w, y) = Append(u, b) /\ u \in Seq(Seq(S))
      <4>1. Mapping(w, P, Seq(S)) /\ x \in Seq(P) /\ p \in P
        BY <1>0, <2>1
      <4> QED
        BY ONLY <4>1, ImageAppend
    <3> HIDE DEF u
    <3>2. Strung(Append(u, b)) = Strung(u) \o b
      BY <2>2, <3>1, FlattenAppend
    <3> QED
      BY <3>1, <3>2 DEF u
  <2>6. a \in Seq(S) /\ i \in Seq(M)
    BY <1>1, <2>1
  <2>7. \A r \in Seq(S) : F[a \o r] = i \o F[r]
    OBVIOUS
  <2>8. \A r \in Seq(S) : F[b \o r] = one \o F[r]
    BY <1>0
  <2> HIDE DEF a, b, one, i, y, T
  <2>9. ASSUME NEW r \in Seq(S) PROVE F[(a \o b) \o r] = (i \o one) \o F[r]
    <3> DEFINE br == b \o r
               f == F[r]
    <3>1. br \in Seq(S) /\ f \in Seq(M)
      <4>1. br \in Seq(S)
        BY ONLY <2>2, r \in Seq(S), ConcatProperties
      <4> QED
        BY <1>0, <4>1
    <3>2. (a \o b) \o r = a \o br
      <4>1. Triple(S, a, b, r)
        BY <2>2, <2>6 DEF Triple
      <4> QED
        BY ONLY <4>1, Associate
    <3>3. (i \o one) \o f = i \o (one \o f)
      <4>1. Triple(M, i, one, f)
        BY <2>2, <2>6, <3>1 DEF Triple
      <4> HIDE DEF f
      <4> QED
        BY ONLY <4>1, Associate
    <3>4. F[br] = one \o f
      BY <2>8
    <3> HIDE DEF br, f
    <3>5. F[a \o br] = i \o F[br]
      BY <2>7, <3>1
    <3>6. F[a \o br] = (i \o one) \o f
      BY ONLY <3>3, <3>4, <3>5
    <3> QED
      BY ONLY <3>2, <3>6 DEF f
  <2> QED
    BY <2>1, <2>4, <2>5, <2>9 DEF T, y
<1>4. T = Seq(P)
  <2>1. T \in SUBSET Seq(P)
    OBVIOUS
  <2> HIDE DEF T
  <2> QED
    BY ONLY <1>2, <1>3, <2>1, SequenceInduction
<1>5. F[Flattened(q) \o <<>>] = Image(g, q) \o F[<<>>]
  <2>1. <<>> \in Seq(S)
    BY EmptySeq
  <2> QED
    BY <1>4, <2>1
<1>6. Flattened(q) \o <<>> = Flattened(q) /\ Image(g, q) \o <<>> = Image(g, q)
  BY <1>1, ConcatEmptySeq
<1> QED
  BY <1>0, <1>5, <1>6

LEMMA FlattenFirst ==
  ASSUME NEW S, NEW ss \in Seq(Seq(S)), ss # <<>>
  PROVE  \E r \in Seq(S) : Strung(ss) = ss[1] \o r
<1> DEFINE R == Seq(S)
           Good(x) == \E r \in Seq(S) : Strung(x) = x[1] \o r
           T == {x \in Seq(R) : x = <<>> \/ Good(x)}
<1>1. <<>> \in T
  BY EmptySeq
<1>2. ASSUME NEW x \in T, NEW s \in R PROVE Append(x, s) \in T
  <2> DEFINE y == Append(x, s)
  <2>0. x \in Seq(R) /\ (x = <<>> \/ Good(x))
    OBVIOUS
  <2>1. y \in Seq(R) /\ Len(x) \in Nat /\ Len(y) = Len(x) + 1 /\ y[Len(x) + 1] = s
        /\ \A i \in 1..Len(x) : y[i] = x[i]
    BY <2>0, AppendProperties, LenProperties
  <2>2. Strung(y) = Strung(x) \o s
    BY <2>0, FlattenAppend
  <2>3. CASE x = <<>>
    <3>1. y[1] = s
      BY <2>1, <2>3, EmptySeq
    <3>2. Strung(x) = <<>>
      BY <2>3, FlattenEmpty
    <3>3. <<>> \o s = s /\ s \o <<>> = s /\ <<>> \in Seq(S)
      BY ConcatEmptySeq, EmptySeq
    <3>4. Strung(y) = y[1] \o <<>>
      BY <2>2, <3>1, <3>2, <3>3
    <3> HIDE DEF y
    <3>5. Good(y)
      BY <3>3, <3>4
    <3> QED
      BY <2>1, <3>5 DEF y
  <2>4. CASE x # <<>>
    <3>1. PICK r \in Seq(S) : Strung(x) = x[1] \o r
      BY <2>0, <2>4
    <3>2. Len(x) # 0
      BY <2>0, <2>4, EmptySeq
    <3>3. 1 \in 1..Len(x)
      BY <2>1, <3>2
    <3>4. y[1] = x[1] /\ x[1] \in Seq(S)
      BY <2>0, <2>1, <3>3, ElementOfSeq
    <3> DEFINE a == x[1]
               rs == r \o s
    <3>5. rs \in Seq(S)
      <4>1. r \in Seq(S) /\ s \in Seq(S)
        OBVIOUS
      <4> QED
        BY ONLY <4>1, ConcatProperties
    <3>6. (a \o r) \o s = a \o rs
      <4>1. Triple(S, a, r, s)
        BY <3>4 DEF Triple
      <4> HIDE DEF a
      <4> QED
        BY ONLY <4>1, Associate
    <3> HIDE DEF y, rs
    <3>7. Strung(y) = y[1] \o rs
      BY <2>2, <3>1, <3>4, <3>6
    <3>8. Good(y)
      BY <3>5, <3>7
    <3> QED
      BY <2>1, <3>8 DEF y
  <2> QED
    BY <2>3, <2>4
<1>3. T = Seq(R)
  <2>1. T \in SUBSET Seq(R)
    OBVIOUS
  <2> HIDE DEF T, R
  <2> QED
    BY ONLY <1>1, <1>2, <2>1, SequenceInduction
<1>4. ss \in T
  BY <1>3
<1> QED
  BY <1>4

LEMMA FlattenConcat ==
  ASSUME NEW S, NEW a \in Seq(Seq(S)), NEW b \in Seq(Seq(S))
  PROVE  Strung(a \o b) = Strung(a) \o Strung(b)
<1> DEFINE R == Seq(S)
           f == Strung(a)
           T == {x \in Seq(R) : Strung(a \o x) = f \o Strung(x)}
<1>0. f \in Seq(S) /\ a \in Seq(R)
  BY FlattenTyped
<1>1. <<>> \in T
  <2>1. a \o <<>> = a /\ f \o <<>> = f /\ <<>> \in Seq(R)
    BY <1>0, ConcatEmptySeq, EmptySeq
  <2> QED
    BY <2>1, FlattenEmpty
<1>2. ASSUME NEW x \in T, NEW s \in R PROVE Append(x, s) \in T
  <2> DEFINE y == Append(x, s)
             g == Strung(x)
  <2>1. x \in Seq(R) /\ y \in Seq(R) /\ g \in Seq(S) /\ a \o x \in Seq(R)
    BY <1>0, FlattenTyped, AppendProperties, ConcatProperties
  <2>2. Strung(a \o x) = f \o g
    OBVIOUS
  <2>3. a \o y = Append(a \o x, s)
    BY <1>0, <2>1, ConcatAppend
  <2>4. Strung(y) = g \o s
    BY <2>1, FlattenAppend
  <2>5. Strung(Append(a \o x, s)) = Strung(a \o x) \o s
    BY <2>1, FlattenAppend
  <2>6. (f \o g) \o s = f \o (g \o s)
    <3>1. Triple(S, f, g, s)
      BY <1>0, <2>1 DEF Triple
    <3> HIDE DEF f, g
    <3> QED
      BY ONLY <3>1, Associate
  <2> HIDE DEF f, g, y, T
  <2>7. Strung(a \o y) = f \o Strung(y)
    BY ONLY <2>2, <2>3, <2>4, <2>5, <2>6
  <2> QED
    BY <2>1, <2>7 DEF T, f, y
<1> HIDE DEF T
<1>3. T = Seq(R)
  <2>1. T \in SUBSET Seq(R)
    BY DEF T
  <2> HIDE DEF R
  <2> QED
    BY ONLY <1>1, <1>2, <2>1, SequenceInduction
<1> QED
  BY <1>0, <1>3 DEF T

LEMMA FlattenOne ==
  ASSUME NEW S, NEW x \in Seq(S)
  PROVE  Strung(<<x>>) = x
<1>1. <<>> \in Seq(Seq(S)) /\ <<x>> = Append(<<>>, x)
  BY EmptySeq
<1>2. Strung(Append(<<>>, x)) = Strung(<<>>) \o x
  BY <1>1, FlattenAppend
<1> QED
  BY <1>1, <1>2, FlattenEmpty, ConcatEmptySeq

-----------------------------------------------------------------------------
\* Texts that are written symbol by symbol.

\* The text s, each c of which is written as w[c].
Spelled(w, s) == Strung(Image(w, s))

LEMMA WrittenTyped ==
  ASSUME NEW W, NEW S, NEW w, Mapping(w, W, Seq(S)), NEW s \in Seq(W)
  PROVE  Spelled(w, s) \in Seq(S)
<1>1. Image(w, s) \in Seq(Seq(S))
  BY ImageTyped
<1> QED
  BY <1>1, FlattenTyped DEF Spelled

LEMMA WrittenEmpty ==
  ASSUME NEW w
  PROVE  Spelled(w, <<>>) = <<>>
BY ImageEmpty, FlattenEmpty DEF Spelled

LEMMA WrittenConcat ==
  ASSUME NEW W, NEW S, NEW w, Mapping(w, W, Seq(S)), NEW s \in Seq(W), NEW t \in Seq(W)
  PROVE  Spelled(w, s \o t) = Spelled(w, s) \o Spelled(w, t)
<1> DEFINE R == Seq(S)
           i == Image(w, s)
           j == Image(w, t)
<1>1. Mapping(w, W, R) /\ s \in Seq(W) /\ t \in Seq(W)
  OBVIOUS
<1> HIDE DEF R
<1>2. Image(w, s \o t) = Image(w, s) \o Image(w, t)
  BY ONLY <1>1, ImageConcat
<1>3. i \in Seq(R) /\ j \in Seq(R)
  BY <1>1, ImageTyped
<1> HIDE DEF i, j
<1>4. Strung(i \o j) = Strung(i) \o Strung(j)
  BY <1>3, FlattenConcat DEF R
<1> QED
  BY <1>2, <1>4 DEF Spelled, i, j

LEMMA WrittenOne ==
  ASSUME NEW W, NEW S, NEW w, Mapping(w, W, Seq(S)), NEW c \in W
  PROVE  Spelled(w, <<c>>) = w[c] /\ w[c] \in Seq(S)
<1>1. w[c] \in Seq(S)
  BY DEF Mapping
<1>2. Image(w, <<c>>) = <<w[c]>>
  BY ImageOne
<1> DEFINE x == w[c]
<1> HIDE DEF x
<1>3. x \in Seq(S)
  BY <1>1 DEF x
<1>4. Strung(<<x>>) = x
  BY <1>3, FlattenOne
<1> QED
  BY <1>1, <1>2, <1>4 DEF Spelled, x

\* Two texts that start with the code of a character start with the same one.
PrefixCode(w, W, S) ==
  /\ Mapping(w, W, Seq(S))
  /\ \A c \in W : w[c] # <<>>
  /\ \A c, d \in W, x, y \in Seq(S) : w[c] \o x = w[d] \o y => c = d /\ x = y

\* Where a text that is not empty starts.
LEMMA FrontAndRest ==
  ASSUME NEW W, NEW s \in Seq(W), s # <<>>
  PROVE  \E c \in W, t \in Seq(W) : s = <<c>> \o t /\ Len(t) = Len(s) - 1
<1> DEFINE c == Head(s)
           t == Tail(s)
<1>1. c \in W /\ t \in Seq(W) /\ Len(t) = Len(s) - 1 /\ \A i \in 1..Len(t) : t[i] = s[i + 1]
  BY HeadTailProperties
<1>2. Len(s) \in Nat /\ Len(s) # 0 /\ c = s[1]
  BY EmptySeq, LenProperties
<1> HIDE DEF c, t
<1>3. s = <<c>> \o t
  <2> DEFINE one == <<c>>
             u == one \o t
             n == Len(t)
  <2>1. one \in Seq(W) /\ Len(one) = 1 /\ one[1] = c /\ n \in Nat /\ 1 \in Nat
    BY <1>1
  <2> HIDE DEF one, n
  <2>2. OfLength(u, W, 1 + n) /\ Concatenates(u, one, 1, t, n)
    <3>1. OfLength(one, W, 1) /\ OfLength(t, W, n)
      BY <1>1, <2>1 DEF OfLength, n
    <3> QED
      BY <2>1, <3>1, ConcatAt
  <2> HIDE DEF u
  <2>3. ASSUME NEW i \in 1..Len(s) PROVE s[i] = u[i]
    <3>1. CASE i = 1
      <4>1. 1 \in 1..1
        OBVIOUS
      <4> QED
        BY <1>2, <2>1, <2>2, <3>1, <4>1 DEF Concatenates
    <3>2. CASE i # 1
      <4>1. i - 1 \in 1..n /\ (i - 1) + 1 = i /\ 1 + (i - 1) = i
        BY <1>1, <1>2, <3>2 DEF n
      <4>2. u[1 + (i - 1)] = t[i - 1] /\ t[i - 1] = s[(i - 1) + 1]
        BY <1>1, <2>2, <4>1 DEF Concatenates, n
      <4> QED
        BY <4>1, <4>2
    <3> QED
      BY <3>1, <3>2
  <2>4. u \in Seq(W) /\ Len(s) = Len(u)
    BY <1>1, <1>2, <2>1, <2>2 DEF OfLength, n
  <2>5. s = u
    BY <2>3, <2>4, SeqEqual
  <2> QED
    BY <2>5 DEF u, one
<1> QED
  BY <1>1, <1>3

\* What is written in such a code can be read in one way only.
LEMMA WrittenOnce ==
  ASSUME NEW W, NEW S, NEW w, PrefixCode(w, W, S),
         NEW s \in Seq(W), NEW t \in Seq(W), Spelled(w, s) = Spelled(w, t)
  PROVE  s = t
<1>0. /\ Mapping(w, W, Seq(S))
      /\ \A c \in W : w[c] # <<>> /\ w[c] \in Seq(S)
      /\ \A c, d \in W, x, y \in Seq(S) : w[c] \o x = w[d] \o y => c = d /\ x = y
  BY DEF PrefixCode, Mapping
<1> DEFINE Good(x) == \A y \in Seq(W) : Spelled(w, x) = Spelled(w, y) => x = y
           L == {n \in Nat : \A x \in Seq(W) : Len(x) = n => Good(x)}
<1>1. ASSUME NEW c \in W, NEW x \in Seq(W)
      PROVE  /\ Spelled(w, <<c>> \o x) = w[c] \o Spelled(w, x)
             /\ Spelled(w, x) \in Seq(S) /\ Spelled(w, <<c>> \o x) # <<>>
  <2>1. <<c>> \in Seq(W)
    OBVIOUS
  <2>2. Spelled(w, <<c>> \o x) = Spelled(w, <<c>>) \o Spelled(w, x)
    <3> DEFINE one == <<c>>
    <3>1. Mapping(w, W, Seq(S)) /\ one \in Seq(W) /\ x \in Seq(W)
      BY <1>0, <2>1
    <3> HIDE DEF one
    <3>2. Spelled(w, one \o x) = Spelled(w, one) \o Spelled(w, x)
      BY ONLY <3>1, WrittenConcat
    <3> QED
      BY <3>2 DEF one
  <2>3. Spelled(w, <<c>>) = w[c]
    BY <1>0, WrittenOne
  <2> DEFINE u == w[c]
             v == Spelled(w, x)
  <2>4. u \in Seq(S) /\ v \in Seq(S) /\ u # <<>>
    BY <1>0, WrittenTyped
  <2> HIDE DEF u, v
  <2>5. u \o v # <<>>
    BY <2>4, ConcatEqualIffEmpty
  <2> QED
    BY <2>2, <2>3, <2>4, <2>5 DEF u, v
<1>2. ASSUME NEW x \in Seq(W), Spelled(w, x) = <<>> PROVE x = <<>>
  <2> SUFFICES ASSUME x # <<>> PROVE FALSE
    OBVIOUS
  <2>1. PICK c \in W, z \in Seq(W) : x = <<c>> \o z
    BY FrontAndRest
  <2> QED
    BY <1>1, <1>2, <2>1
<1>3. 0 \in L
  <2>1. ASSUME NEW x \in Seq(W), Len(x) = 0 PROVE Good(x)
    <3>1. x = <<>>
      BY <2>1, EmptySeq
    <3>2. Spelled(w, x) = <<>>
      BY <3>1, WrittenEmpty
    <3> QED
      BY <1>2, <3>1, <3>2
  <2> QED
    BY <2>1
<1>4. ASSUME NEW n \in L PROVE n + 1 \in L
  <2> SUFFICES ASSUME NEW x \in Seq(W), Len(x) = n + 1, NEW y \in Seq(W),
                      Spelled(w, x) = Spelled(w, y)
               PROVE  x = y
    OBVIOUS
  <2>1. n \in Nat /\ x # <<>>
    BY EmptySeq
  <2>2. PICK c \in W, u \in Seq(W) : x = <<c>> \o u /\ Len(u) = Len(x) - 1
    BY <2>1, FrontAndRest
  <2>3. y # <<>>
    <3>1. Spelled(w, x) # <<>>
      BY <1>1, <2>2
    <3> QED
      BY <3>1, WrittenEmpty
  <2>4. PICK d \in W, v \in Seq(W) : y = <<d>> \o v /\ Len(v) = Len(y) - 1
    BY <2>3, FrontAndRest
  <2>5. w[c] \o Spelled(w, u) = w[d] \o Spelled(w, v)
    <3>1. Spelled(w, <<c>> \o u) = w[c] \o Spelled(w, u)
      BY <1>1
    <3>2. Spelled(w, <<d>> \o v) = w[d] \o Spelled(w, v)
      BY <1>1
    <3> QED
      BY <2>2, <2>4, <3>1, <3>2
  <2>6. Spelled(w, u) \in Seq(S) /\ Spelled(w, v) \in Seq(S)
    BY <1>1
  <2>7. c = d /\ Spelled(w, u) = Spelled(w, v)
    <3> DEFINE a == Spelled(w, u)
               b == Spelled(w, v)
    <3>1. a \in Seq(S) /\ b \in Seq(S) /\ w[c] \o a = w[d] \o b
      BY <2>5, <2>6
    <3> HIDE DEF a, b
    <3>0. \A e, f \in W, v1, v2 \in Seq(S) : w[e] \o v1 = w[f] \o v2 => e = f /\ v1 = v2
      BY <1>0
    <3>2. c = d /\ a = b
      BY ONLY <3>0, <3>1, c \in W, d \in W
    <3> QED
      BY <3>2 DEF a, b
  <2>8. Len(u) = n
    BY <2>1, <2>2
  <2>9. u = v
    BY <2>7, <2>8
  <2> QED
    BY <2>2, <2>4, <2>7, <2>9
<1>5. L = Nat
  <2> HIDE DEF L
  <2>1. L \in SUBSET Nat
    BY DEF L
  <2> QED
    BY ONLY <1>3, <1>4, <2>1, NumberInduction
<1>6. Len(s) \in Nat
  BY LenProperties
<1> QED
  BY <1>5, <1>6

\* Two texts that start with pieces of one length start with the same piece.
LEMMA ConcatCancel ==
  ASSUME NEW S, NEW a \in Seq(S), NEW b \in Seq(S), NEW x \in Seq(S), NEW y \in Seq(S),
         Len(a) = Len(b), a \o x = b \o y
  PROVE  a = b /\ x = y
<1> DEFINE l == Len(a)
           m == Len(x)
           n == Len(y)
           s == a \o x
           t == b \o y
<1>1. l \in Nat /\ m \in Nat /\ n \in Nat
  BY LenProperties
<1>2. OfLength(a, S, l) /\ OfLength(x, S, m) /\ OfLength(b, S, l) /\ OfLength(y, S, n)
  BY DEF OfLength
<1> HIDE DEF l, m, n
<1>3. OfLength(s, S, l + m) /\ Concatenates(s, a, l, x, m)
  BY ONLY <1>1, <1>2, ConcatAt
<1>4. OfLength(t, S, l + n) /\ Concatenates(t, b, l, y, n)
  BY ONLY <1>1, <1>2, ConcatAt
<1>5. s = t
  OBVIOUS
<1> HIDE DEF s, t
<1>6. l + m = l + n
  BY <1>3, <1>4, <1>5 DEF OfLength
<1>7. m = n
  BY <1>1, <1>6
<1>8. \A i \in 1..l : a[i] = b[i]
  BY <1>3, <1>4, <1>5 DEF Concatenates
<1>9. \A i \in 1..m : x[i] = y[i]
  BY <1>3, <1>4, <1>5, <1>7 DEF Concatenates
<1>10. a = b
  BY <1>2, <1>8, SeqEqual DEF OfLength
<1>11. x = y
  BY <1>2, <1>7, <1>9, SeqEqual DEF OfLength
<1> QED
  BY <1>10, <1>11

\* The first character of a text that starts with a.
LEMMA ConcatFirst ==
  ASSUME NEW S, NEW a \in Seq(S), NEW x \in Seq(S), a # <<>>
  PROVE  (a \o x)[1] = a[1]
<1>1. Len(a) \in Nat /\ Len(x) \in Nat /\ Len(a) # 0
  BY EmptySeq, LenProperties
<1>2. OfLength(a, S, Len(a)) /\ OfLength(x, S, Len(x))
  BY DEF OfLength
<1>3. Concatenates(a \o x, a, Len(a), x, Len(x))
  BY <1>1, <1>2, ConcatAt
<1>4. 1 \in 1..Len(a)
  BY <1>1
<1> QED
  BY <1>3, <1>4 DEF Concatenates

-----------------------------------------------------------------------------
\* Texts that are read symbol by symbol.

ReadsSymbols(F, sym, rest) ==
  \A r \in Seq(Nat) : F[r] = IF r = <<>> THEN <<>> ELSE <<sym[r]>> \o F[rest[r]]
\* The rest is shorter.
Shortens(rest) == \A r \in Seq(Nat) : r = <<>> \/ Len(rest[r]) < Len(r)

LEMMA SymbolReaderExists ==
  ASSUME NEW V, NEW sym \in [Seq(Nat) -> V], NEW rest \in [Seq(Nat) -> Seq(Nat)],
         Shortens(rest)
  PROVE  \E F \in [Seq(Nat) -> Seq(V)] : ReadsSymbols(F, sym, rest)
<1> DEFINE D == Seq(Nat)
           W == Seq(V)
           B == {<<>>}
           size == [d \in D |-> Len(d)]
           none == [d \in D |-> <<>>]
           found == [d \in D |-> <<sym[d]>>]
           st == [d \in D |-> [v \in W |-> found[d] \o v]]
<1>1. size \in [D -> Nat]
  BY LenProperties
<1>2. none \in [D -> W]
  <2>1. <<>> \in W
    BY EmptySeq
  <2> QED
    BY <2>1
<1>3. found \in [D -> W]
  <2>1. ASSUME NEW d \in D PROVE <<sym[d]>> \in W
    <3> DEFINE e == sym[d]
    <3>1. e \in V
      OBVIOUS
    <3> HIDE DEF e
    <3> QED
      BY <3>1 DEF e
  <2> QED
    BY <2>1
<1>5. st \in [D -> [W -> W]]
  <2>1. \A d \in D, v \in W : found[d] \o v \in W
    BY <1>3, ConcatProperties
  <2> HIDE DEF found, D, W
  <2> QED
    BY <2>1
<1>6. \A d \in D : d \in B \/ size[rest[d]] < size[d]
  BY DEF Shortens
<1>7. /\ \A d \in D, v \in W : st[d][v] = found[d] \o v
      /\ \A d \in D : found[d] = <<sym[d]>> /\ none[d] = <<>>
  OBVIOUS
<1>a. rest \in [D -> D]
  OBVIOUS
<1>b. \A d \in D : d \in B <=> d = <<>>
  OBVIOUS
<1> HIDE DEF W, size, none, found, st, B
<1>8. Descends(D, W, size, B, none, rest, st)
  <2> HIDE DEF D
  <2> QED
    BY <1>1, <1>2, <1>a, <1>5, <1>6 DEF Descends
<1>9. PICK F \in [D -> W] : Solves(F, D, B, none, rest, st)
  BY <1>8, SizeRecursion
<1>10. ASSUME NEW r \in D
       PROVE  F[r] = IF r = <<>> THEN <<>> ELSE <<sym[r]>> \o F[rest[r]]
  <2>1. F[r] = IF r \in B THEN none[r] ELSE st[r][F[rest[r]]]
    BY <1>9 DEF Solves
  <2>2. rest[r] \in D /\ F[rest[r]] \in W
    BY <1>9
  <2>3. st[r][F[rest[r]]] = found[r] \o F[rest[r]]
    BY <1>7, <2>2
  <2> QED
    BY <1>7, <1>b, <2>1, <2>3
<1>11. ReadsSymbols(F, sym, rest)
  BY <1>10 DEF ReadsSymbols
<1> QED
  BY <1>9, <1>11 DEF W

\* What is shown of the empty text, and of a text when it holds of the rest,
\* holds of every text in G.
LEMMA SymbolInduction ==
  ASSUME NEW G \in SUBSET Seq(Nat), NEW T \in SUBSET G, NEW rest,
         \A r \in G : r = <<>> \/ (rest[r] \in G /\ Len(rest[r]) < Len(r)),
         \A r \in G : r = <<>> \/ rest[r] \in T => r \in T
  PROVE  T = G
<1> DEFINE L == {n \in Nat : \A r \in G : Len(r) <= n => r \in T}
<1>0. \A r \in G : Len(r) \in Nat
  BY LenProperties
<1>1. 0 \in L
  <2> SUFFICES ASSUME NEW r \in G, Len(r) <= 0 PROVE r \in T
    OBVIOUS
  <2>1. Len(r) = 0
    BY <1>0
  <2>2. r = <<>>
    BY <2>1, EmptySeq
  <2> QED
    BY <2>2
<1>2. ASSUME NEW n \in L PROVE n + 1 \in L
  <2> SUFFICES ASSUME NEW r \in G, Len(r) <= n + 1 PROVE r \in T
    OBVIOUS
  <2>1. CASE r # <<>>
    <3>1. rest[r] \in G /\ Len(rest[r]) < Len(r)
      BY <2>1
    <3>2. Len(rest[r]) <= n
      BY <1>0, <3>1
    <3> QED
      BY <3>1, <3>2
  <2> QED
    BY <2>1
<1>3. L = Nat
  <2> HIDE DEF L
  <2>1. L \in SUBSET Nat
    BY DEF L
  <2> QED
    BY ONLY <1>1, <1>2, <2>1, NumberInduction
<1>4. \A r \in G : r \in T
  BY <1>0, <1>3
<1> QED
  BY <1>4

\* Symbols of P are read of the texts in G, when the first symbol is one and the
\* rest is in G again.
Covers(G, P, sym, rest) ==
  /\ G \in SUBSET Seq(Nat)
  /\ \A r \in G : \/ r = <<>>
                   \/ (sym[r] \in P /\ rest[r] \in G /\ Len(rest[r]) < Len(r))

LEMMA SymbolsTyped ==
  ASSUME NEW F, NEW sym, NEW rest, ReadsSymbols(F, sym, rest),
         NEW G, NEW P, Covers(G, P, sym, rest), NEW r \in G
  PROVE  F[r] \in Seq(P)
<1> DEFINE T == {x \in G : F[x] \in Seq(P)}
<1>0. /\ G \in SUBSET Seq(Nat)
      /\ \A x \in G : x = <<>> \/ (sym[x] \in P /\ rest[x] \in G /\ Len(rest[x]) < Len(x))
  BY DEF Covers
<1>1. ASSUME NEW x \in G, x = <<>> \/ rest[x] \in T PROVE x \in T
  <2>0. x \in Seq(Nat) /\ F[x] = IF x = <<>> THEN <<>> ELSE <<sym[x]>> \o F[rest[x]]
    BY <1>0 DEF ReadsSymbols
  <2>1. CASE x = <<>>
    BY <2>0, <2>1, EmptySeq
  <2>2. CASE x # <<>>
    <3> DEFINE e == sym[x]
               f == F[rest[x]]
    <3>1. e \in P /\ f \in Seq(P)
      BY <1>0, <1>1, <2>2
    <3> HIDE DEF e, f
    <3>2. <<e>> \in Seq(P)
      BY <3>1
    <3>3. <<e>> \o f \in Seq(P)
      BY <3>1, <3>2, ConcatProperties
    <3> QED
      BY <2>0, <2>2, <3>3 DEF e, f
  <2> QED
    BY <2>1, <2>2
<1> HIDE DEF T
<1>2. T \in SUBSET G
  BY DEF T
<1>3. T = G
  <2>1. \A x \in G : x = <<>> \/ (rest[x] \in G /\ Len(rest[x]) < Len(x))
    BY <1>0
  <2>2. \A x \in G : x = <<>> \/ rest[x] \in T => x \in T
    BY <1>1
  <2>3. G \in SUBSET Seq(Nat)
    BY <1>0
  <2> QED
    BY ONLY <1>2, <2>1, <2>2, <2>3, SymbolInduction
<1> QED
  BY <1>3 DEF T

\* The first symbol of a text in G is written as the text starts, or is none of P.
Undoes(G, P, w, sym, rest) ==
  \A r \in G : \/ r = <<>>
                \/ /\ rest[r] \in G /\ Len(rest[r]) < Len(r)
                   /\ sym[r] \in P => r = w[sym[r]] \o rest[r]

\* Then what is read of such a text, and is all in P, is written as that text.
LEMMA SymbolsWritten ==
  ASSUME NEW F, NEW sym, NEW rest, ReadsSymbols(F, sym, rest),
         NEW G \in SUBSET Seq(Nat), NEW P, NEW Q, P \subseteq Q,
         NEW w, Mapping(w, P, Seq(Nat)),
         Covers(G, Q, sym, rest), Undoes(G, P, w, sym, rest),
         NEW r \in G, F[r] \in Seq(P)
  PROVE  Spelled(w, F[r]) = r
<1> DEFINE T == {x \in G : F[x] \in Seq(P) => Spelled(w, F[x]) = x}
<1>1. ASSUME NEW x \in G, x = <<>> \/ rest[x] \in T PROVE x \in T
  <2> SUFFICES ASSUME F[x] \in Seq(P) PROVE Spelled(w, F[x]) = x
    OBVIOUS
  <2>0. x \in Seq(Nat) /\ F[x] = IF x = <<>> THEN <<>> ELSE <<sym[x]>> \o F[rest[x]]
    BY DEF ReadsSymbols
  <2>1. CASE x = <<>>
    BY <2>0, <2>1, WrittenEmpty
  <2>2. CASE x # <<>>
    <3> DEFINE e == sym[x]
               f == F[rest[x]]
               t == rest[x]
               one == <<e>>
    <3>1. e \in Q /\ t \in G /\ (e \in P => x = w[e] \o t)
      BY <2>2 DEF Covers, Undoes
    <3>2. f \in Seq(Q)
      BY <3>1, SymbolsTyped
    <3>3. F[x] = one \o f /\ one \in Seq(Q)
      <4> HIDE DEF e
      <4> QED
        BY <2>0, <2>2, <3>1 DEF e
    <3>4. e \in P /\ f \in Seq(P)
      <4>1. /\ Len(one) = 1 /\ one[1] = e /\ Len(f) \in Nat
            /\ Len(one \o f) = 1 + Len(f) /\ \A i \in 1..Len(f) : (one \o f)[1 + i] = f[i]
            /\ (one \o f)[1] = e
        <5>1. OfLength(one, Q, 1) /\ OfLength(f, Q, Len(f)) /\ Len(f) \in Nat /\ 1 \in Nat
          BY <3>2, <3>3, LenProperties DEF OfLength
        <5>2. OfLength(one \o f, Q, 1 + Len(f)) /\ Concatenates(one \o f, one, 1, f, Len(f))
          BY ONLY <5>1, ConcatAt
        <5>3. 1 \in 1..1 /\ one[1] = e
          OBVIOUS
        <5> HIDE DEF one, f, e
        <5> QED
          BY <5>1, <5>2, <5>3 DEF OfLength, Concatenates
      <4> DEFINE y == one \o f
      <4>2. y \in Seq(P)
        BY <3>3
      <4> HIDE DEF one, f, e, y
      <4>3. \A i \in 1..1 + Len(f) : y[i] \in P
        BY <4>1, <4>2, ElementOfSeq DEF y
      <4>4. 1 \in 1..1 + Len(f) /\ \A i \in 1..Len(f) : 1 + i \in 1..1 + Len(f)
        BY <4>1
      <4>5. e \in P /\ \A i \in 1..Len(f) : f[i] \in P
        BY <4>1, <4>3, <4>4 DEF y
      <4>6. f \in Seq(P)
        <5> DEFINE n == Len(f)
        <5>1. n \in Nat /\ f \in [1..n -> Q]
          BY <3>2, LenProperties
        <5>2. f \in [1..n -> P]
          BY <4>5, <5>1
        <5> HIDE DEF n
        <5> QED
          BY <5>1, <5>2, FunctionIsSeq
      <4> QED
        BY <4>5, <4>6
    <3>5. Spelled(w, f) = t
      BY <1>1, <2>2, <3>4
    <3> HIDE DEF f
    <3>6. Spelled(w, one) = w[e]
      BY <3>4, WrittenOne
    <3>7. Spelled(w, one \o f) = Spelled(w, one) \o Spelled(w, f)
      <4>1. Mapping(w, P, Seq(Nat)) /\ one \in Seq(P) /\ f \in Seq(P)
        <5> HIDE DEF e
        <5> QED
          BY <3>4
      <4> HIDE DEF one
      <4> QED
        BY ONLY <4>1, WrittenConcat
    <3> QED
      BY <3>1, <3>3, <3>4, <3>5, <3>6, <3>7
  <2> QED
    BY <2>1, <2>2
<1> HIDE DEF T
<1>2. T \in SUBSET G
  BY DEF T
<1>3. T = G
  <2>1. \A x \in G : x = <<>> \/ (rest[x] \in G /\ Len(rest[x]) < Len(x))
    BY DEF Undoes
  <2>2. \A x \in G : x = <<>> \/ rest[x] \in T => x \in T
    BY <1>1
  <2>3. G \in SUBSET Seq(Nat)
    OBVIOUS
  <2> QED
    BY ONLY <1>2, <2>1, <2>2, <2>3, SymbolInduction
<1> QED
  BY <1>3 DEF T

\* What starts with the w of a symbol of P is read as that symbol, then the rest.
Recognizes(P, w, sym, rest) ==
  \A c \in P, r \in Seq(Nat) :
    w[c] # <<>> /\ sym[w[c] \o r] = c /\ rest[w[c] \o r] = r

LEMMA SymbolsRead ==
  ASSUME NEW F, NEW sym, NEW rest, ReadsSymbols(F, sym, rest),
         NEW P, NEW Q, P \subseteq Q, Covers(Seq(Nat), Q, sym, rest),
         NEW w, Mapping(w, P, Seq(Nat)), Recognizes(P, w, sym, rest),
         NEW q \in Seq(P)
  PROVE  F[Spelled(w, q)] = q
<1> DEFINE g == [c \in P |-> c]
<1>1. \A d \in Seq(Nat) : F[d] \in Seq(Q)
  BY SymbolsTyped
<1>2. F[<<>>] = <<>>
  BY EmptySeq DEF ReadsSymbols
<1>3. Mapping(g, P, Q)
  BY DEF Mapping
<1>4. ASSUME NEW c \in P, NEW r \in Seq(Nat)
      PROVE  F[w[c] \o r] = <<g[c]>> \o F[r]
  <2> DEFINE a == w[c]
             d == a \o r
  <2>1. a \in Seq(Nat) /\ a # <<>> /\ sym[d] = c /\ rest[d] = r
    BY DEF Recognizes, Mapping
  <2> HIDE DEF a
  <2>2. d \in Seq(Nat) /\ d # <<>>
    BY <2>1, ConcatProperties, ConcatEqualIffEmpty
  <2> HIDE DEF d
  <2>3. F[d] = <<sym[d]>> \o F[rest[d]]
    BY <2>2 DEF ReadsSymbols
  <2>4. g[c] = c
    OBVIOUS
  <2> QED
    BY <2>1, <2>3, <2>4 DEF d, a
<1>5. Reads(F, Nat, Q, P, w, g)
  <2> HIDE DEF g
  <2> QED
    BY <1>1, <1>2, <1>3, <1>4 DEF Reads
<1>6. F[Strung(Image(w, q))] = Image(g, q)
  BY <1>5, ReadsAll
<1>7. Image(g, q) = q
  <2>1. \A i \in DOMAIN q : q[i] \in P
    BY ElementOfSeq, LenProperties
  <2>2. Image(g, q) = [i \in DOMAIN q |-> q[i]]
    BY <2>1 DEF Image
  <2> QED
    BY <2>2, LenProperties
<1> QED
  BY <1>6, <1>7 DEF Spelled

\* The text without its first symbol.
Past(s, k) == SubSeq(s, k + 1, Len(s))

LEMMA FrontOff ==
  ASSUME NEW S, NEW s \in Seq(S), NEW k \in 1..Len(s), NEW a, OfLength(a, S, k),
         \A i \in 1..k : a[i] = s[i]
  PROVE  /\ s = a \o Past(s, k)
         /\ Past(s, k) \in Seq(S)
         /\ Len(Past(s, k)) = Len(s) - k
         /\ Len(Past(s, k)) < Len(s)
         /\ \A i \in 1..Len(s) - k : Past(s, k)[i] = s[k + i]
<1> DEFINE n == Len(s)
           b == SubSeq(s, 1, k)
           t == SubSeq(s, k + 1, n)
<1>1. n \in Nat /\ k \in 1..n /\ \A i \in 1..n : s[i] \in S
  BY LenProperties, ElementOfSeq
<1>2. b \in Seq(S) /\ Len(b) = k /\ \A i \in 1..k : b[i] = s[i]
  <2>1. \A i \in 1..k : s[i] \in S
    BY <1>1
  <2>2. /\ b \in Seq(S) /\ Len(b) = IF 1 <= k THEN k - 1 + 1 ELSE 0
        /\ \A i \in 1..k - 1 + 1 : b[i] = s[1 + i - 1]
    BY <1>1, <2>1, SubSeqProperties
  <2> HIDE DEF b
  <2>3. k - 1 + 1 = k /\ 1 <= k /\ \A i \in 1..k : 1 + i - 1 = i
    BY <1>1
  <2> QED
    BY <2>2, <2>3
<1>3. t \in Seq(S) /\ Len(t) = n - k /\ \A i \in 1..n - k : t[i] = s[k + i]
  <2>1. \A i \in k + 1..n : s[i] \in S
    BY <1>1
  <2>2. /\ t \in Seq(S) /\ Len(t) = IF k + 1 <= n THEN n - (k + 1) + 1 ELSE 0
        /\ \A i \in 1..n - (k + 1) + 1 : t[i] = s[(k + 1) + i - 1]
    BY <1>1, <2>1, SubSeqProperties
  <2> HIDE DEF t
  <2>3. /\ n - (k + 1) + 1 = n - k /\ \A i \in 1..n - k : (k + 1) + i - 1 = k + i
        /\ (k + 1 <= n \/ n - k = 0)
    BY <1>1
  <2> QED
    BY <2>2, <2>3
<1>4. b \o t = s
  <2>1. /\ 1 \in 1..n + 1 /\ k \in 1 - 1..n /\ n \in k..n
    BY <1>1
  <2>2. b \o t = SubSeq(s, 1, n)
    BY <2>1, ConcatAdjacentSubSeq
  <2> QED
    BY <2>2, SubSeqFull
<1> HIDE DEF b, t
<1>5. a = b
  <2>1. a \in Seq(S) /\ Len(a) = k
    BY DEF OfLength
  <2> QED
    BY <1>2, <2>1, SeqEqual
<1>6. Len(t) < n
  BY <1>1, <1>3
<1> QED
  BY <1>3, <1>4, <1>5, <1>6 DEF Past, t

LEMMA FrontTaken ==
  ASSUME NEW S, NEW a \in Seq(S), NEW r \in Seq(S)
  PROVE  Past(a \o r, Len(a)) = r
BY SplitConcat DEF Past

\* The reader of the symbols.
SymbolReader(sym, rest) ==
  CHOOSE f : f = [r \in Seq(Nat) |-> IF r = <<>> THEN <<>> ELSE <<sym[r]>> \o f[rest[r]]]

LEMMA SymbolReaderReads ==
  ASSUME NEW V, NEW sym \in [Seq(Nat) -> V], NEW rest \in [Seq(Nat) -> Seq(Nat)],
         Shortens(rest)
  PROVE  ReadsSymbols(SymbolReader(sym, rest), sym, rest)
<1>1. PICK F \in [Seq(Nat) -> Seq(V)] : ReadsSymbols(F, sym, rest)
  BY SymbolReaderExists
<1> DEFINE two(f, r) == IF r = <<>> THEN <<>> ELSE <<sym[r]>> \o f[rest[r]]
<1>2. SymbolReader(sym, rest) = CHOOSE f : f = [r \in Seq(Nat) |-> two(f, r)]
  BY DEF SymbolReader
<1>3. \A f : ReadsSymbols(f, sym, rest) <=> \A r \in Seq(Nat) : f[r] = two(f, r)
  BY DEF ReadsSymbols
<1> HIDE DEF two
<1>4. F = [r \in Seq(Nat) |-> two(F, r)]
  <2>1. F = [r \in Seq(Nat) |-> F[r]]
    BY <1>1
  <2>2. \A r \in Seq(Nat) : F[r] = two(F, r)
    BY <1>1, <1>3
  <2> QED
    BY ONLY <2>1, <2>2
<1> DEFINE G == SymbolReader(sym, rest)
<1>6. G = [r \in Seq(Nat) |-> two(G, r)]
  BY <1>2, <1>4
<1> HIDE DEF G
<1>7. \A r \in Seq(Nat) : G[r] = two(G, r)
  BY <1>6
<1> QED
  BY <1>3, <1>7 DEF G

-----------------------------------------------------------------------------
\* The code units and the code points of Unicode, and UTF-16.

Unit == 0..65535
LastCodePoint == 17 * 65536 - 1
CodePoint == 0..LastCodePoint
Highs == 55296..56319
Lows == 56320..57343
Scalar == {c \in CodePoint : c \notin Highs /\ c \notin Lows}

\* Numbers between two others: the provers go through ranges of literals one
\* by one, which takes too long here.
LEMMA Between ==
  ASSUME NEW a \in Nat, NEW b \in Nat
  PROVE  \A c : c \in a..b <=> c \in Nat /\ a <= c /\ c <= b
OBVIOUS

LEMMA UnitIs == \A c : c \in Unit <=> c \in Nat /\ c <= 65535
<1> DEFINE a == 0
           b == 65535
<1>1. Unit = a..b
  BY DEF Unit
<1>2. a \in Nat /\ b \in Nat
  OBVIOUS
<1>3. a = 0 /\ b = 65535
  OBVIOUS
<1> HIDE DEF a, b
<1>4. \A c : c \in Unit <=> c \in Nat /\ a <= c /\ c <= b
  BY ONLY <1>1, <1>2, Between
<1> QED
  BY ONLY <1>3, <1>4, SMT

LEMMA HighsAre == \A c : c \in Highs <=> c \in Nat /\ 55296 <= c /\ c <= 56319
<1> DEFINE a == 55296
           b == 56319
<1>1. Highs = a..b
  BY DEF Highs
<1>2. a \in Nat /\ b \in Nat
  OBVIOUS
<1>3. a = 55296 /\ b = 56319
  OBVIOUS
<1> HIDE DEF a, b
<1>4. \A c : c \in Highs <=> c \in Nat /\ a <= c /\ c <= b
  BY ONLY <1>1, <1>2, Between
<1> QED
  BY ONLY <1>3, <1>4, SMT

LEMMA LowsAre == \A c : c \in Lows <=> c \in Nat /\ 56320 <= c /\ c <= 57343
<1> DEFINE a == 56320
           b == 57343
<1>1. Lows = a..b
  BY DEF Lows
<1>2. a \in Nat /\ b \in Nat
  OBVIOUS
<1>3. a = 56320 /\ b = 57343
  OBVIOUS
<1> HIDE DEF a, b
<1>4. \A c : c \in Lows <=> c \in Nat /\ a <= c /\ c <= b
  BY ONLY <1>1, <1>2, Between
<1> QED
  BY ONLY <1>3, <1>4, SMT

LEMMA LastPointIs ==
  LastCodePoint \in Nat /\ LastCodePoint = 17 * 65536 - 1
BY SMT DEF LastCodePoint

LEMMA PointIs ==
  \A c : c \in CodePoint <=> c \in Nat /\ c <= LastCodePoint
<1> DEFINE n == LastCodePoint
<1>1. n \in Nat
  BY LastPointIs
<1>2. CodePoint = 0..n
  BY DEF CodePoint
<1> HIDE DEF n
<1>3. \A c : c \in CodePoint <=> c \in Nat /\ c <= n
  BY ONLY <1>1, <1>2
<1> QED
  BY ONLY <1>3, Zenon DEF n

LEMMA ScalarIs ==
  ASSUME NEW c
  PROVE  /\ c \in Scalar <=> c \in CodePoint /\ c \notin Highs /\ c \notin Lows
         /\ c \in Unit => c \in CodePoint
         /\ c \in CodePoint => c \in Nat
<1>1. c \in Unit => c \in CodePoint
  <2>1. LastCodePoint \in Nat /\ LastCodePoint >= 65535
    BY LastPointIs, SMT
  <2>2. c \in Unit => c \in Nat /\ c <= 65535
    BY UnitIs
  <2> QED
    BY <2>1, <2>2, PointIs
<1>2. c \in CodePoint => c \in Nat
  BY PointIs
<1> QED
  BY <1>1, <1>2 DEF Scalar

PairOf(h, l) == (h - 55296) * 1024 + (l - 56320) + 65536
PairAt(r) == Len(r) > 1 /\ r[1] \in Highs /\ r[2] \in Lows
UnitSize(r) == IF PairAt(r) THEN 2 ELSE 1
UnitSym == [r \in Seq(Nat) |->
             IF r = <<>> THEN 0 ELSE IF PairAt(r) THEN PairOf(r[1], r[2]) ELSE r[1]]
UnitRest == [r \in Seq(Nat) |-> Past(r, UnitSize(r))]
Points == SymbolReader(UnitSym, UnitRest)
HighOf(c) == 55296 + ((c - 65536) \div 1024)
LowOf(c) == 56320 + ((c - 65536) % 1024)

LEMMA PairUnits ==
  ASSUME NEW h \in Highs, NEW l \in Lows
  PROVE  /\ PairOf(h, l) \in CodePoint /\ PairOf(h, l) >= 65536
         /\ HighOf(PairOf(h, l)) = h /\ LowOf(PairOf(h, l)) = l
<1> DEFINE a == h - 55296
           b == l - 56320
           c == a * 1024 + b
           p == PairOf(h, l)
<1>1. a \in 0..1023 /\ b \in 0..1023 /\ h = 55296 + a /\ l = 56320 + b
  BY HighsAre, LowsAre
<1>2. p = c + 65536
  BY <1>1 DEF PairOf
<1> HIDE DEF a, b, p
<1>3. c \in Nat /\ c \div 1024 = a /\ c % 1024 = b /\ c < 1024 * 1024
  BY <1>1, SMT
<1> HIDE DEF c
<1>4. p \in Nat /\ p >= 65536 /\ p - 65536 = c /\ p <= LastCodePoint
  BY <1>2, <1>3, LastPointIs, PointIs, SMT
<1>5. p \in CodePoint
  BY <1>4, PointIs
<1>6. HighOf(p) = 55296 + a /\ LowOf(p) = 56320 + b
  BY <1>3, <1>4 DEF HighOf, LowOf
<1> QED
  BY <1>1, <1>4, <1>5, <1>6 DEF p

LEMMA PointPair ==
  ASSUME NEW c \in CodePoint, c >= 65536
  PROVE  HighOf(c) \in Highs /\ LowOf(c) \in Lows /\ PairOf(HighOf(c), LowOf(c)) = c
<1> DEFINE d == c - 65536
           a == d \div 1024
           b == d % 1024
<1>1. c \in Nat /\ d \in Nat /\ d < 1024 * 1024 /\ c = d + 65536
  BY LastPointIs, PointIs, SMT
<1> HIDE DEF d
<1>2. a \in 0..1023 /\ b \in 0..1023 /\ a * 1024 + b = d
  BY <1>1, SMT
<1>3. HighOf(c) = 55296 + a /\ LowOf(c) = 56320 + b
  BY DEF HighOf, LowOf, d
<1> HIDE DEF a, b
<1>4. 55296 + a \in Highs /\ 56320 + b \in Lows
  BY <1>2, HighsAre, LowsAre
<1>5. PairOf(55296 + a, 56320 + b) = a * 1024 + b + 65536
  BY <1>2, SMT DEF PairOf
<1> QED
  BY <1>1, <1>2, <1>3, <1>4, <1>5

LEMMA NatSequence ==
  ASSUME NEW S \in SUBSET Nat, NEW r \in Seq(S)
  PROVE  r \in Seq(Nat)
<1> DEFINE n == Len(r)
<1>1. n \in Nat /\ r \in [1..n -> S]
  BY LenProperties
<1>2. r \in [1..n -> Nat]
  BY <1>1
<1> HIDE DEF n
<1> QED
  BY <1>1, <1>2, FunctionIsSeq

LEMMA UnitTyped ==
  ASSUME NEW S \in SUBSET Nat, NEW r \in Seq(S), r # <<>>
  PROVE  /\ Len(r) \in Nat /\ Len(r) >= 1 /\ r[1] \in S
         /\ UnitSize(r) \in 1..Len(r)
         /\ PairAt(r) => r[2] \in S
         /\ r \in Seq(Nat)
         /\ UnitSym[r] = IF PairAt(r) THEN PairOf(r[1], r[2]) ELSE r[1]
         /\ UnitRest[r] = Past(r, UnitSize(r))
<1>1. Len(r) \in Nat /\ Len(r) # 0 /\ r \in Seq(Nat)
  <2>1. Len(r) \in Nat /\ Len(r) # 0
    BY EmptySeq, LenProperties
  <2>2. r \in Seq(Nat)
    BY NatSequence
  <2> QED
    BY <2>1, <2>2
<1>2. Len(r) >= 1 /\ 1 \in 1..Len(r)
  BY <1>1
<1>3. r[1] \in S
  BY <1>2, ElementOfSeq
<1>4. ASSUME PairAt(r) PROVE Len(r) >= 2 /\ r[2] \in S
  <2>1. Len(r) >= 2 /\ 2 \in 1..Len(r)
    BY <1>1, <1>4 DEF PairAt
  <2> QED
    BY <2>1, ElementOfSeq
<1>5. UnitSize(r) \in 1..Len(r)
  BY <1>1, <1>2, <1>4 DEF UnitSize
<1> QED
  BY <1>1, <1>2, <1>3, <1>4, <1>5 DEF UnitSym, UnitRest

\* A sequence that starts with the elements of r, as many as its first symbol has.
UnitFront(r) == IF PairAt(r) THEN <<r[1], r[2]>> ELSE <<r[1]>>

LEMMA UnitFrontOff ==
  ASSUME NEW S \in SUBSET Nat, NEW r \in Seq(S), r # <<>>
  PROVE  /\ r = UnitFront(r) \o UnitRest[r] /\ UnitRest[r] \in Seq(S)
         /\ Len(UnitRest[r]) = Len(r) - UnitSize(r)
         /\ Len(UnitRest[r]) < Len(r)
         /\ \A i \in 1..Len(r) - UnitSize(r) : UnitRest[r][i] = r[UnitSize(r) + i]
<1> DEFINE k == UnitSize(r)
           a == UnitFront(r)
<1>1. /\ Len(r) \in Nat /\ r[1] \in S /\ k \in 1..Len(r) /\ (PairAt(r) => r[2] \in S)
      /\ UnitRest[r] = Past(r, k)
  BY UnitTyped
<1>2. OfLength(a, S, k) /\ \A i \in 1..k : a[i] = r[i]
  <2>1. CASE PairAt(r)
    <3>1. a = <<r[1], r[2]>> /\ k = 2
      BY <2>1 DEF UnitFront, UnitSize
    <3> DEFINE e == r[1]
               f == r[2]
    <3>2. e \in S /\ f \in S
      BY <1>1, <2>1
    <3> HIDE DEF e, f
    <3>3. LET q == <<e, f>> IN q \in Seq(S) /\ Len(q) = 2 /\ q[1] = e /\ q[2] = f
      BY <3>2
    <3>4. \A i \in 1..2 : i = 1 \/ i = 2
      OBVIOUS
    <3> HIDE DEF a, k
    <3> QED
      BY <3>1, <3>3, <3>4 DEF OfLength, e, f
  <2>2. CASE ~PairAt(r)
    <3>1. a = <<r[1]>> /\ k = 1
      BY <2>2 DEF UnitFront, UnitSize
    <3> DEFINE e == r[1]
    <3>2. e \in S
      BY <1>1
    <3> HIDE DEF e
    <3>3. LET q == <<e>> IN q \in Seq(S) /\ Len(q) = 1 /\ q[1] = e
      BY <3>2
    <3>4. \A i \in 1..1 : i = 1
      OBVIOUS
    <3> HIDE DEF a, k
    <3> QED
      BY <3>1, <3>3, <3>4 DEF OfLength, e
  <2> QED
    BY <2>1, <2>2
<1> HIDE DEF k, a
<1>3. /\ r = a \o Past(r, k)
      /\ Past(r, k) \in Seq(S)
      /\ Len(Past(r, k)) = Len(r) - k
      /\ Len(Past(r, k)) < Len(r)
      /\ \A i \in 1..Len(r) - k : Past(r, k)[i] = r[k + i]
  <2>1. r \in Seq(S) /\ k \in 1..Len(r) /\ OfLength(a, S, k) /\ \A i \in 1..k : a[i] = r[i]
    BY <1>1, <1>2
  <2> QED
    BY ONLY <2>1, FrontOff
<1>4. UnitRest[r] = Past(r, k)
  BY <1>1
<1> QED
  BY ONLY <1>3, <1>4 DEF k, a

LEMMA UnitSymTyped ==
  ASSUME NEW r \in Seq(Unit), r # <<>>
  PROVE  UnitSym[r] \in CodePoint
<1>1. Unit \in SUBSET Nat
  BY UnitIs
<1>2. r[1] \in Unit /\ UnitSym[r] = IF PairAt(r) THEN PairOf(r[1], r[2]) ELSE r[1]
  BY <1>1, UnitTyped
<1>3. CASE PairAt(r)
  BY <1>2, <1>3, PairUnits DEF PairAt
<1>4. CASE ~PairAt(r)
  BY <1>2, <1>4, ScalarIs
<1> QED
  BY <1>3, <1>4

Utf16 == [c \in Scalar |-> IF c < 65536 THEN <<c>> ELSE <<HighOf(c), LowOf(c)>>]

\* One unit, which is no surrogate, or two that make a pair.
LEMMA Utf16Is ==
  ASSUME NEW c \in Scalar
  PROVE  /\ c \in Nat /\ c \in CodePoint /\ c \notin Highs /\ c \notin Lows
         /\ \/ /\ c < 65536 /\ c \in Unit /\ Utf16[c] = <<c>>
               /\ OfLength(Utf16[c], Unit, 1) /\ Utf16[c][1] = c
            \/ /\ c >= 65536 /\ HighOf(c) \in Highs /\ LowOf(c) \in Lows
               /\ PairOf(HighOf(c), LowOf(c)) = c /\ Utf16[c] = <<HighOf(c), LowOf(c)>>
               /\ OfLength(Utf16[c], Unit, 2)
               /\ Utf16[c][1] = HighOf(c) /\ Utf16[c][2] = LowOf(c)
<1>1. c \in Nat /\ c \in CodePoint /\ c \notin Highs /\ c \notin Lows
  BY ScalarIs
<1>2. CASE c < 65536
  <2>1. c \in Unit
    BY <1>1, <1>2, UnitIs
  <2>2. Utf16[c] = <<c>>
    BY <1>2 DEF Utf16
  <2>3. LET q == <<c>> IN q \in Seq(Unit) /\ Len(q) = 1 /\ q[1] = c
    BY ONLY <2>1
  <2> QED
    BY <1>1, <1>2, <2>1, <2>2, <2>3 DEF OfLength
<1>3. CASE ~(c < 65536)
  <2> DEFINE h == HighOf(c)
             l == LowOf(c)
  <2>0. c >= 65536
    BY <1>1, <1>3
  <2>1. h \in Highs /\ l \in Lows /\ PairOf(h, l) = c
    BY <1>1, <2>0, PointPair
  <2>2. Utf16[c] = <<h, l>>
    BY <1>3 DEF Utf16
  <2> HIDE DEF h, l
  <2>3. h \in Unit /\ l \in Unit
    BY <2>1, HighsAre, LowsAre, UnitIs
  <2>4. LET q == <<h, l>> IN q \in Seq(Unit) /\ Len(q) = 2 /\ q[1] = h /\ q[2] = l
    BY ONLY <2>3
  <2> QED
    BY <1>1, <2>0, <2>1, <2>2, <2>4 DEF OfLength, h, l
<1> QED
  BY <1>2, <1>3

LEMMA UnitNat == Unit \in SUBSET Nat
BY UnitIs

LEMMA Utf16Typed == Mapping(Utf16, Scalar, Seq(Unit)) /\ Mapping(Utf16, Scalar, Seq(Nat))
<1>1. ASSUME NEW c \in Scalar PROVE Utf16[c] \in Seq(Unit) /\ Utf16[c] \in Seq(Nat)
  <2>1. Utf16[c] \in Seq(Unit)
    BY Utf16Is DEF OfLength
  <2> QED
    BY <2>1, NatSequence, UnitNat
<1>2. Utf16 = [c \in Scalar |-> Utf16[c]]
  BY DEF Utf16
<1> QED
  BY ONLY <1>1, <1>2 DEF Mapping

LEMMA Utf16Recognized == Recognizes(Scalar, Utf16, UnitSym, UnitRest)
<1> SUFFICES ASSUME NEW c \in Scalar, NEW r \in Seq(Nat)
             PROVE  /\ Utf16[c] # <<>> /\ UnitSym[Utf16[c] \o r] = c
                    /\ UnitRest[Utf16[c] \o r] = r
  BY DEF Recognizes
<1> DEFINE a == Utf16[c]
           m == Len(a)
           n == Len(r)
           d == a \o r
<1>0. Nat \in SUBSET Nat
  OBVIOUS
<1>1. a \in Seq(Nat) /\ (m = 1 \/ m = 2) /\ n \in Nat /\ r \in Seq(Nat)
  BY Utf16Is, Utf16Typed, LenProperties DEF OfLength, Mapping
<1>2. \/ m = 1 /\ a[1] = c /\ c \notin Highs
      \/ m = 2 /\ a[1] \in Highs /\ a[2] \in Lows /\ PairOf(a[1], a[2]) = c
  BY Utf16Is DEF OfLength
<1>3. OfLength(d, Nat, m + n) /\ Concatenates(d, a, m, r, n)
  <2>1. OfLength(a, Nat, m) /\ OfLength(r, Nat, n) /\ m \in Nat /\ n \in Nat
    BY <1>1 DEF OfLength
  <2> HIDE DEF a, m, n
  <2> QED
    BY ONLY <2>1, ConcatAt
<1>4. Past(d, m) = r
  BY <1>1, FrontTaken
<1>a. a # <<>>
  <2> HIDE DEF m, a
  <2>1. m # 0
    BY <1>1
  <2> QED
    BY <2>1, EmptySeq DEF m
<1> HIDE DEF a, m, n, d
<1>5. d \in Seq(Nat) /\ Len(d) = m + n /\ \A i \in 1..m : d[i] = a[i]
  BY <1>3 DEF OfLength, Concatenates
<1>6. d # <<>>
  <2>1. Len(d) # 0
    BY <1>1, <1>5
  <2> QED
    BY <2>1, EmptySeq
<1>7. /\ UnitSym[d] = IF PairAt(d) THEN PairOf(d[1], d[2]) ELSE d[1]
      /\ UnitRest[d] = Past(d, UnitSize(d))
  BY <1>0, <1>5, <1>6, UnitTyped
<1>8. CASE m = 1 /\ a[1] = c /\ c \notin Highs
  <2>1. d[1] = c
    BY <1>5, <1>8
  <2>2. ~PairAt(d)
    BY <1>8, <2>1 DEF PairAt
  <2>3. UnitSize(d) = m
    BY <1>8, <2>2 DEF UnitSize
  <2> QED
    BY <1>4, <1>7, <1>a, <2>1, <2>2, <2>3 DEF d, a
<1>9. CASE m = 2 /\ a[1] \in Highs /\ a[2] \in Lows /\ PairOf(a[1], a[2]) = c
  <2>1. d[1] = a[1] /\ d[2] = a[2] /\ Len(d) > 1
    BY <1>1, <1>5, <1>9
  <2>2. PairAt(d)
    BY <1>9, <2>1 DEF PairAt
  <2>3. UnitSize(d) = m
    BY <1>9, <2>2 DEF UnitSize
  <2> QED
    BY <1>4, <1>7, <1>9, <1>a, <2>1, <2>2, <2>3 DEF d, a
<1> QED
  BY <1>2, <1>8, <1>9

LEMMA Utf16Undone ==
  /\ Undoes(Seq(Unit), Scalar, Utf16, UnitSym, UnitRest)
  /\ Covers(Seq(Unit), CodePoint, UnitSym, UnitRest)
<1>1. ASSUME NEW r \in Seq(Unit), r # <<>>
      PROVE  /\ UnitRest[r] \in Seq(Unit) /\ Len(UnitRest[r]) < Len(r)
             /\ UnitSym[r] \in CodePoint
             /\ UnitSym[r] \in Scalar => r = Utf16[UnitSym[r]] \o UnitRest[r]
  <2>1. /\ r = UnitFront(r) \o UnitRest[r] /\ UnitRest[r] \in Seq(Unit)
        /\ Len(UnitRest[r]) < Len(r)
    BY <1>1, UnitNat, UnitFrontOff
  <2>2. /\ r[1] \in Unit /\ UnitSym[r] = IF PairAt(r) THEN PairOf(r[1], r[2]) ELSE r[1]
    BY <1>1, UnitNat, UnitTyped
  <2>3. UnitSym[r] \in CodePoint
    BY <1>1, UnitSymTyped
  <2>4. ASSUME UnitSym[r] \in Scalar PROVE Utf16[UnitSym[r]] = UnitFront(r)
    <3>1. CASE PairAt(r)
      <4> DEFINE c == PairOf(r[1], r[2])
      <4>1. UnitSym[r] = c /\ c >= 65536 /\ HighOf(c) = r[1] /\ LowOf(c) = r[2]
        BY <2>2, <3>1, PairUnits DEF PairAt
      <4> HIDE DEF c
      <4>2. c \in Nat /\ ~(c < 65536) /\ c \in Scalar
        BY <2>4, <4>1, ScalarIs
      <4>3. Utf16[c] = <<HighOf(c), LowOf(c)>>
        BY <4>2 DEF Utf16
      <4> QED
        BY <3>1, <4>1, <4>3 DEF UnitFront
    <3>2. CASE ~PairAt(r)
      <4> DEFINE c == r[1]
      <4>1. UnitSym[r] = c /\ c < 65536
        BY <2>2, <3>2, UnitIs
      <4>2. Utf16[c] = <<c>>
        BY <2>4, <4>1 DEF Utf16
      <4> QED
        BY <3>2, <4>1, <4>2 DEF UnitFront
    <3> QED
      BY <3>1, <3>2
  <2> QED
    BY <2>1, <2>3, <2>4
<1>2. Seq(Unit) \in SUBSET Seq(Nat)
  BY NatSequence, UnitNat
<1>3. Undoes(Seq(Unit), Scalar, Utf16, UnitSym, UnitRest)
  BY <1>1 DEF Undoes
<1>4. Covers(Seq(Unit), CodePoint, UnitSym, UnitRest)
  BY <1>1, <1>2 DEF Covers
<1> QED
  BY <1>3, <1>4

PairedAt(s, n, i) ==
  /\ s[i] \in Highs => i < n /\ s[i + 1] \in Lows
  /\ s[i] \in Lows => i > 1 /\ s[i - 1] \in Highs
Paired(s) == \A i \in 1..Len(s) : PairedAt(s, Len(s), i)

LEMMA PairedConcat ==
  ASSUME NEW a \in Seq(Unit), NEW b \in Seq(Unit), Paired(a), Paired(b)
  PROVE  Paired(a \o b)
<1> DEFINE m == Len(a)
           n == Len(b)
           d == a \o b
<1>1. m \in Nat /\ n \in Nat
  BY LenProperties
<1>2. OfLength(a, Unit, m) /\ OfLength(b, Unit, n)
  BY DEF OfLength
<1>3. (\A i \in 1..m : PairedAt(a, m, i)) /\ (\A i \in 1..n : PairedAt(b, n, i))
  BY DEF Paired
<1> HIDE DEF m, n
<1>4. OfLength(d, Unit, m + n) /\ Concatenates(d, a, m, b, n)
  BY ONLY <1>1, <1>2, ConcatAt
<1> HIDE DEF d, Highs, Lows
<1>5. /\ Len(d) = m + n /\ \A i \in 1..m : d[i] = a[i]
      /\ \A i \in 1..n : d[m + i] = b[i]
  BY <1>4 DEF OfLength, Concatenates
<1>6. ASSUME NEW i \in 1..m + n PROVE PairedAt(d, m + n, i)
  <2>1. CASE i <= m
    <3>1. i \in 1..m /\ (i < m => i + 1 \in 1..m) /\ (i > 1 => i - 1 \in 1..m)
          /\ (i < m => i < m + n)
      BY <1>1, <2>1
    <3>2. d[i] = a[i] /\ (i < m => d[i + 1] = a[i + 1]) /\ (i > 1 => d[i - 1] = a[i - 1])
      BY <1>5, <3>1
    <3>3. PairedAt(a, m, i)
      BY <1>3, <3>1
    <3> QED
      BY ONLY <3>1, <3>2, <3>3 DEF PairedAt
  <2>2. CASE ~(i <= m)
    <3> DEFINE j == i - m
    <3>1. /\ j \in 1..n /\ (j < n => j + 1 \in 1..n) /\ (j > 1 => j - 1 \in 1..n)
          /\ i = m + j /\ i + 1 = m + (j + 1) /\ i - 1 = m + (j - 1)
          /\ (j < n => i < m + n) /\ (j > 1 => i > 1)
      BY <1>1, <2>2
    <3> HIDE DEF j
    <3>2. /\ d[i] = b[j] /\ (j < n => d[i + 1] = b[j + 1]) /\ (j > 1 => d[i - 1] = b[j - 1])
      <4>1. d[m + j] = b[j] /\ (j < n => d[m + (j + 1)] = b[j + 1])
            /\ (j > 1 => d[m + (j - 1)] = b[j - 1])
        BY <1>5, <3>1
      <4> QED
        BY ONLY <3>1, <4>1
    <3>3. PairedAt(b, n, j)
      BY <1>3, <3>1
    <3> QED
      BY ONLY <3>1, <3>2, <3>3 DEF PairedAt
  <2> QED
    BY <2>1, <2>2
<1>7. Paired(d)
  BY <1>5, <1>6 DEF Paired
<1> QED
  BY <1>7 DEF d

LEMMA ScalarPaired ==
  ASSUME NEW c \in Scalar
  PROVE  Paired(Utf16[c]) /\ Utf16[c] \in Seq(Unit)
<1> DEFINE a == Utf16[c]
<1>1. /\ c \notin Highs /\ c \notin Lows
      /\ \/ OfLength(a, Unit, 1) /\ a[1] = c
         \/ OfLength(a, Unit, 2) /\ a[1] \in Highs /\ a[2] \in Lows
  BY Utf16Is
<1> HIDE DEF a
<1>2. CASE OfLength(a, Unit, 1) /\ a[1] = c
  <2>1. Len(a) = 1 /\ \A i \in 1..1 : i = 1
    BY <1>2 DEF OfLength
  <2> QED
    BY <1>1, <1>2, <2>1 DEF Paired, PairedAt, OfLength, a
<1>3. CASE OfLength(a, Unit, 2) /\ a[1] \in Highs /\ a[2] \in Lows
  <2>1. Len(a) = 2 /\ \A i \in 1..2 : i = 1 \/ i = 2
    BY <1>3 DEF OfLength
  <2>2. a[1] \notin Lows /\ a[2] \notin Highs
    BY <1>3, HighsAre, LowsAre
  <2>3. \A i \in 1..2 : PairedAt(a, 2, i)
    <3>1. 1 + 1 = 2 /\ 2 - 1 = 1 /\ 1 < 2 /\ 2 > 1
      OBVIOUS
    <3>2. PairedAt(a, 2, 1) /\ PairedAt(a, 2, 2)
      BY <1>3, <2>2, <3>1 DEF PairedAt
    <3> QED
      BY <2>1, <3>2
  <2>4. Paired(a)
    BY ONLY <2>1, <2>3 DEF Paired
  <2> QED
    BY <1>3, <2>4 DEF OfLength, a
<1> QED
  BY <1>1, <1>2, <1>3

LEMMA WrittenPaired ==
  ASSUME NEW q \in Seq(Scalar)
  PROVE  Paired(Spelled(Utf16, q)) /\ Spelled(Utf16, q) \in Seq(Unit)
<1> DEFINE T == {x \in Seq(Scalar) : Paired(Spelled(Utf16, x)) /\ Spelled(Utf16, x) \in Seq(Unit)}
<1>1. <<>> \in T
  <2>1. Spelled(Utf16, <<>>) = <<>>
    BY WrittenEmpty
  <2>2. Paired(<<>>)
    BY EmptySeq DEF Paired
  <2> QED
    BY <2>1, <2>2, EmptySeq
<1>2. ASSUME NEW x \in T, NEW c \in Scalar PROVE Append(x, c) \in T
  <2> DEFINE one == <<c>>
             a == Spelled(Utf16, x)
             b == Utf16[c]
  <2>1. x \in Seq(Scalar) /\ one \in Seq(Scalar) /\ Append(x, c) = x \o one
        /\ Append(x, c) \in Seq(Scalar)
    BY AppendIsConcat, AppendProperties
  <2>2. Spelled(Utf16, one) = b
    BY Utf16Typed, WrittenOne
  <2> HIDE DEF one
  <2>3. Spelled(Utf16, x \o one) = Spelled(Utf16, x) \o Spelled(Utf16, one)
    BY ONLY <2>1, Utf16Typed, WrittenConcat
  <2>4. Paired(a) /\ a \in Seq(Unit) /\ Paired(b) /\ b \in Seq(Unit)
    BY ScalarPaired
  <2> HIDE DEF a, b
  <2>5. Paired(a \o b) /\ a \o b \in Seq(Unit)
    BY <2>4, PairedConcat, ConcatProperties
  <2>6. Spelled(Utf16, Append(x, c)) = a \o b
    BY <2>1, <2>2, <2>3 DEF a
  <2> QED
    BY <2>1, <2>5, <2>6
<1>3. T = Seq(Scalar)
  <2> HIDE DEF T
  <2>1. T \in SUBSET Seq(Scalar)
    BY DEF T
  <2> QED
    BY ONLY <1>1, <1>2, <2>1, SequenceInduction
<1> QED
  BY <1>3

-----------------------------------------------------------------------------
\* Digits of six bits, and octets.

Below(n) == {y \in Nat : y < n}
\* The value of two digits, and more, of six bits.
TwoSixes(x, y) == x * 64 + y
ThreeSixes(x, y, z) == TwoSixes(TwoSixes(x, y), z)
FourSixes(x, y, z, u) == TwoSixes(ThreeSixes(x, y, z), u)

LEMMA TwoDigits ==
  ASSUME NEW x \in Nat, NEW y \in Below(64)
  PROVE  /\ TwoSixes(x, y) \in Nat /\ TwoSixes(x, y) \div 64 = x /\ TwoSixes(x, y) % 64 = y
         /\ TwoSixes(x, y) >= 64 * x /\ TwoSixes(x, y) < 64 * (x + 1)
BY SMT DEF TwoSixes, Below

LEMMA InDigits ==
  ASSUME NEW c \in Nat
  PROVE  /\ c \div 64 \in Nat /\ c % 64 \in Below(64) /\ c = TwoSixes(c \div 64, c % 64)
         /\ 64 * (c \div 64) <= c
BY SMT DEF TwoSixes, Below

\* What the encoder divides by.
LEMMA Units64 ==
  ASSUME NEW c \in Nat
  PROVE  /\ c \div 1 = c
         /\ c \div 4096 = (c \div 64) \div 64
         /\ c \div (64 * 4096) = ((c \div 64) \div 64) \div 64
<1>1. c \div 1 = c
  BY SMT
<1>2. c \div 4096 = (c \div 64) \div 64
  BY SMT
<1>3. c \div (64 * 4096) = ((c \div 64) \div 64) \div 64
  BY SMT
<1> QED
  BY <1>1, <1>2, <1>3

\* Numbers of up to four digits.
SixesAre(x, y, z, u) ==
  /\ NumberOf(<<x>>, 64) = x
  /\ NumberOf(<<x, y>>, 64) = TwoSixes(x, y)
  /\ NumberOf(<<x, y, z>>, 64) = ThreeSixes(x, y, z)
  /\ NumberOf(<<x, y, z, u>>, 64) = FourSixes(x, y, z, u)

LEMMA SixesRead ==
  ASSUME NEW x \in Nat, NEW y \in Nat, NEW z \in Nat, NEW u \in Nat
  PROVE  SixesAre(x, y, z, u)
<1> DEFINE b == 64
<1>0. b \in Base /\ b = 64 /\ b \in Nat
  BY DEF Base
<1> HIDE DEF b
<1> DEFINE none == <<>>
           one == <<x>>
           two == <<x, y>>
           three == <<x, y, z>>
           four == <<x, y, z, u>>
<1>1. one = Append(none, x)
  OBVIOUS
<1>2. two = Append(one, y)
  OBVIOUS
<1>3. three = Append(two, z)
  OBVIOUS
<1>4. four = Append(three, u)
  OBVIOUS
<1>5. none \in Seq(Nat) /\ NumberOf(none, b) = 0
  BY <1>0, EmptySeq, NumberOfEmpty
<1> HIDE DEF none, one, two, three, four
<1>6. one \in Seq(Nat) /\ NumberOf(one, b) = 0 * b + x
  BY <1>0, <1>1, <1>5, NumberOfAppend, AppendProperties
<1>7. two \in Seq(Nat) /\ NumberOf(two, b) = NumberOf(one, b) * b + y
  BY <1>0, <1>2, <1>6, NumberOfAppend, AppendProperties
<1>8. three \in Seq(Nat) /\ NumberOf(three, b) = NumberOf(two, b) * b + z
  BY <1>0, <1>3, <1>7, NumberOfAppend, AppendProperties
<1>9. NumberOf(four, b) = NumberOf(three, b) * b + u
  BY <1>0, <1>4, <1>8, NumberOfAppend
<1>a. NumberOf(one, b) = x
  BY <1>0, <1>6
<1>b. NumberOf(two, b) = TwoSixes(x, y)
  BY <1>0, <1>7, <1>a DEF TwoSixes
<1>c. NumberOf(three, b) = ThreeSixes(x, y, z)
  BY <1>0, <1>8, <1>b DEF TwoSixes, ThreeSixes
<1>d. NumberOf(four, b) = FourSixes(x, y, z, u)
  BY <1>0, <1>9, <1>c DEF TwoSixes, FourSixes
<1> QED
  BY <1>a, <1>b, <1>c, <1>d DEF one, two, three, four, b, SixesAre

\* What is written as it is.
LEMMA WrittenSelf ==
  ASSUME NEW W, NEW w, Mapping(w, W, Seq(Nat)), NEW S \in SUBSET W,
         \A c \in S : w[c] = <<c>>, NEW s \in Seq(S)
  PROVE  Spelled(w, s) = s
<1> DEFINE T == {x \in Seq(S) : Spelled(w, x) = x}
<1>1. <<>> \in T
  BY WrittenEmpty, EmptySeq
<1>2. ASSUME NEW x \in T, NEW e \in S PROVE Append(x, e) \in T
  <2> DEFINE one == <<e>>
  <2>1. x \in Seq(S) /\ Spelled(w, x) = x /\ e \in W /\ one \in Seq(S) /\ w[e] = one
    OBVIOUS
  <2>2. x \in Seq(W) /\ one \in Seq(W)
    BY <2>1
  <2>3. Spelled(w, one) = one
    BY <2>1, WrittenOne
  <2>4. Append(x, e) = x \o one /\ Append(x, e) \in Seq(S)
    BY <2>1, AppendIsConcat, AppendProperties
  <2> HIDE DEF one, T
  <2>5. Spelled(w, x \o one) = Spelled(w, x) \o Spelled(w, one)
    <3>1. Mapping(w, W, Seq(Nat)) /\ x \in Seq(W) /\ one \in Seq(W)
      BY <2>2
    <3> QED
      BY ONLY <3>1, WrittenConcat
  <2> QED
    BY <2>1, <2>3, <2>4, <2>5 DEF T
<1>3. T = Seq(S)
  <2>1. T \in SUBSET Seq(S)
    OBVIOUS
  <2> HIDE DEF T
  <2> QED
    BY ONLY <1>1, <1>2, <2>1, SequenceInduction
<1> QED
  BY <1>3

Octet == Below(256)

LEMMA OctetIs ==
  /\ \A b : b \in Octet <=> b \in 0..255
  /\ Octet \subseteq Scalar /\ Octet \subseteq Unit /\ Octet \in SUBSET Nat
  /\ Below(128) \subseteq Octet
<1>1. \A b : b \in Octet <=> b \in Nat /\ b < 256
  BY DEF Octet, Below
<1>2. \A b : b \in Octet <=> b \in 0..255
  BY <1>1
<1>3. ASSUME NEW b \in Octet PROVE b \in Unit /\ b \in Scalar
  <2>1. b \in Unit /\ b \notin Highs /\ b \notin Lows
    BY <1>1, UnitIs, HighsAre, LowsAre
  <2> QED
    BY <2>1, ScalarIs
<1>4. Below(128) \subseteq Octet
  BY <1>1 DEF Below
<1> QED
  BY <1>1, <1>2, <1>3, <1>4

LEMMA WiderSeq ==
  ASSUME NEW S, NEW W, S \subseteq W, NEW s \in Seq(S)
  PROVE  s \in Seq(W)
<1> DEFINE n == Len(s)
<1>1. n \in Nat /\ s \in [1..n -> S]
  BY LenProperties
<1>2. s \in [1..n -> W]
  BY <1>1
<1> HIDE DEF n
<1> QED
  BY <1>1, <1>2, FunctionIsSeq

\* b is longer than u, or as long and u all ASCII: so UTF-8 is to UTF-16.
Plain7(u, m) == \A i \in 1..m : u[i] \in Below(128)
Outgrows(u, b) ==
  /\ u \in Seq(Nat) /\ b \in Seq(Nat)
  /\ Len(u) < Len(b) \/ (Len(u) = Len(b) /\ Plain7(u, Len(u)))

LEMMA LongerBoth ==
  ASSUME NEW u, NEW b, NEW v, NEW c, Outgrows(u, b), Outgrows(v, c)
  PROVE  Outgrows(u \o v, b \o c)
<1> DEFINE k == Len(u)
           l == Len(b)
           m == Len(v)
           n == Len(c)
<1>1. /\ OfLength(u, Nat, k) /\ OfLength(b, Nat, l) /\ OfLength(v, Nat, m) /\ OfLength(c, Nat, n)
      /\ k \in Nat /\ l \in Nat /\ m \in Nat /\ n \in Nat
      /\ k < l \/ (k = l /\ Plain7(u, k))
      /\ m < n \/ (m = n /\ Plain7(v, m))
  BY LenProperties DEF Outgrows, OfLength
<1> HIDE DEF k, l, m, n
<1>2. /\ OfLength(u \o v, Nat, k + m) /\ Concatenates(u \o v, u, k, v, m)
      /\ OfLength(b \o c, Nat, l + n)
  BY <1>1, ConcatAt
<1>3. CASE k < l \/ m < n
  <2>1. k + m < l + n
    BY <1>1, <1>3
  <2> QED
    BY <1>2, <2>1 DEF Outgrows, OfLength
<1>4. CASE k = l /\ Plain7(u, k) /\ m = n /\ Plain7(v, m)
  <2> DEFINE d == u \o v
  <2>1. \A i \in 1..k : d[i] \in Below(128)
    BY <1>2, <1>4 DEF Concatenates, Plain7
  <2>2. \A i \in 1..m : d[k + i] \in Below(128)
    BY <1>2, <1>4 DEF Concatenates, Plain7
  <2> HIDE DEF d
  <2>3. ASSUME NEW i \in 1..k + m PROVE d[i] \in Below(128)
    <3>1. CASE i <= k
      BY <1>1, <2>1, <3>1
    <3>2. CASE i > k
      <4>1. i - k \in 1..m /\ k + (i - k) = i
        BY <1>1, <3>2
      <4> QED
        BY <2>2, <4>1
    <3> QED
      BY <1>1, <3>1, <3>2
  <2>4. Plain7(d, k + m)
    BY <2>3 DEF Plain7
  <2> QED
    BY <1>2, <1>4, <2>4 DEF Outgrows, OfLength, d
<1> QED
  BY <1>1, <1>3, <1>4

LEMMA FourElements ==
  ASSUME NEW p \in Nat, NEW q \in Nat, NEW r \in Nat, NEW s \in Nat
  PROVE  (<<p>> \o <<q>>) \o (<<r>> \o <<s>>) = <<p, q, r, s>>
<1> DEFINE a == <<p>>
           b == <<p, q>>
           c == <<p, q, r>>
           d == <<p, q, r, s>>
           x == <<q>>
           y == <<r>>
           z == <<s>>
<1>1. b = Append(a, q)
  OBVIOUS
<1>2. c = Append(b, r)
  OBVIOUS
<1>3. d = Append(c, s)
  OBVIOUS
<1>4. /\ a \in Seq(Nat) /\ b \in Seq(Nat) /\ c \in Seq(Nat)
      /\ x \in Seq(Nat) /\ y \in Seq(Nat) /\ z \in Seq(Nat)
  OBVIOUS
<1> HIDE DEF a, b, c, d
<1>5. a \o x = b
  BY <1>1, <1>4, AppendIsConcat
<1>6. b \o y = c
  BY <1>2, <1>4, AppendIsConcat
<1>7. c \o z = d
  BY <1>3, <1>4, AppendIsConcat
<1>8. Triple(Nat, b, y, z)
  BY <1>4 DEF Triple
<1> HIDE DEF x, y, z
<1>9. (b \o y) \o z = b \o (y \o z)
  BY <1>8, Associate
<1>10. (a \o x) \o (y \o z) = d
  BY <1>5, <1>6, <1>7, <1>9
<1> QED
  BY <1>10 DEF a, d, x, y, z
=============================================================================
