--------------------------- MODULE RtpStreamProofs ---------------------------
(***************************************************************************)
(* Proofs about RtpStream, for all files that consist of H.264 NALUs and   *)
(* all sizes of buffers, packets and counters.                             *)
(***************************************************************************)
EXTENDS RtpStream, SequenceTheorems, WellFoundedInduction, TLAPS

(* Induction over the natural numbers, for a set instead of an operator.   *)
LEMMA SetInduction ==
  ASSUME NEW T \in SUBSET Nat, 0 \in T, \A n \in T : n + 1 \in T
  PROVE  T = Nat
<1> DEFINE U == Nat \ T
<1> SUFFICES ASSUME U # {} PROVE FALSE
    OBVIOUS
<1>1. PICK m \in U : \A n \in U : ~(<<n, m>> \in OpToRel(<, Nat))
      BY NatLessThanWellFounded, WFMin
<1>2. \A n \in U : ~(n < m)
      BY <1>1 DEF OpToRel
<1>3. m - 1 \in Nat /\ m - 1 < m /\ (m - 1) + 1 = m
      OBVIOUS
<1>4. m - 1 \in T
      BY <1>2, <1>3
<1> QED BY <1>3, <1>4

(* The function that FlattenSeq builds: element i has the first i joined.  *)
Joins(s, n, f) ==
  f = [i \in 1..n |-> IF i = 1 THEN s[i] ELSE f[i - 1] \o s[i]]

(* Such a function can be continued by one element.                        *)
LEMMA JoinsExtends ==
  ASSUME NEW s, NEW n \in Nat, NEW f, Joins(s, n, f)
  PROVE  \E g : Joins(s, n + 1, g)
<1> DEFINE last == IF n + 1 = 1 THEN s[n + 1] ELSE f[n] \o s[n + 1]
           g == [i \in 1..(n + 1) |-> IF i = n + 1 THEN last ELSE f[i]]
           h == [i \in 1..(n + 1) |-> IF i = 1 THEN s[i] ELSE g[i - 1] \o s[i]]
<1>1. ASSUME NEW i \in 1..(n + 1) PROVE g[i] = h[i]
  <2>1. CASE i = n + 1
    <3>1. CASE n = 0
          BY <2>1, <3>1
    <3>2. CASE n # 0
      <4>1. i - 1 = n /\ n \in 1..(n + 1) /\ n # n + 1 /\ i # 1
            BY <2>1, <3>2
      <4>2. g[n] = f[n]
            BY <4>1
      <4> QED BY <2>1, <3>2, <4>1, <4>2
    <3> QED BY <3>1, <3>2
  <2>2. CASE i # n + 1
    <3>1. i \in 1..n
          BY <2>2
    <3>2. f[i] = IF i = 1 THEN s[i] ELSE f[i - 1] \o s[i]
          BY <3>1 DEF Joins
    <3>3. CASE i # 1
      <4>1. i - 1 \in 1..(n + 1) /\ i - 1 # n + 1
            BY <3>1, <3>3
      <4>2. g[i - 1] = f[i - 1]
            BY <4>1
      <4> QED BY <2>2, <3>2, <3>3, <4>2
    <3> QED BY <2>2, <3>2, <3>3
  <2> QED BY <2>1, <2>2
<1>2. g = h
  <2> HIDE DEF last
  <2>1. DOMAIN g = 1..(n + 1) /\ DOMAIN h = 1..(n + 1)
        OBVIOUS
  <2> QED BY <1>1
<1> QED BY <1>2 DEF Joins

(* There is one for every length.                                          *)
LEMMA JoinsExists ==
  ASSUME NEW s, NEW n \in Nat
  PROVE  \E f : Joins(s, n, f)
<1> DEFINE T == {k \in Nat : \E f : Joins(s, k, f)}
<1>1. 0 \in T
  <2>1. \A f : [i \in 1..0 |-> IF i = 1 THEN s[i] ELSE f[i - 1] \o s[i]] =
               [i \in 1..0 |-> << >>]
        OBVIOUS
  <2>2. Joins(s, 0, [i \in 1..0 |-> << >>])
        BY <2>1 DEF Joins
  <2> QED BY <2>2
<1>2. \A k \in T : k + 1 \in T
      BY JoinsExtends
<1>3. T = Nat
  <2> HIDE DEF T
  <2>1. T \in SUBSET Nat
        BY DEF T
  <2> QED BY <1>1, <1>2, <2>1, SetInduction
<1> QED BY <1>3

(* What is joined of the first elements does not depend on the others.     *)
LEMMA JoinsAgree ==
  ASSUME NEW s, NEW t, NEW n \in Nat, NEW m \in Nat, m <= n, NEW f, NEW g,
         Joins(s, n, f), Joins(t, m, g), \A i \in 1..m : s[i] = t[i]
  PROVE  \A i \in 1..m : f[i] = g[i]
<1> DEFINE T == {k \in Nat : k \in 1..m => f[k] = g[k]}
<1>1. /\ \A i \in 1..n : f[i] = IF i = 1 THEN s[i] ELSE f[i - 1] \o s[i]
      /\ \A i \in 1..m : g[i] = IF i = 1 THEN t[i] ELSE g[i - 1] \o t[i]
      BY DEF Joins
<1>2. 0 \in T
      OBVIOUS
<1>3. ASSUME NEW k \in T PROVE k + 1 \in T
  <2> SUFFICES ASSUME k + 1 \in 1..m PROVE f[k + 1] = g[k + 1]
      OBVIOUS
  <2>1. /\ f[k + 1] = IF k + 1 = 1 THEN s[k + 1] ELSE f[k] \o s[k + 1]
        /\ g[k + 1] = IF k + 1 = 1 THEN t[k + 1] ELSE g[k] \o t[k + 1]
    <3>1. k + 1 - 1 = k /\ k + 1 \in 1..n
          OBVIOUS
    <3> QED BY <1>1, <3>1
  <2>2. s[k + 1] = t[k + 1]
        OBVIOUS
  <2>3. CASE k = 0
        BY <2>1, <2>2, <2>3
  <2>4. CASE k # 0
    <3>1. k \in 1..m /\ k + 1 # 1
          BY <2>4
    <3>2. f[k] = g[k]
          BY <3>1
    <3> QED BY <2>1, <2>2, <3>1, <3>2
  <2> QED BY <2>3, <2>4
<1>4. T = Nat
  <2> HIDE DEF T
  <2>1. T \in SUBSET Nat
        BY DEF T
  <2> QED BY <1>2, <1>3, <2>1, SetInduction
<1> QED BY <1>4

(* What FlattenSeq returns for a sequence that is not empty.               *)
LEMMA FlattenIsJoined ==
  ASSUME NEW s, Len(s) \in Nat \ {0}
  PROVE  \E f : Joins(s, Len(s), f) /\ FlattenSeq(s) = f[Len(s)]
<1> DEFINE J(f) == f = [i \in 1..Len(s) |-> IF i = 1 THEN s[i] ELSE f[i - 1] \o s[i]]
           f == CHOOSE flatten : J(flatten)
<1>1. \E g : J(g)
  <2>1. PICK g : Joins(s, Len(s), g)
        BY JoinsExists
  <2>2. J(g)
        BY <2>1 DEF Joins
  <2> QED BY <2>2
<1>2. J(f)
      BY <1>1
<1>3. FlattenSeq(s) = f[Len(s)]
      BY DEF FlattenSeq
<1> QED BY <1>2, <1>3 DEF Joins

-----------------------------------------------------------------------------
(* The layout of a file: one start code and one NALU after the other.      *)
Byte     == 0..255
Piece(k) == stream[k].code \o stream[k].nalu

(* The start codes and the NALUs of a file.                                *)
LEMMA PieceType ==
  ASSUME stream \in Streams
  PROVE  /\ Len(stream) \in Nat /\ DOMAIN stream = 1..Len(stream)
         /\ \A k \in 1..Len(stream) :
              /\ stream[k].code \in {Code3, Code4}
              /\ stream[k].code \in Seq(Byte) /\ Len(stream[k].code) \in {3, 4}
              /\ stream[k].nalu \in Seq(Byte)
              /\ IsNalu(stream[k].nalu)
              /\ Len(stream[k].nalu) \in Nat \ {0}
<1> DEFINE Units == [code : {Code3, Code4}, nalu : Seq(Byte)]
<1>1. stream \in Seq(Units)
      BY StreamAssumption DEF Byte
<1>2. Len(stream) \in Nat /\ DOMAIN stream = 1..Len(stream)
      BY <1>1, LenProperties
<1>3. ASSUME NEW k \in 1..Len(stream)
      PROVE  /\ stream[k].code \in {Code3, Code4}
             /\ stream[k].code \in Seq(Byte) /\ Len(stream[k].code) \in {3, 4}
             /\ stream[k].nalu \in Seq(Byte)
             /\ IsNalu(stream[k].nalu)
             /\ Len(stream[k].nalu) \in Nat \ {0}
  <2>1. stream[k] \in Units
    <3> HIDE DEF Units
    <3> QED BY <1>1, <1>3, ElementOfSeq
  <2>2. IsNalu(stream[k].nalu)
        BY <1>2, StreamAssumption
  <2>3. Code3 \in Seq(Byte) /\ Code4 \in Seq(Byte) /\ Len(Code3) = 3 /\ Len(Code4) = 4
        BY DEF Code3, Code4, Byte
  <2>4. stream[k].nalu \in Seq(Byte) /\ stream[k].nalu # << >>
        BY <2>1, <2>2 DEF IsNalu
  <2>5. Len(stream[k].nalu) \in Nat \ {0}
        BY <2>4, EmptySeq
  <2> QED BY <2>1, <2>2, <2>3, <2>4, <2>5
<1> QED BY <1>2, <1>3

(* The bytes of a piece: its code, then its NALU.                          *)
LEMMA PieceIs ==
  ASSUME stream \in Streams, NEW k \in 1..Len(stream)
  PROVE  /\ Piece(k) \in Seq(Byte)
         /\ Len(Piece(k)) = Len(stream[k].code) + Len(stream[k].nalu)
         /\ Len(Piece(k)) \in Nat /\ Len(Piece(k)) >= 4
         /\ \A i \in 1..Len(Piece(k)) :
              Piece(k)[i] = IF i <= Len(stream[k].code) THEN stream[k].code[i]
                            ELSE stream[k].nalu[i - Len(stream[k].code)]
<1> DEFINE a == stream[k].code
           b == stream[k].nalu
<1>1. Piece(k) = a \o b /\ a \in Seq(Byte) /\ b \in Seq(Byte)
      BY PieceType DEF Piece
<1>2. Len(a) \in Nat /\ Len(b) \in Nat /\ Len(a) + Len(b) \in Nat /\ Len(a) + Len(b) >= 4
  <2> DEFINE m == Len(a)
             n == Len(b)
  <2>1. m \in {3, 4} /\ n \in Nat \ {0}
        BY PieceType
  <2> HIDE DEF m, n
  <2>2. m \in Nat /\ n \in Nat /\ m + n \in Nat /\ m + n >= 4
        BY <2>1
  <2> QED BY <2>2 DEF m, n
<1> HIDE DEF a, b
<1>3. /\ a \o b \in Seq(Byte)
      /\ Len(a \o b) = Len(a) + Len(b)
      /\ \A i \in 1..(Len(a) + Len(b)) : (a \o b)[i] = IF i <= Len(a) THEN a[i] ELSE b[i - Len(a)]
      BY <1>1, ConcatProperties
<1>4. Len(Piece(k)) = Len(a) + Len(b) /\ Len(Piece(k)) \in Nat /\ Len(Piece(k)) >= 4
      BY <1>1, <1>2, <1>3
<1> QED BY <1>1, <1>3, <1>4 DEF a, b

(* Each piece follows what was there.                                      *)
LEMMA UpToStep ==
  ASSUME stream \in Streams
  PROVE  /\ UpTo(0) = << >>
         /\ \A k \in 1..Len(stream) :
              UpTo(k) = IF k = 1 THEN Piece(1) ELSE UpTo(k - 1) \o Piece(k)
<1> DEFINE pieces(k) == [j \in 1..k |-> Piece(j)]
<1>1. \A k : UpTo(k) = FlattenSeq(pieces(k))
      BY DEF UpTo, Piece
<1>2. \A k \in Nat : Len(pieces(k)) = k
      OBVIOUS
<1>3. UpTo(0) = << >>
  <2>1. Len(pieces(0)) = 0 /\ pieces(0) = << >>
        OBVIOUS
  <2> HIDE DEF pieces
  <2> QED BY <1>1, <2>1 DEF FlattenSeq
<1>4. ASSUME NEW k \in 1..Len(stream)
      PROVE  UpTo(k) = IF k = 1 THEN Piece(1) ELSE UpTo(k - 1) \o Piece(k)
  <2>1. k \in Nat \ {0} /\ k \in 0..Len(stream) /\ k - 1 \in 0..Len(stream)
        BY <1>4, PieceType
  <2>2. Len(pieces(k)) = k /\ Len(pieces(k - 1)) = k - 1
        BY <1>2, <2>1
  <2>3. \A i \in 1..k : pieces(k)[i] = Piece(i)
        OBVIOUS
  <2>4. \A i \in 1..(k - 1) : pieces(k)[i] = pieces(k - 1)[i]
        BY <2>1
  <2> HIDE DEF pieces
  <2>5. PICK f : Joins(pieces(k), k, f) /\ UpTo(k) = f[k]
        BY <1>1, <2>1, <2>2, FlattenIsJoined
  <2>6. f[k] = IF k = 1 THEN pieces(k)[k] ELSE f[k - 1] \o pieces(k)[k]
    <3>1. \A i \in 1..k : f[i] = IF i = 1 THEN pieces(k)[i] ELSE f[i - 1] \o pieces(k)[i]
          BY <2>5 DEF Joins
    <3> QED BY <2>1, <3>1
  <2>7. CASE k = 1
        BY <2>1, <2>3, <2>5, <2>6, <2>7
  <2>8. CASE k # 1
    <3>1. k - 1 \in Nat \ {0} /\ k - 1 \in 1..(k - 1) /\ k - 1 \in 1..k
          BY <2>1, <2>8
    <3>2. PICK g : Joins(pieces(k - 1), k - 1, g) /\ UpTo(k - 1) = g[k - 1]
          BY <1>1, <2>2, <3>1, FlattenIsJoined
    <3>3. \A i \in 1..(k - 1) : f[i] = g[i]
      <4>1. Joins(pieces(k), k, f) /\ Joins(pieces(k - 1), k - 1, g)
            BY <2>5, <3>2
      <4>2. k \in Nat /\ k - 1 \in Nat /\ k - 1 <= k
            BY <2>1
      <4> DEFINE p == pieces(k)
                 q == pieces(k - 1)
                 n == k - 1
      <4>3. /\ Joins(p, k, f) /\ Joins(q, n, g) /\ k \in Nat /\ n \in Nat
            /\ n <= k /\ \A i \in 1..n : p[i] = q[i]
            BY <2>4, <4>1, <4>2
      <4> HIDE DEF p, q, n
      <4>4. \A i \in 1..n : f[i] = g[i]
            BY <4>3, JoinsAgree
      <4> QED BY <4>4 DEF n
    <3>4. f[k - 1] = g[k - 1]
          BY <3>1, <3>3
    <3>5. UpTo(k) = f[k - 1] \o pieces(k)[k]
          BY <2>5, <2>6, <2>8
    <3>6. pieces(k)[k] = Piece(k)
          BY <2>1, <2>3
    <3>7. UpTo(k) = UpTo(k - 1) \o Piece(k)
          BY <3>2, <3>4, <3>5, <3>6, Zenon
    <3> QED BY <2>8, <3>7, Zenon
  <2> QED BY <2>7, <2>8
<1> QED BY <1>3, <1>4

(* A file is made of bytes.                                                *)
LEMMA UpToType ==
  ASSUME stream \in Streams
  PROVE  \A k \in 0..Len(stream) : UpTo(k) \in Seq(Byte)
<1> DEFINE T == {k \in Nat : k <= Len(stream) => UpTo(k) \in Seq(Byte)}
<1>1. 0 \in T
      BY UpToStep, EmptySeq
<1>2. ASSUME NEW k \in T PROVE k + 1 \in T
  <2> SUFFICES ASSUME k + 1 <= Len(stream) PROVE UpTo(k + 1) \in Seq(Byte)
      OBVIOUS
  <2>1. k + 1 \in 1..Len(stream) /\ (k + 1) - 1 = k /\ k <= Len(stream)
        BY PieceType
  <2>2. Piece(k + 1) \in Seq(Byte) /\ UpTo(k) \in Seq(Byte)
        BY <2>1, PieceIs
  <2>3. CASE k + 1 = 1
    <3>1. UpTo(k + 1) = Piece(1)
          BY <2>1, <2>3, UpToStep
    <3> QED BY <2>2, <2>3, <3>1
  <2>4. CASE k + 1 # 1
    <3>1. UpTo(k + 1) = UpTo(k) \o Piece(k + 1)
          BY <2>1, <2>4, UpToStep
    <3> QED BY <2>2, <3>1, ConcatProperties
  <2> QED BY <2>3, <2>4
<1>3. T = Nat
  <2> HIDE DEF T
  <2>1. T \in SUBSET Nat
        BY DEF T
  <2> QED BY <1>1, <1>2, <2>1, SetInduction
<1> QED BY <1>3, PieceType

(* Where each piece lies in what is read up to any later one.              *)
LEMMA Appended ==
  ASSUME stream \in Streams, NEW k \in 1..Len(stream)
  PROVE  /\ UpTo(k) \in Seq(Byte) /\ UpTo(k - 1) \in Seq(Byte)
         /\ Len(UpTo(k)) = Len(UpTo(k - 1)) + Len(Piece(k))
         /\ \A i \in 1..Len(UpTo(k - 1)) : UpTo(k)[i] = UpTo(k - 1)[i]
         /\ \A i \in 1..Len(Piece(k)) :
              UpTo(k)[Len(UpTo(k - 1)) + i] = Piece(k)[i]
<1>1. /\ UpTo(k) \in Seq(Byte) /\ UpTo(k - 1) \in Seq(Byte) /\ Piece(k) \in Seq(Byte)
      /\ k \in Nat
  <2>1. Len(stream) \in Nat
        BY PieceType
  <2>2. k \in 0..Len(stream) /\ k - 1 \in 0..Len(stream) /\ k \in Nat
        BY <2>1
  <2> QED BY <2>2, UpToType, PieceIs
<1>2. CASE k = 1
  <2>1. UpTo(k) = Piece(k) /\ UpTo(k - 1) = << >>
        BY <1>2, UpToStep
  <2>2. Len(UpTo(k - 1)) = 0
        BY <2>1
  <2>3. Len(Piece(k)) \in Nat
        BY <1>1
  <2>4. \A i \in 1..Len(Piece(k)) : UpTo(k)[0 + i] = Piece(k)[i]
        BY <2>1
  <2> QED BY <1>1, <2>1, <2>2, <2>3, <2>4
<1>3. CASE k # 1
  <2>1. UpTo(k) = UpTo(k - 1) \o Piece(k)
        BY <1>3, UpToStep
  <2> DEFINE a == UpTo(k - 1)
             b == Piece(k)
  <2> HIDE DEF a, b
  <2>2. a \in Seq(Byte) /\ b \in Seq(Byte)
        BY <1>1 DEF a, b
  <2>3. /\ Len(a \o b) = Len(a) + Len(b)
        /\ \A i \in 1..Len(a) + Len(b) : (a \o b)[i] = IF i <= Len(a) THEN a[i] ELSE b[i - Len(a)]
        BY <2>2, ConcatProperties
  <2>4. Len(a) \in Nat /\ Len(b) \in Nat
        BY <2>2
  <2>5. /\ \A i \in 1..Len(a) : (a \o b)[i] = a[i]
        /\ \A i \in 1..Len(b) : (a \o b)[Len(a) + i] = b[i]
        BY <2>3, <2>4
  <2> QED BY <1>1, <2>1, <2>3, <2>5 DEF a, b
<1> QED BY <1>2, <1>3

(* What comes later in a file leaves what is before it alone.              *)
LEMMA UpToGrows ==
  ASSUME stream \in Streams, NEW k \in 0..Len(stream), NEW m \in k..Len(stream)
  PROVE  /\ Len(UpTo(k)) <= Len(UpTo(m))
         /\ \A i \in 1..Len(UpTo(k)) : UpTo(m)[i] = UpTo(k)[i]
<1> DEFINE Grows(n) == /\ Len(UpTo(k)) <= Len(UpTo(n))
                       /\ \A i \in 1..Len(UpTo(k)) : UpTo(n)[i] = UpTo(k)[i]
           T == {n \in Nat : n \in k..Len(stream) => Grows(n)}
<1>1. Len(stream) \in Nat /\ k \in Nat /\ k <= Len(stream)
      BY PieceType
<1>2. \A n \in 0..Len(stream) : UpTo(n) \in Seq(Byte) /\ Len(UpTo(n)) \in Nat
      BY UpToType
<1>3. Grows(k)
      BY <1>1, <1>2
<1>4. 0 \in T
      BY <1>1, <1>3
<1>5. ASSUME NEW n \in T PROVE n + 1 \in T
  <2> SUFFICES ASSUME n + 1 \in k..Len(stream) PROVE Grows(n + 1)
      BY DEF T
  <2>1. CASE n + 1 = k
        BY <1>3, <2>1
  <2>2. CASE n + 1 # k
    <3>1. /\ n \in k..Len(stream) /\ n + 1 \in 1..Len(stream) /\ (n + 1) - 1 = n
          /\ n \in 0..Len(stream) /\ n + 1 \in 0..Len(stream)
          BY <1>1, <2>2
    <3>2. Grows(n)
          BY <3>1 DEF T
    <3>3. /\ Len(UpTo(n + 1)) = Len(UpTo(n)) + Len(Piece(n + 1))
          /\ \A i \in 1..Len(UpTo(n)) : UpTo(n + 1)[i] = UpTo(n)[i]
          BY <3>1, Appended
    <3>4. Len(Piece(n + 1)) \in Nat
          BY <3>1, PieceIs
    <3> QED BY <1>1, <1>2, <3>1, <3>2, <3>3, <3>4
  <2> QED BY <2>1, <2>2
<1>6. T = Nat
  <2> HIDE DEF T
  <2>1. T \in SUBSET Nat
        BY DEF T
  <2> QED BY <1>4, <1>5, <2>1, SetInduction
<1> QED BY <1>1, <1>6

-----------------------------------------------------------------------------
(* Start codes, byte by byte.                                              *)
LEMMA SubSeqIs ==
  ASSUME NEW buf \in Seq(Byte), NEW i \in Nat \ {0}, NEW j \in Nat, i <= j, j <= Len(buf)
  PROVE  /\ SubSeq(buf, i, j) \in Seq(Byte)
         /\ Len(SubSeq(buf, i, j)) = j - i + 1
         /\ \A n \in 1..(j - i + 1) : SubSeq(buf, i, j)[n] = buf[i + n - 1]
<1>1. \A n \in i..j : buf[n] \in Byte
      BY ElementOfSeq
<1> QED BY <1>1, SubSeqProperties

(* The bytes of the two start codes.                                       *)
LEMMA CodesAre ==
  /\ Code3 \in Seq(Byte) /\ Len(Code3) = 3
  /\ Code3[1] = 0 /\ Code3[2] = 0 /\ Code3[3] = 1
  /\ Code4 \in Seq(Byte) /\ Len(Code4) = 4
  /\ Code4[1] = 0 /\ Code4[2] = 0 /\ Code4[3] = 0 /\ Code4[4] = 1
BY DEF Code3, Code4, Byte

(* Three bytes are the short start code when they read 0 0 1,              *)
LEMMA Code3Is ==
  ASSUME NEW buf \in Seq(Byte), NEW i \in Nat \ {0}, i + 2 <= Len(buf)
  PROVE  SubSeq(buf, i, i + 2) = Code3 <=> buf[i] = 0 /\ buf[i + 1] = 0 /\ buf[i + 2] = 1
<1> DEFINE s == SubSeq(buf, i, i + 2)
<1>1. s \in Seq(Byte) /\ Len(s) = 3 /\ s[1] = buf[i] /\ s[2] = buf[i + 1] /\ s[3] = buf[i + 2]
  <2>1. /\ s \in Seq(Byte) /\ Len(s) = (i + 2) - i + 1
        /\ \A n \in 1..((i + 2) - i + 1) : s[n] = buf[i + n - 1]
        BY SubSeqIs
  <2> HIDE DEF s
  <2>2. (i + 2) - i + 1 = 3 /\ i + 1 - 1 = i /\ i + 2 - 1 = i + 1 /\ i + 3 - 1 = i + 2
        OBVIOUS
  <2>3. Len(s) = 3 /\ \A n \in 1..3 : s[n] = buf[i + n - 1]
        BY <2>1, <2>2
  <2>4. s[1] = buf[i + 1 - 1] /\ s[2] = buf[i + 2 - 1] /\ s[3] = buf[i + 3 - 1]
        BY <2>3
  <2> QED BY <2>1, <2>2, <2>3, <2>4
<1> HIDE DEF s
<1>2. s = Code3 => s[1] = 0 /\ s[2] = 0 /\ s[3] = 1
      BY CodesAre
<1>3. ASSUME s[1] = 0, s[2] = 0, s[3] = 1 PROVE s = Code3
  <2>1. \A n \in 1..Len(s) : s[n] = Code3[n]
        BY <1>1, <1>3, CodesAre
  <2> QED BY <1>1, <2>1, CodesAre, SeqEqual
<1> QED BY <1>1, <1>2, <1>3 DEF s

(* and four the long one when they read 0 0 0 1.                           *)
LEMMA Code4Is ==
  ASSUME NEW buf \in Seq(Byte), NEW i \in Nat \ {0}, i + 3 <= Len(buf)
  PROVE  SubSeq(buf, i, i + 3) = Code4
           <=> buf[i] = 0 /\ buf[i + 1] = 0 /\ buf[i + 2] = 0 /\ buf[i + 3] = 1
<1> DEFINE s == SubSeq(buf, i, i + 3)
<1>1. /\ s \in Seq(Byte) /\ Len(s) = 4 /\ s[1] = buf[i] /\ s[2] = buf[i + 1]
      /\ s[3] = buf[i + 2] /\ s[4] = buf[i + 3]
  <2>1. /\ s \in Seq(Byte) /\ Len(s) = (i + 3) - i + 1
        /\ \A n \in 1..((i + 3) - i + 1) : s[n] = buf[i + n - 1]
        BY SubSeqIs
  <2> HIDE DEF s
  <2>2. /\ (i + 3) - i + 1 = 4 /\ i + 1 - 1 = i /\ i + 2 - 1 = i + 1
        /\ i + 3 - 1 = i + 2 /\ i + 4 - 1 = i + 3
        OBVIOUS
  <2>3. Len(s) = 4 /\ \A n \in 1..4 : s[n] = buf[i + n - 1]
        BY <2>1, <2>2
  <2>4. /\ s[1] = buf[i + 1 - 1] /\ s[2] = buf[i + 2 - 1]
        /\ s[3] = buf[i + 3 - 1] /\ s[4] = buf[i + 4 - 1]
        BY <2>3
  <2> QED BY <2>1, <2>2, <2>3, <2>4
<1> HIDE DEF s
<1>2. s = Code4 => s[1] = 0 /\ s[2] = 0 /\ s[3] = 0 /\ s[4] = 1
      BY CodesAre
<1>3. ASSUME s[1] = 0, s[2] = 0, s[3] = 0, s[4] = 1 PROVE s = Code4
  <2>1. \A n \in 1..Len(s) : s[n] = Code4[n]
        BY <1>1, <1>3, CodesAre
  <2> QED BY <1>1, <2>1, CodesAre, SeqEqual
<1> QED BY <1>1, <1>2, <1>3 DEF s

(* What startCode3 and startCode4 test.                                    *)
LEMMA StartCodeIs ==
  ASSUME NEW buf \in Seq(Byte), NEW i \in Nat \ {0}
  PROVE  /\ StartCode3(buf, i) <=> /\ i + 2 <= Len(buf)
                                   /\ buf[i] = 0 /\ buf[i + 1] = 0 /\ buf[i + 2] = 1
         /\ StartCode4(buf, i) <=> /\ i + 3 <= Len(buf) /\ buf[i] = 0 /\ buf[i + 1] = 0
                                   /\ buf[i + 2] = 0 /\ buf[i + 3] = 1
BY Code3Is, Code4Is DEF StartCode3, StartCode4

(* The bytes of a NALU.                                                    *)
LEMMA NaluIs ==
  ASSUME NEW nalu \in Seq(Byte), IsNalu(nalu)
  PROVE  /\ Len(nalu) \in Nat \ {0}
         /\ nalu[1] \in Byte /\ nalu[1] < 128 /\ Type(nalu[1]) \in 1..23
         /\ nalu[Len(nalu)] # 0
         /\ \A i \in 1..(Len(nalu) - 2) : ~ (nalu[i] = 0 /\ nalu[i + 1] = 0 /\ nalu[i + 2] = 1)
<1>1. Len(nalu) \in Nat \ {0}
      BY EmptySeq DEF IsNalu
<1>2. nalu[1] \in Byte
      BY <1>1, ElementOfSeq
<1>3. ASSUME NEW i \in 1..(Len(nalu) - 2)
      PROVE  ~ (nalu[i] = 0 /\ nalu[i + 1] = 0 /\ nalu[i + 2] = 1)
  <2>1. i \in Nat \ {0} /\ i + 2 <= Len(nalu)
        BY <1>1
  <2>2. SubSeq(nalu, i, i + 2) # Code3
        BY DEF IsNalu
  <2> QED BY <2>1, <2>2, Code3Is
<1> QED BY <1>1, <1>2, <1>3 DEF IsNalu

(* A buffer that begins with a start code and a NALU: which start code it  *)
(* is, and that there is no other before the NALU's end.                   *)
LEMMA BeginsWith ==
  ASSUME NEW buf \in Seq(Byte), NEW code \in {Code3, Code4},
         NEW nalu \in Seq(Byte), IsNalu(nalu),
         \A j \in 1..(Len(code) + Len(nalu)) :
           j <= Len(buf) => buf[j] = IF j <= Len(code) THEN code[j] ELSE nalu[j - Len(code)]
  PROVE  /\ StartCode3(buf, 1) => code = Code3
         /\ StartCode4(buf, 1) => code = Code4
         /\ \A i \in 4..(Len(code) + Len(nalu)) :
              ~ StartCode3(buf, i) /\ ~ StartCode4(buf, i)
<1> DEFINE c == Len(code)
           z == c + Len(nalu)
<1>1. c \in {3, 4} /\ code[1] = 0 /\ code[2] = 0 /\ code[3] \in {0, 1} /\ code[c] = 1
      BY CodesAre
<1>2. Len(nalu) \in Nat \ {0} /\ Len(buf) \in Nat
      BY NaluIs, LenProperties
<1> HIDE DEF c
<1>3. \A j \in 1..c : j <= Len(buf) => buf[j] = code[j]
      BY <1>1, <1>2 DEF c
<1>4. \A j \in 1..Len(nalu) : c + j <= Len(buf) => buf[c + j] = nalu[j]
  <2> SUFFICES ASSUME NEW j \in 1..Len(nalu), c + j <= Len(buf) PROVE buf[c + j] = nalu[j]
      OBVIOUS
  <2>1. c + j \in 1..z /\ ~(c + j <= c) /\ (c + j) - c = j
        BY <1>1, <1>2
  <2> QED BY <2>1 DEF c
<1>5. (Len(buf) >= 3 /\ buf[3] = 1) => code = Code3
  <2> SUFFICES ASSUME Len(buf) >= 3, buf[3] = 1, code # Code3 PROVE FALSE
      OBVIOUS
  <2>1. code = Code4 /\ c = 4
        BY CodesAre DEF c
  <2> QED BY <1>2, <1>3, <2>1, CodesAre
<1>6. (Len(buf) >= 3 /\ buf[3] = 0) => code = Code4
  <2> SUFFICES ASSUME Len(buf) >= 3, buf[3] = 0, code # Code4 PROVE FALSE
      OBVIOUS
  <2>1. code = Code3 /\ c = 3
        BY CodesAre DEF c
  <2> QED BY <1>2, <1>3, <2>1, CodesAre
<1>7. /\ StartCode3(buf, 1) => code = Code3
      /\ StartCode4(buf, 1) => code = Code4
  <2>1. /\ StartCode3(buf, 1) => 3 <= Len(buf) /\ buf[3] = 1
        /\ StartCode4(buf, 1) => 4 <= Len(buf) /\ buf[3] = 0
    <3>1. 1 \in Nat \ {0} /\ 1 + 2 = 3 /\ 1 + 3 = 4
          OBVIOUS
    <3> QED BY <3>1, StartCodeIs
  <2> QED BY <1>2, <1>5, <1>6, <2>1
<1>8. ASSUME NEW i \in 4..z, i + 2 <= Len(buf), buf[i] = 0, buf[i + 1] = 0,
             \/ buf[i + 2] = 1
             \/ i + 3 <= Len(buf) /\ buf[i + 2] = 0 /\ buf[i + 3] = 1
      PROVE  FALSE
  <2> DEFINE n == i - c
  <2>0. /\ i \in Nat /\ 4 <= i /\ i <= c + Len(nalu) /\ i <= Len(buf) /\ i + 1 <= Len(buf)
        /\ buf[i] = 0 /\ buf[i + 1] = 0
        BY <1>1, <1>2, <1>8
  <2>1. i # c
    <3> SUFFICES ASSUME i = c PROVE FALSE
        OBVIOUS
    <3>1. c \in 1..c /\ c <= Len(buf)
          BY <1>1, <2>0
    <3>2. buf[c] = code[c] /\ buf[c] = 0
          BY <1>3, <2>0, <3>1
    <3> QED BY <1>1, <3>2
  <2>2. /\ n \in 1..Len(nalu) /\ i = c + n /\ i + 1 = c + (n + 1)
        /\ i + 2 = c + (n + 2) /\ i + 3 = c + (n + 3)
        BY <1>1, <1>2, <2>0, <2>1
  <2> HIDE DEF n
  <2>3. nalu[n] = 0
    <3>1. c + n <= Len(buf) /\ buf[c + n] = 0
          BY <2>0, <2>2
    <3> QED BY <1>4, <2>2, <3>1
  <2>4. n + 1 \in 1..Len(nalu) => nalu[n + 1] = 0
    <3>1. c + (n + 1) <= Len(buf) /\ buf[c + (n + 1)] = 0
          BY <2>0, <2>2
    <3> QED BY <1>4, <3>1
  <2>5. n + 2 <= Len(nalu)
        BY <1>2, <2>2, <2>3, <2>4, NaluIs
  <2>6. nalu[n + 2] = buf[i + 2]
        BY <1>2, <1>4, <1>8, <2>2, <2>5
  <2>7. buf[i + 2] # 1
        BY <1>2, <2>2, <2>3, <2>4, <2>5, <2>6, NaluIs
  <2>8. i + 3 <= Len(buf) /\ nalu[n + 2] = 0 /\ buf[i + 3] = 1
        BY <1>8, <2>6, <2>7
  <2>9. n + 3 <= Len(nalu)
        BY <1>2, <2>2, <2>5, <2>8, NaluIs
  <2>10. nalu[n + 3] = 1
        BY <1>2, <1>4, <2>2, <2>8, <2>9
  <2>11. /\ n + 1 \in 1..(Len(nalu) - 2) /\ (n + 1) + 1 = n + 2 /\ (n + 1) + 2 = n + 3
         /\ n + 1 \in 1..Len(nalu)
        BY <1>2, <2>2, <2>9
  <2> QED BY <2>4, <2>8, <2>10, <2>11, NaluIs
<1>9. ASSUME NEW i \in 4..z PROVE ~ StartCode3(buf, i) /\ ~ StartCode4(buf, i)
  <2>1. i \in Nat \ {0} /\ (i + 3 <= Len(buf) => i + 2 <= Len(buf))
        BY <1>1, <1>2
  <2> QED BY <1>8, <2>1, StartCodeIs
<1> QED BY <1>7, <1>9 DEF c

-----------------------------------------------------------------------------
(* What fread delivers.                                                    *)
LEMMA MinIsLeast ==
  ASSUME NEW S \in SUBSET Int, NEW m \in S, \A n \in S : m <= n
  PROVE  Min(S) = m
<1> DEFINE x == CHOOSE x \in S : \A y \in S : x <= y
<1>1. x \in S /\ \A y \in S : x <= y
      OBVIOUS
<1>2. Min(S) = x
      BY DEF Min
<1> HIDE DEF x
<1>3. x \in Int /\ m \in Int /\ x <= m /\ m <= x
      BY <1>1
<1> QED BY <1>2, <1>3

(* The whole file.                                                         *)
LEMMA BytesIs ==
  ASSUME stream \in Streams
  PROVE  Bytes \in Seq(Byte) /\ Len(Bytes) \in Nat
<1>1. Len(stream) \in Nat /\ Len(stream) \in 0..Len(stream)
      BY PieceType
<1>2. Bytes \in Seq(Byte)
      BY <1>1, UpToType DEF Bytes
<1> QED BY <1>2, LenProperties

(* What fread puts into the buffer: bytes of the file from pos on.         *)
LEMMA FreadIs ==
  ASSUME stream \in Streams, pos \in 0..Len(Bytes)
  PROVE  /\ Fread \in Seq(Byte)
         /\ Len(Fread) = IF Eof THEN Len(Bytes) - pos ELSE FrameMax
         /\ Len(Fread) <= FrameMax
         /\ \A j \in 1..Len(Fread) : Fread[j] = Bytes[pos + j]
<1> DEFINE end == IF Eof THEN Len(Bytes) ELSE pos + FrameMax
           ends == {pos + FrameMax, Len(Bytes)}
<1>1. Bytes \in Seq(Byte) /\ Len(Bytes) \in Nat /\ pos \in Nat /\ FrameMax \in Nat \ {0}
      BY BytesIs, StreamAssumption
<1>2. end \in ends /\ end \in Nat /\ end <= Len(Bytes) /\ pos <= end /\ end <= pos + FrameMax
      BY <1>1 DEF Eof
<1>3. ends \in SUBSET Int /\ \A e \in ends : end <= e
      BY <1>1 DEF Eof
<1>4. Fread = SubSeq(Bytes, pos + 1, end)
  <2>1. Min(ends) = end
    <3> HIDE DEF ends, end
    <3> QED BY <1>2, <1>3, MinIsLeast
  <2> QED BY <2>1 DEF Fread
<1>5. end - pos = IF Eof THEN Len(Bytes) - pos ELSE FrameMax
      BY <1>1
<1> HIDE DEF end, ends
<1>6. /\ Fread \in Seq(Byte) /\ Len(Fread) = end - pos
      /\ \A j \in 1..(end - pos) : Fread[j] = Bytes[pos + j]
  <2>1. \A n \in (pos + 1)..end : Bytes[n] \in Byte
    <3> TAKE n \in (pos + 1)..end
    <3>1. n \in 1..Len(Bytes)
          BY <1>1, <1>2
    <3> QED BY <1>1, <3>1, ElementOfSeq
  <2> DEFINE m == pos + 1
             f == SubSeq(Bytes, m, end)
  <2>2. m \in Int /\ end \in Int /\ \A n \in m..end : Bytes[n] \in Byte
        BY <1>1, <1>2, <2>1
  <2>3. /\ f \in Seq(Byte) /\ Len(f) = IF m <= end THEN end - m + 1 ELSE 0
        /\ \A i \in 1..(end - m + 1) : f[i] = Bytes[m + i - 1]
    <3> HIDE DEF m
    <3> QED BY <2>2, SubSeqProperties
  <2>4. /\ (IF m <= end THEN end - m + 1 ELSE 0) = end - pos /\ end - m + 1 = end - pos
        BY <1>1, <1>2
  <2>5. \A i \in 1..(end - pos) : m + i - 1 = pos + i
        BY <1>1, <1>2
  <2>6. Fread = f
        BY <1>4
  <2> HIDE DEF m, f
  <2> QED BY <2>3, <2>4, <2>5, <2>6
<1> QED BY <1>1, <1>2, <1>5, <1>6

(* The k-th piece in the file, and what comes behind it.                   *)
LEMMA PieceInFile ==
  ASSUME stream \in Streams, NEW k \in 1..Len(stream)
  PROVE  /\ Len(UpTo(k - 1)) \in Nat /\ Len(Piece(k)) \in Nat
         /\ Len(UpTo(k)) = Len(UpTo(k - 1)) + Len(Piece(k))
         /\ Len(UpTo(k)) <= Len(Bytes)
         /\ k = Len(stream) => Len(UpTo(k)) = Len(Bytes)
         /\ \A j \in 1..Len(Piece(k)) : Bytes[Len(UpTo(k - 1)) + j] = Piece(k)[j]
<1> DEFINE p == Len(UpTo(k - 1))
           u == UpTo(k)
<1>1. /\ UpTo(k - 1) \in Seq(Byte) /\ u \in Seq(Byte) /\ Piece(k) \in Seq(Byte)
      /\ Len(u) = p + Len(Piece(k))
      /\ \A j \in 1..Len(Piece(k)) : u[p + j] = Piece(k)[j]
      BY Appended, PieceIs
<1>2. p \in Nat /\ Len(u) \in Nat /\ Len(Piece(k)) \in Nat
      BY <1>1, LenProperties
<1>3. Len(u) <= Len(Bytes) /\ \A i \in 1..Len(u) : Bytes[i] = u[i]
  <2>1. k \in 0..Len(stream) /\ Len(stream) \in k..Len(stream)
        BY PieceType
  <2> QED BY <2>1, UpToGrows DEF Bytes
<1>4. k = Len(stream) => u = Bytes
      BY DEF Bytes
<1> HIDE DEF p, u
<1>5. \A j \in 1..Len(Piece(k)) : p + j \in 1..Len(u)
      BY <1>1, <1>2
<1>6. \A j \in 1..Len(Piece(k)) : Bytes[p + j] = Piece(k)[j]
      BY <1>1, <1>3, <1>5
<1> QED BY <1>1, <1>2, <1>3, <1>4, <1>6 DEF p, u

(* A start code behind the first z bytes of a buffer is found, if the      *)
(* buffer holds all of it, and then there is no other before it.           *)
LEMMA FoundBehind ==
  ASSUME NEW buf \in Seq(Byte), NEW z \in Nat, z >= 4, NEW code \in {Code3, Code4},
         \A j \in 1..Len(code) : z + j <= Len(buf) => buf[z + j] = code[j]
  PROVE  /\ z + Len(code) <= Len(buf) => z + 1 \in NextStartCodes(buf)
         /\ \A i \in NextStartCodes(buf) : i > z + 1 => z + 1 \in NextStartCodes(buf)
<1>1. /\ Len(buf) \in Nat /\ z + 1 \in Nat \ {0}
      /\ (z + 1) + 1 = z + 2 /\ (z + 1) + 2 = z + 3 /\ (z + 1) + 3 = z + 4
      BY LenProperties
<1>2. ASSUME z + Len(code) <= Len(buf) PROVE z + 1 \in NextStartCodes(buf)
  <2>1. CASE code = Code3
    <3>1. z + 3 <= Len(buf) /\ buf[z + 1] = 0 /\ buf[z + 2] = 0 /\ buf[z + 3] = 1
          BY <1>1, <1>2, <2>1, CodesAre
    <3>2. StartCode3(buf, z + 1) /\ z + 1 \in 4..(Len(buf) - 2)
          BY <1>1, <3>1, StartCodeIs
    <3> QED BY <3>2 DEF NextStartCodes
  <2>2. CASE code = Code4
    <3>1. /\ z + 4 <= Len(buf) /\ buf[z + 1] = 0 /\ buf[z + 2] = 0 /\ buf[z + 3] = 0
          /\ buf[z + 4] = 1
          BY <1>1, <1>2, <2>2, CodesAre
    <3>2. StartCode4(buf, z + 1) /\ z + 1 \in 4..(Len(buf) - 2)
          BY <1>1, <3>1, StartCodeIs
    <3> QED BY <3>2 DEF NextStartCodes
  <2> QED BY <2>1, <2>2
<1>3. ASSUME NEW i \in NextStartCodes(buf), i > z + 1 PROVE z + 1 \in NextStartCodes(buf)
  <2>1. i \in 4..(Len(buf) - 2)
        BY DEF NextStartCodes
  <2>2. z + 4 <= Len(buf)
        BY <1>1, <1>3, <2>1
  <2>3. Len(code) = 3 \/ Len(code) = 4
        BY CodesAre
  <2>4. z + Len(code) <= Len(buf)
    <3>1. CASE Len(code) = 3
      <4>1. z + 3 <= Len(buf)
            BY <1>1, <2>2
      <4> QED BY <3>1, <4>1
    <3>2. CASE Len(code) = 4
          BY <2>2, <3>2
    <3> QED BY <2>3, <3>1, <3>2
  <2> QED BY <1>2, <2>4
<1> QED BY <1>2, <1>3

(* Where the next start code is found when the reader stands at a piece.   *)
LEMMA ReadsPiece ==
  ASSUME stream \in Streams, NEW k \in 1..Len(stream), pos = Len(UpTo(k - 1)),
         ~ ReadFails
  PROVE  /\ Fread \in Seq(Byte) /\ Len(Fread) <= FrameMax
         /\ Len(Piece(k)) \in Nat /\ Len(Piece(k)) <= Len(Fread)
         /\ \A j \in 1..Len(Piece(k)) : Fread[j] = Piece(k)[j]
         /\ (IF StartCode3(Fread, 1) THEN 3 ELSE 4) = Len(stream[k].code)
         /\ NextStartCodes(Fread) = {} <=> k = Len(stream)
         /\ (IF NextStartCodes(Fread) = {} THEN Len(Fread) ELSE Min(NextStartCodes(Fread)) - 1)
              = Len(Piece(k))
<1> DEFINE F == Fread
           code == stream[k].code
           nalu == stream[k].nalu
           z == Len(Piece(k))
           next == NextStartCodes(Fread)
<1>1. /\ pos \in Nat /\ z \in Nat /\ Len(Bytes) \in Nat /\ pos \in 0..Len(Bytes)
      /\ pos + z <= Len(Bytes) /\ Len(UpTo(k)) = pos + z
      /\ k = Len(stream) => pos + z = Len(Bytes)
      /\ \A j \in 1..z : Bytes[pos + j] = Piece(k)[j]
      BY PieceInFile, BytesIs
<1>2. /\ F \in Seq(Byte) /\ Len(F) \in Nat /\ Len(F) <= FrameMax /\ FrameMax \in Nat \ {0}
      /\ Len(F) = IF Eof THEN Len(Bytes) - pos ELSE FrameMax
      /\ \A j \in 1..Len(F) : F[j] = Bytes[pos + j]
      BY <1>1, FreadIs, LenProperties, StreamAssumption
<1>3. /\ code \in {Code3, Code4} /\ nalu \in Seq(Byte) /\ IsNalu(nalu)
      /\ Len(code) \in {3, 4} /\ Len(nalu) \in Nat \ {0} /\ z = Len(code) + Len(nalu)
      /\ \A j \in 1..z : Piece(k)[j] = IF j <= Len(code) THEN code[j] ELSE nalu[j - Len(code)]
      BY PieceType, PieceIs
<1>3a. z \in Nat /\ z >= 4
      BY PieceIs
<1>4. \A j \in 1..z : j <= Len(F) => F[j] = Piece(k)[j]
  <2> HIDE DEF F, z
  <2> SUFFICES ASSUME NEW j \in 1..z, j <= Len(F)
               PROVE  F[j] = Piece(k)[j]
      OBVIOUS
  <2>1. j \in 1..Len(F)
        BY <1>1, <1>2
  <2>2. F[j] = Bytes[pos + j]
        BY <1>2, <2>1
  <2>3. Bytes[pos + j] = Piece(k)[j]
        BY <1>1
  <2> QED BY <2>2, <2>3
<1>5. next = {i \in 4..(Len(F) - 2) : StartCode3(F, i) \/ StartCode4(F, i)}
      BY DEF NextStartCodes
<1>6. /\ StartCode3(F, 1) \/ StartCode4(F, 1)
      /\ next = {} => Eof
      BY DEF ReadFails
<1>7. /\ Eof => pos + FrameMax > Len(Bytes)
      /\ ~ Eof => pos + FrameMax <= Len(Bytes)
  <2> DEFINE size == Len(Bytes)
  <2>1. size \in Nat /\ pos \in Nat /\ FrameMax \in Nat
        BY <1>1, <1>2
  <2>2. Eof <=> pos + FrameMax > size
        BY DEF Eof
  <2> HIDE DEF size
  <2>3. ~ Eof => pos + FrameMax <= size
        BY <2>1, <2>2
  <2> QED BY <2>2, <2>3 DEF size
<1> HIDE DEF F, code, nalu, z, next
<1>8. /\ StartCode3(F, 1) => code = Code3
      /\ StartCode4(F, 1) => code = Code4
      /\ \A i \in 4..z : ~ StartCode3(F, i) /\ ~ StartCode4(F, i)
  <2>1. \A j \in 1..(Len(code) + Len(nalu)) :
          j <= Len(F) => F[j] = IF j <= Len(code) THEN code[j] ELSE nalu[j - Len(code)]
        BY <1>3, <1>4
  <2>2. /\ StartCode3(F, 1) => code = Code3
        /\ StartCode4(F, 1) => code = Code4
        /\ \A i \in 4..(Len(code) + Len(nalu)) : ~ StartCode3(F, i) /\ ~ StartCode4(F, i)
        BY <1>2, <1>3, <2>1, BeginsWith
  <2> QED BY <1>3, <2>2
<1>9. (IF StartCode3(F, 1) THEN 3 ELSE 4) = Len(code)
      BY <1>6, <1>8, CodesAre
<1>10. \A i \in next : z + 1 <= i /\ i \in Nat /\ i + 2 <= Len(F)
      BY <1>1, <1>2, <1>5, <1>8
<1>11. k = Len(stream) => next = {}
      BY <1>1, <1>2, <1>7, <1>10
<1>12. ASSUME k # Len(stream)
       PROVE  next # {} /\ z + 1 \in next
  <2> DEFINE c == stream[k + 1].code
             y == Len(Piece(k + 1))
  <2>1. k + 1 \in 1..Len(stream) /\ (k + 1) - 1 = k /\ Len(stream) \in Nat
    <3>1. Len(stream) \in Nat
          BY PieceType
    <3> QED BY <1>12, <3>1
  <2>2. /\ c \in {Code3, Code4} /\ Len(c) \in {3, 4} /\ y \in Nat /\ Len(c) < y
        /\ \A j \in 1..Len(c) : Piece(k + 1)[j] = c[j]
    <3>1. /\ c \in {Code3, Code4} /\ Len(c) \in {3, 4} /\ Len(stream[k + 1].nalu) \in Nat \ {0}
          /\ y = Len(c) + Len(stream[k + 1].nalu)
          /\ \A i \in 1..y : Piece(k + 1)[i] = IF i <= Len(c) THEN c[i]
                                               ELSE stream[k + 1].nalu[i - Len(c)]
          BY <2>1, PieceType, PieceIs
    <3> HIDE DEF c, y
    <3>2. \A i \in 1..Len(c) : i \in 1..y /\ i <= Len(c)
          BY <3>1
    <3> QED BY <3>1, <3>2
  <2>3. /\ pos + z + y <= Len(Bytes)
        /\ \A j \in 1..y : Bytes[(pos + z) + j] = Piece(k + 1)[j]
    <3>1. /\ Len(UpTo(k + 1)) = Len(UpTo(k)) + y /\ Len(UpTo(k + 1)) <= Len(Bytes)
          /\ \A j \in 1..y : Bytes[Len(UpTo(k)) + j] = Piece(k + 1)[j]
          BY <2>1, PieceInFile
    <3> HIDE DEF y
    <3> QED BY <1>1, <2>2, <3>1
  <2> HIDE DEF c, y
  <2>4. \A j \in 1..Len(c) : z + j <= Len(F) => F[z + j] = c[j]
    <3> SUFFICES ASSUME NEW j \in 1..Len(c), z + j <= Len(F) PROVE F[z + j] = c[j]
        OBVIOUS
    <3>1. z + j \in 1..Len(F) /\ j \in 1..y /\ pos + (z + j) = (pos + z) + j
          BY <1>1, <1>2, <2>2
    <3> QED BY <1>2, <2>2, <2>3, <3>1
  <2>5. /\ z + Len(c) <= Len(F) => z + 1 \in next
        /\ \A i \in next : i > z + 1 => z + 1 \in next
    <3>1. next = NextStartCodes(F)
          BY <1>5 DEF NextStartCodes
    <3> QED BY <1>2, <1>3a, <2>2, <2>4, <3>1, FoundBehind
  <2>6. next = {} => z + Len(c) <= Len(F)
        BY <1>1, <1>2, <1>6, <1>7, <2>2, <2>3
  <2>7. next # {}
        BY <2>5, <2>6
  <2>8. ASSUME NEW i \in next PROVE z + 1 \in next
    <3>1. z + 1 <= i /\ i \in Nat /\ z \in Nat
          BY <1>1, <1>10
    <3> QED BY <2>5, <3>1
  <2> QED BY <2>7, <2>8
<1>13. next = {} <=> k = Len(stream)
      BY <1>11, <1>12
<1>14. (IF next = {} THEN Len(F) ELSE Min(next) - 1) = z /\ z <= Len(F)
  <2>1. CASE next = {}
    <3>1. Eof /\ pos + z = Len(Bytes)
          BY <1>1, <1>6, <1>13, <2>1
    <3>2. Len(F) = Len(Bytes) - pos
          BY <1>2, <3>1
    <3> QED BY <1>1, <2>1, <3>1, <3>2
  <2>2. CASE next # {}
    <3>1. z + 1 \in next /\ z + 1 \in Int
          BY <1>1, <1>12, <1>13, <2>2
    <3>2. next \in SUBSET Int /\ \A i \in next : z + 1 <= i
          BY <1>10
    <3>3. Min(next) = z + 1
      <4> DEFINE m == z + 1
      <4>1. m \in next /\ \A i \in next : m <= i
            BY <3>1, <3>2
      <4> HIDE DEF m
      <4>2. Min(next) = m
            BY <3>2, <4>1, MinIsLeast
      <4> QED BY <4>2 DEF m
    <3>4. z + 1 + 2 <= Len(F)
          BY <1>10, <3>1
    <3> QED BY <1>1, <1>2, <2>2, <3>3, <3>4
  <2> QED BY <2>1, <2>2
<1>15. \A j \in 1..z : F[j] = Piece(k)[j]
  <2>1. \A j \in 1..z : j <= Len(F)
        BY <1>1, <1>2, <1>14
  <2> QED BY <1>4, <2>1
<1>16. F \in Seq(Byte) /\ Len(F) <= FrameMax /\ z \in Nat
      BY <1>1, <1>2
<1> QED BY <1>9, <1>13, <1>14, <1>15, <1>16 DEF F, code, z, next

-----------------------------------------------------------------------------
(* The arithmetic of fragments: complete ones, the rest, and the bits of   *)
(* the FU-A header.                                                        *)
LEMMA DivMod ==
  ASSUME NEW m \in Nat, NEW p \in Nat \ {0}, NEW q, q = m \div p, NEW r, r = m % p
  PROVE  /\ q \in Nat /\ r \in 0..(p - 1)
         /\ m = q * p + r
         /\ m > p => q >= 1
         /\ m > p /\ r = 0 => q >= 2
<1>1. q \in Nat /\ r \in 0..(p - 1)
      OBVIOUS
<1>2. m > p => q >= 1
      OBVIOUS
<1>3. m > p /\ r = 0 => q >= 2
      OBVIOUS
<1>4. m = p * q + r
      BY <1>1
<1>5. p * q = q * p
      BY <1>1
<1> QED BY <1>1, <1>2, <1>3, <1>4, <1>5

(* The indicator and the header of a fragment keep the two parts of the    *)
(* NALU's first byte apart from the flags.                                 *)
LEMMA HeaderBits ==
  ASSUME NEW b \in 0..127
  PROVE  /\ Nri(b) * 32 + 28 \in Int /\ Type(b) \in 0..31
         /\ Type(Nri(b) * 32 + 28) = 28
         /\ Nri(Nri(b) * 32 + 28) * 32 + Type(128 + Type(b)) = b
         /\ (128 + Type(b)) \div 128 = 1 /\ ((128 + Type(b)) \div 64) % 2 = 0
         /\ (64 + Type(b)) \div 128 = 0 /\ ((64 + Type(b)) \div 64) % 2 = 1
         /\ Type(b) \div 128 = 0 /\ (Type(b) \div 64) % 2 = 0
<1>1. Nri(b) \in 0..3 /\ Type(b) \in 0..31 /\ Nri(b) * 32 + Type(b) = b
      BY DEF Nri, Type
<1>2. \A r \in 0..3 : Type(r * 32 + 28) = 28 /\ Nri(r * 32 + 28) = r
      BY DEF Nri, Type
<1>3. \A y \in 0..31 : Type(128 + y) = y /\ (128 + y) \div 128 = 1 /\ ((128 + y) \div 64) % 2 = 0
      BY DEF Type
<1>4. \A y \in 0..31 : /\ (64 + y) \div 128 = 0 /\ ((64 + y) \div 64) % 2 = 1
                       /\ y \div 128 = 0 /\ (y \div 64) % 2 = 0
      OBVIOUS
<1> DEFINE r == Nri(b)
           y == Type(b)
<1>5. r \in 0..3 /\ y \in 0..31 /\ r * 32 + y = b
      BY <1>1
<1>6. Type(r * 32 + 28) = 28 /\ Nri(r * 32 + 28) = r
      BY <1>2, <1>5
<1>7. Type(128 + y) = y /\ (128 + y) \div 128 = 1 /\ ((128 + y) \div 64) % 2 = 0
      BY <1>3, <1>5
<1>8. /\ (64 + y) \div 128 = 0 /\ ((64 + y) \div 64) % 2 = 1
      /\ y \div 128 = 0 /\ (y \div 64) % 2 = 0
      BY <1>4, <1>5
<1>9. Nri(r * 32 + 28) * 32 + Type(128 + y) = b
      BY <1>5, <1>6, <1>7
<1>10. r * 32 + 28 \in Int
  <2> HIDE DEF r
  <2> QED BY <1>5
<1> QED BY <1>5, <1>6, <1>7, <1>8, <1>9, <1>10

(* The two bytes of a fragment as SendFragment writes them (bits is the    *)
(* start or the end flag), and as the client reads them.                   *)
Indicator(b)      == Nri(b) * 32 + 28
FuHeader(b, bits) == bits + Type(b)

FirstByte         == 0..127
FuBits            == {0, 64, 128}
Starts(bits)      == bits = 128
Ends(bits)        == bits = 64

IsFu(p1)         == Type(p1) = 28
IsStart(p2)      == p2 \div 128 = 1
IsEnd(p2)        == (p2 \div 64) % 2 = 1
Original(p1, p2) == Nri(p1) * 32 + Type(p2)

(* The client reads from the two bytes what the sink wrote there.          *)
LEMMA Decoded ==
  ASSUME NEW b \in FirstByte, NEW bits \in FuBits
  PROVE  /\ Indicator(b) \in Int /\ FuHeader(b, bits) \in Int /\ IsFu(Indicator(b))
         /\ IsStart(FuHeader(b, bits)) <=> Starts(bits)
         /\ IsEnd(FuHeader(b, bits)) <=> Ends(bits)
         /\ Starts(bits) => Original(Indicator(b), FuHeader(b, bits)) = b
<1> USE DEF FirstByte, FuBits, Starts, Ends, IsFu, IsStart, IsEnd, Original
<1> DEFINE y == Type(b)
           p1 == Indicator(b)
           p2 == FuHeader(b, bits)
<1>0. p2 = bits + y
      BY DEF FuHeader
<1>1. p1 \in Int /\ y \in 0..31 /\ Type(p1) = 28
      BY HeaderBits DEF Indicator
<1>2. CASE bits = 128
  <2> HIDE DEF y
  <2>1. p2 = 128 + y
        BY <1>0, <1>2
  <2>2. (128 + y) \div 128 = 1 /\ ((128 + y) \div 64) % 2 = 0 /\ Nri(p1) * 32 + Type(128 + y) = b
        BY HeaderBits DEF y, Indicator
  <2>3. p2 \div 128 = 1 /\ (p2 \div 64) % 2 = 0 /\ Nri(p1) * 32 + Type(p2) = b
        BY <2>1, <2>2
  <2>4. p2 \in Int
        BY <1>1, <2>1
  <2> HIDE DEF p1, p2
  <2>5. 0 # 1 /\ bits # 64 /\ bits # 0
        BY <1>2
  <2> QED BY <1>1, <1>2, <2>3, <2>4, <2>5, Zenon DEF p1, p2
<1>3. CASE bits = 64
  <2> HIDE DEF y
  <2>1. p2 = 64 + y
        BY <1>0, <1>3
  <2>2. (64 + y) \div 128 = 0 /\ ((64 + y) \div 64) % 2 = 1
        BY HeaderBits DEF y
  <2>3. p2 \div 128 = 0 /\ (p2 \div 64) % 2 = 1
        BY <2>1, <2>2
  <2>4. p2 \in Int
        BY <1>1, <2>1
  <2> HIDE DEF p1, p2
  <2>5. 0 # 1 /\ bits # 128 /\ bits # 0
        BY <1>3
  <2> QED BY <1>1, <1>3, <2>3, <2>4, <2>5, Zenon DEF p1, p2
<1>4. CASE bits = 0
  <2> HIDE DEF y
  <2>1. p2 = y
        BY <1>0, <1>1, <1>4
  <2>2. y \div 128 = 0 /\ (y \div 64) % 2 = 0
        BY HeaderBits DEF y
  <2>3. p2 \div 128 = 0 /\ (p2 \div 64) % 2 = 0
        BY <2>1, <2>2
  <2>4. p2 \in Int
        BY <1>1, <2>1
  <2> HIDE DEF p1, p2
  <2>5. 0 # 1 /\ bits # 128 /\ bits # 64
        BY <1>4
  <2> QED BY <1>1, <1>4, <2>3, <2>4, <2>5, Zenon DEF p1, p2
<1> QED BY <1>2, <1>3, <1>4 DEF p1, p2

(* A packet of a header of two bytes and a chunk.                          *)
LEMMA HeaderThen ==
  ASSUME NEW p1 \in Int, NEW p2 \in Int, NEW chunk \in Seq(Int), chunk # << >>
  PROVE  /\ <<p1, p2>> \o chunk \in Seq(Int)
         /\ Len(<<p1, p2>> \o chunk) = Len(chunk) + 2
         /\ (<<p1, p2>> \o chunk)[1] = p1 /\ (<<p1, p2>> \o chunk)[2] = p2
         /\ SubSeq(<<p1, p2>> \o chunk, 3, Len(<<p1, p2>> \o chunk)) = chunk
<1> DEFINE h == <<p1, p2>>
           n == Len(chunk)
           p == h \o chunk
<1>1. h \in Seq(Int) /\ Len(h) = 2 /\ h[1] = p1 /\ h[2] = p2
      OBVIOUS
<1> HIDE DEF h
<1>2. n \in Nat \ {0}
      BY EmptySeq
<1>3. /\ p \in Seq(Int) /\ Len(p) = Len(h) + n
      /\ \A i \in 1..(Len(h) + n) : p[i] = IF i <= Len(h) THEN h[i] ELSE chunk[i - Len(h)]
      BY <1>1, ConcatProperties
<1>4. Len(p) = n + 2 /\ p[1] = h[1] /\ p[2] = h[2]
  <2> HIDE DEF n, p
  <2>1. 1 \in 1..(Len(h) + n) /\ 2 \in 1..(Len(h) + n) /\ 1 <= Len(h) /\ 2 <= Len(h)
        BY <1>1, <1>2
  <2> QED BY <1>1, <1>2, <1>3, <2>1
<1>5. SubSeq(p, 3, n + 2) = chunk
  <2> DEFINE lo == 3
             hi == n + 2
  <2>1. /\ lo \in (Len(h) + 1)..(Len(h) + n) /\ hi \in (Len(h) + 1)..(Len(h) + n)
        /\ lo - Len(h) = 1 /\ hi - Len(h) = n
        BY <1>1, <1>2
  <2> HIDE DEF lo, hi
  <2>2. SubSeq(p, lo, hi) = SubSeq(chunk, lo - Len(h), hi - Len(h))
        BY <1>1, <2>1, SubSeqOfConcat2
  <2>4. SubSeq(chunk, 1, n) = chunk
        BY SubSeqFull
  <2> QED BY <2>1, <2>2, <2>4 DEF lo, hi
<1> QED BY <1>1, <1>3, <1>4, <1>5 DEF h

(* The two bytes in front of a fragment.                                   *)
Header(b, bits) == <<Indicator(b), FuHeader(b, bits)>>

(* What the client has after a fragment that it does not drop.             *)
LEMMA ReceiveFragment ==
  ASSUME NEW b \in FirstByte, NEW bits \in FuBits, NEW chunk \in Seq(Int), chunk # << >>,
         NEW pkt, pkt.payload = Header(b, bits) \o chunk, Receive(pkt),
         Starts(bits) \/ (unit # << >> /\ pkt.seq = (rtp.seq + 1) % SeqLimit)
  PROVE  /\ rtp' = pkt
         /\ pkt.payload \in Seq(Int) /\ Len(pkt.payload) = Len(chunk) + 2
         /\ Starts(bits) /\ ~ Ends(bits) => unit' = <<b>> \o chunk /\ got' = got
         /\ ~ Starts(bits) /\ Ends(bits) => unit' = << >> /\ got' = unit \o chunk
         /\ ~ Starts(bits) /\ ~ Ends(bits) => unit' = unit \o chunk /\ got' = got
<1> DEFINE p == pkt.payload
           tail == SubSeq(p, 3, Len(p))
           lost == unit = << >> \/ pkt.seq # (rtp.seq + 1) % SeqLimit
           whole == (IF IsStart(p[2]) THEN <<Original(p[1], p[2])>> ELSE unit) \o tail
<1>1. /\ rtp' = pkt
      /\ IF ~ IsFu(p[1]) THEN unit' = << >> /\ got' = p
         ELSE IF ~ IsStart(p[2]) /\ lost THEN unit' = << >> /\ got' = got
         ELSE IF IsEnd(p[2]) THEN unit' = << >> /\ got' = whole
         ELSE unit' = whole /\ got' = got
      BY DEF Receive, IsFu, IsStart, IsEnd, Original
<1> DEFINE p1 == Indicator(b)
           p2 == FuHeader(b, bits)
<1>2. /\ p1 \in Int /\ p2 \in Int /\ IsFu(p1)
      /\ IsStart(p2) <=> Starts(bits)
      /\ IsEnd(p2) <=> Ends(bits)
      /\ Starts(bits) => Original(p1, p2) = b
      BY Decoded
<1>3. p = <<p1, p2>> \o chunk
      BY DEF Header
<1> HIDE DEF p, p1, p2
<1>4. p \in Seq(Int) /\ Len(p) = Len(chunk) + 2 /\ p[1] = p1 /\ p[2] = p2 /\ tail = chunk
      BY <1>2, <1>3, HeaderThen
<1>5. ~ Starts(bits) => ~ lost
      OBVIOUS
<1> HIDE DEF lost, tail
<1>6. /\ IsFu(p[1]) /\ (IsStart(p[2]) <=> Starts(bits)) /\ (IsEnd(p[2]) <=> Ends(bits))
      /\ Starts(bits) => Original(p[1], p[2]) = b
      BY <1>2, <1>4, Zenon
<1>7. /\ Starts(bits) => whole = <<b>> \o chunk
      /\ ~ Starts(bits) => whole = unit \o chunk
      BY <1>4, <1>6, Zenon
<1> HIDE DEF whole
<1>8. /\ Starts(bits) /\ ~ Ends(bits) => unit' = <<b>> \o chunk /\ got' = got
      /\ ~ Starts(bits) /\ Ends(bits) => unit' = << >> /\ got' = unit \o chunk
      /\ ~ Starts(bits) /\ ~ Ends(bits) => unit' = unit \o chunk /\ got' = got
      BY <1>1, <1>5, <1>6, <1>7, Zenon
<1> QED BY <1>1, <1>4, <1>8 DEF p

-----------------------------------------------------------------------------
(* The inductive invariant: the types, that the reader stands at the       *)
(* beginning of a piece, and what the client has put together between two  *)
(* fragments of a frame: the first pktsSent * PktMax bytes that follow the *)
(* NALU's first one.                                                       *)
Types == /\ stream \in Streams
         /\ pos \in 0..Len(Bytes)
         /\ temp \in Seq(Byte) /\ Len(temp) <= FrameMax
         /\ frame \in [mBuf : Nat, mSize : Nat]
         /\ frame.mBuf + frame.mSize <= Len(temp)
         /\ pktsSent \in 0..PktNum
         /\ mSeq \in 0..(SeqLimit - 1)
         /\ mTimestamp \in 0..(TimeLimit - 1)
         /\ rtp \in [seq : 0..(SeqLimit - 1), time : 0..(TimeLimit - 1), payload : Seq(Int)]
         /\ Len(rtp.payload) <= PktMax + 2
         /\ unit \in Seq(Int)

(* The reader stands behind a whole number of pieces, and not at the end.  *)
AtUnit == pos = 0 \/ \E k \in 1..(Len(stream) - 1) : pos = Len(UpTo(k))

(* The bytes of fragment i, and the client's unit after n bytes.           *)
Chunk(i, size) == [n \in 1..size |-> ByteAt(frame.mBuf + 1 + i * PktMax + n)]
Joined(n)      == <<Nalu[1]>> \o [j \in 1..n |-> ByteAt(frame.mBuf + 1 + j)]

Sending == /\ frame = NoFrame => pktsSent = 0
           /\ pktsSent > 0 => /\ frame.mSize > PktMax
                              /\ pktsSent = PktNum => RemainPktSize # 0
                              /\ mSeq = (rtp.seq + 1) % SeqLimit
                              /\ unit = Joined(pktsSent * PktMax)

StreamInv == Types /\ CutsAtNalus /\ AtUnit /\ Sending

(* Bytes are numbers.                                                      *)
LEMMA ByteIsInt == Byte \subseteq Int /\ FirstByte \subseteq Int
BY DEF Byte, FirstByte

(* A frame in the buffer is a NALU.                                        *)
LEMMA FrameIs ==
  ASSUME Types, CutsAtNalus, frame # NoFrame
  PROVE  /\ Nalu \in Seq(Byte) /\ Len(Nalu) = frame.mSize
         /\ frame.mBuf \in Nat /\ frame.mSize \in Nat \ {0}
         /\ frame.mBuf + frame.mSize <= Len(temp)
         /\ \A j \in 1..frame.mSize : Nalu[j] = temp[frame.mBuf + j]
         /\ Nalu[1] \in FirstByte /\ Type(Nalu[1]) # 28
<1> DEFINE b == frame.mBuf
           n == frame.mSize
<1>1. /\ b \in Nat /\ n \in Nat /\ b + n <= Len(temp) /\ temp \in Seq(Byte)
      /\ Nalu = SubSeq(temp, b + 1, b + n)
      BY DEF Types, Nalu
<1>2. PICK k \in DOMAIN stream : Nalu = stream[k].nalu
      BY DEF CutsAtNalus
<1>3. Nalu \in Seq(Byte) /\ IsNalu(Nalu)
      BY <1>2, PieceType DEF Types
<1>4. Len(Nalu) \in Nat \ {0} /\ Nalu[1] \in Byte /\ Nalu[1] < 128 /\ Type(Nalu[1]) \in 1..23
      BY <1>3, NaluIs
<1> HIDE DEF b, n
<1>5. n # 0
  <2> SUFFICES ASSUME n = 0 PROVE FALSE
      OBVIOUS
  <2>1. Nalu = << >>
        BY <1>1, SubSeqEmpty
  <2> QED BY <1>4, <2>1
<1>6. Len(Nalu) = n /\ \A j \in 1..n : Nalu[j] = temp[b + j]
  <2> DEFINE lo == b + 1
             hi == b + n
             s == SubSeq(temp, lo, hi)
  <2>1. /\ lo \in Nat \ {0} /\ hi \in Nat /\ lo <= hi /\ hi <= Len(temp)
        /\ hi - lo + 1 = n /\ \A j \in 1..n : lo + j - 1 = b + j
        BY <1>1, <1>5
  <2>2. Nalu = s
        BY <1>1
  <2> HIDE DEF lo, hi
  <2>3. Len(s) = hi - lo + 1 /\ \A j \in 1..(hi - lo + 1) : s[j] = temp[lo + j - 1]
        BY <1>1, <2>1, SubSeqIs
  <2> HIDE DEF s
  <2> QED BY <2>1, <2>2, <2>3
<1>7. Nalu[1] \in FirstByte /\ Type(Nalu[1]) # 28
  <2> DEFINE x == Nalu[1]
             y == Type(Nalu[1])
  <2>1. x \in Byte /\ x < 128 /\ y \in 1..23
        BY <1>4
  <2> HIDE DEF x, y
  <2>2. x \in FirstByte /\ y # 28
        BY <2>1 DEF Byte, FirstByte
  <2> QED BY <2>2 DEF x, y
<1> QED BY <1>1, <1>3, <1>5, <1>6, <1>7 DEF b, n

(* Inside of temp or behind it, a byte is a number.                        *)
LEMMA ByteAtIs ==
  ASSUME temp \in Seq(Byte), NEW i
  PROVE  ByteAt(i) \in Int
<1>1. i \in DOMAIN temp => temp[i] \in Int
  <2>1. DOMAIN temp = 1..Len(temp)
        BY LenProperties
  <2>2. i \in 1..Len(temp) => temp[i] \in Byte
        BY ElementOfSeq
  <2> QED BY <2>1, <2>2, ByteIsInt
<1> QED BY <1>1 DEF ByteAt, Stale

(* The bytes of a fragment.                                                *)
LEMMA ChunkIs ==
  ASSUME temp \in Seq(Byte), NEW i \in Nat, NEW size \in Nat \ {0}
  PROVE  /\ Chunk(i, size) \in Seq(Int) /\ Len(Chunk(i, size)) = size
         /\ Chunk(i, size) # << >>
         /\ \A n \in 1..size : Chunk(i, size)[n] = ByteAt(frame.mBuf + 1 + i * PktMax + n)
<1>1. \A n \in 1..size : ByteAt(frame.mBuf + 1 + i * PktMax + n) \in Int
      BY ByteAtIs
<1> DEFINE c == Chunk(i, size)
<1>2. c \in Seq(Int) /\ Len(c) = size
      BY <1>1 DEF Chunk
<1>3. \A n \in 1..size : c[n] = ByteAt(frame.mBuf + 1 + i * PktMax + n)
      BY DEF Chunk
<1>4. c # << >>
  <2> HIDE DEF c
  <2> QED BY <1>2
<1> QED BY <1>2, <1>3, <1>4

(* The bytes that the client has put together.                             *)
LEMMA JoinedIs ==
  ASSUME temp \in Seq(Byte), Nalu[1] \in Int, NEW n \in Nat
  PROVE  /\ Joined(n) \in Seq(Int) /\ Len(Joined(n)) = n + 1
         /\ Joined(n) # << >>
         /\ Joined(n)[1] = Nalu[1]
         /\ \A j \in 1..n : Joined(n)[j + 1] = ByteAt(frame.mBuf + 1 + j)
<1> DEFINE h == <<Nalu[1]>>
           f == [j \in 1..n |-> ByteAt(frame.mBuf + 1 + j)]
           s == h \o f
<1>1. \A j \in 1..n : ByteAt(frame.mBuf + 1 + j) \in Int
      BY ByteAtIs
<1>2. f \in Seq(Int) /\ Len(f) = n /\ \A j \in 1..n : f[j] = ByteAt(frame.mBuf + 1 + j)
      BY <1>1
<1>3. h \in Seq(Int) /\ Len(h) = 1 /\ h[1] = Nalu[1]
      OBVIOUS
<1>4. Joined(n) = s
      BY DEF Joined
<1> HIDE DEF h, f
<1>5. /\ s \in Seq(Int) /\ Len(s) = Len(h) + Len(f)
      /\ \A i \in 1..(Len(h) + Len(f)) : s[i] = IF i <= Len(h) THEN h[i] ELSE f[i - Len(h)]
      BY <1>2, <1>3, ConcatProperties
<1> HIDE DEF s
<1>6. Len(s) = n + 1 /\ \A i \in 1..(n + 1) : s[i] = IF i <= 1 THEN h[i] ELSE f[i - 1]
      BY <1>2, <1>3, <1>5
<1>7. s[1] = Nalu[1]
      BY <1>3, <1>6
<1>8. \A j \in 1..n : s[j + 1] = f[j]
  <2>1. \A j \in 1..n : j + 1 \in 1..(n + 1) /\ ~(j + 1 <= 1) /\ (j + 1) - 1 = j
        OBVIOUS
  <2> QED BY <1>6, <2>1
<1>9. s # << >>
      BY <1>6
<1> QED BY <1>2, <1>4, <1>5, <1>6, <1>7, <1>8, <1>9

(* A chunk that is joined continues what there is.                         *)
LEMMA JoinedMore ==
  ASSUME temp \in Seq(Byte), Nalu[1] \in Int, frame.mBuf \in Nat,
         NEW i \in Nat, NEW size \in Nat \ {0}
  PROVE  /\ Joined(i * PktMax) \o Chunk(i, size) = Joined(i * PktMax + size)
         /\ <<Nalu[1]>> \o Chunk(0, size) = Joined(size)
<1> DEFINE m == i * PktMax
           a == Joined(m)
           c == Chunk(i, size)
           s == a \o c
           t == Joined(m + size)
           b == frame.mBuf
<1>1. m \in Nat /\ m + size \in Nat /\ b \in Nat
      BY StreamAssumption
<1> HIDE DEF m, b
<1>2. /\ a \in Seq(Int) /\ Len(a) = m + 1 /\ a[1] = Nalu[1]
      /\ \A j \in 1..m : a[j + 1] = ByteAt(b + 1 + j)
      BY <1>1, JoinedIs DEF b
<1>3. /\ t \in Seq(Int) /\ Len(t) = m + size + 1 /\ t[1] = Nalu[1]
      /\ \A j \in 1..(m + size) : t[j + 1] = ByteAt(b + 1 + j)
      BY <1>1, JoinedIs DEF b
<1>4. /\ c \in Seq(Int) /\ Len(c) = size
      /\ \A n \in 1..size : c[n] = ByteAt(b + 1 + m + n)
      BY ChunkIs DEF m, b
<1> HIDE DEF a, c, t
<1>5. /\ s \in Seq(Int) /\ Len(s) = m + size + 1
      /\ \A j \in 1..(m + size + 1) : s[j] = IF j <= m + 1 THEN a[j] ELSE c[j - (m + 1)]
  <2>1. /\ s \in Seq(Int) /\ Len(s) = Len(a) + Len(c)
        /\ \A j \in 1..(Len(a) + Len(c)) : s[j] = IF j <= Len(a) THEN a[j] ELSE c[j - Len(a)]
        BY <1>2, <1>4, ConcatProperties
  <2>2. Len(a) + Len(c) = m + size + 1
        BY <1>1, <1>2, <1>4
  <2> HIDE DEF s
  <2> QED BY <1>2, <2>1, <2>2
<1> HIDE DEF s
<1>6. ASSUME NEW j \in 1..(m + size + 1) PROVE s[j] = t[j]
  <2>1. CASE j = 1
        BY <1>1, <1>2, <1>3, <1>5, <2>1
  <2>2. CASE j # 1 /\ j <= m + 1
    <3>1. j - 1 \in 1..m /\ j - 1 \in 1..(m + size) /\ (j - 1) + 1 = j
          BY <1>1, <2>2
    <3>2. s[j] = a[j]
          BY <1>5, <2>2
    <3>3. a[j] = ByteAt(b + 1 + (j - 1)) /\ t[j] = ByteAt(b + 1 + (j - 1))
          BY <1>2, <1>3, <3>1
    <3> QED BY <3>2, <3>3
  <2>3. CASE ~(j <= m + 1)
    <3>1. /\ j - (m + 1) \in 1..size /\ j - 1 \in 1..(m + size) /\ (j - 1) + 1 = j
          /\ b + 1 + m + (j - (m + 1)) = b + 1 + (j - 1)
          BY <1>1, <2>3
    <3>2. s[j] = c[j - (m + 1)]
          BY <1>5, <2>3
    <3>3. c[j - (m + 1)] = ByteAt(b + 1 + (j - 1)) /\ t[j] = ByteAt(b + 1 + (j - 1))
          BY <1>3, <1>4, <3>1
    <3> QED BY <3>2, <3>3
  <2> QED BY <2>1, <2>2, <2>3
<1>7. s = t
      BY <1>3, <1>5, <1>6, SeqEqual
<1>8. Chunk(0, size) = [j \in 1..size |-> ByteAt(frame.mBuf + 1 + j)]
  <2>1. \A j \in 1..size : frame.mBuf + 1 + 0 * PktMax + j = frame.mBuf + 1 + j
        BY StreamAssumption
  <2> QED BY <2>1 DEF Chunk
<1>9. <<Nalu[1]>> \o Chunk(0, size) = Joined(size)
      BY <1>8 DEF Joined
<1> QED BY <1>7, <1>9 DEF m, a, c, s, t

(* When all is joined, the NALU is a prefix of it.                         *)
LEMMA JoinedAll ==
  ASSUME Types, CutsAtNalus, frame # NoFrame
  PROVE  /\ IsPrefix(Nalu, Joined(frame.mSize))
         /\ Len(Joined(frame.mSize)) = frame.mSize + 1
<1> DEFINE m == frame.mSize
           t == Joined(frame.mSize)
           b == frame.mBuf
           u == Nalu
<1>1. /\ u \in Seq(Byte) /\ Len(u) = m /\ b \in Nat /\ m \in Nat \ {0} /\ b + m <= Len(temp)
      /\ \A j \in 1..m : u[j] = temp[b + j]
      /\ u[1] \in Int /\ temp \in Seq(Byte)
      BY FrameIs, ByteIsInt DEF Types
<1>2. /\ t \in Seq(Int) /\ Len(t) = m + 1 /\ t[1] = u[1]
      /\ \A j \in 1..m : t[j + 1] = ByteAt(b + 1 + j)
      BY <1>1, JoinedIs
<1>3. DOMAIN temp = 1..Len(temp) /\ Len(temp) \in Nat
      BY <1>1, LenProperties
<1> HIDE DEF m, t, b, u
<1>4. ASSUME NEW j \in 1..m PROVE u[j] = t[j]
  <2>1. CASE j = 1
        BY <1>2, <2>1
  <2>2. CASE j # 1
    <3>1. j - 1 \in 1..m /\ (j - 1) + 1 = j /\ b + 1 + (j - 1) = b + j /\ b + j \in 1..Len(temp)
          BY <1>1, <1>3, <2>2
    <3>2. t[j] = ByteAt(b + j)
          BY <1>2, <3>1
    <3>3. ByteAt(b + j) = temp[b + j]
          BY <1>3, <3>1 DEF ByteAt
    <3> QED BY <1>1, <3>2, <3>3
  <2> QED BY <2>1, <2>2
<1>5. u \in Seq(Int)
      BY <1>1, SeqMonotonic, ByteIsInt
<1>6. SubSeq(u, 1, m) = SubSeq(t, 1, m)
  <2> DEFINE v == SubSeq(u, 1, m)
             w == SubSeq(t, 1, m)
  <2>1. 1 \in Int /\ m \in Int /\ 1 <= m /\ m - 1 + 1 = m /\ \A j \in 1..m : 1 + j - 1 = j
        BY <1>1
  <2>2. \A j \in 1..m : u[j] \in Int /\ t[j] \in Int
        BY <1>1, <1>2, <1>5, <1>4, ElementOfSeq
  <2>3. /\ v \in Seq(Int) /\ Len(v) = IF 1 <= m THEN m - 1 + 1 ELSE 0
        /\ \A j \in 1..(m - 1 + 1) : v[j] = u[1 + j - 1]
        BY <2>1, <2>2, SubSeqProperties
  <2>4. /\ w \in Seq(Int) /\ Len(w) = IF 1 <= m THEN m - 1 + 1 ELSE 0
        /\ \A j \in 1..(m - 1 + 1) : w[j] = t[1 + j - 1]
        BY <2>1, <2>2, SubSeqProperties
  <2> HIDE DEF v, w
  <2>5. Len(v) = m /\ Len(w) = m /\ \A j \in 1..m : v[j] = w[j]
        BY <1>4, <2>1, <2>3, <2>4
  <2>6. v = w
        BY <2>3, <2>4, <2>5, SeqEqual
  <2> QED BY <2>6 DEF v, w
<1>7. m <= m + 1
      BY <1>1
<1>8. IsPrefix(u, t)
      BY <1>1, <1>2, <1>6, <1>7 DEF IsPrefix
<1> QED BY <1>2, <1>8 DEF m, t, b, u

-----------------------------------------------------------------------------
(* Every action keeps the invariant, and one that ends a frame has given   *)
(* the client its NALU.                                                    *)
Received == frame # NoFrame /\ frame' = NoFrame
              => IsPrefix(Nalu, got') /\ Len(got') <= frame.mSize + 1

(* The layout depends on nothing but the file.                             *)
LEMMA SameFile ==
  ASSUME UNCHANGED stream
  PROVE  (\A k : UpTo(k)' = UpTo(k)) /\ Bytes' = Bytes
BY DEF UpTo, Bytes

(* Sending does not move the reader.                                       *)
LEMMA SameReader ==
  ASSUME Types, CutsAtNalus, AtUnit, UNCHANGED <<stream, pos, temp>>,
         frame' = frame \/ frame' = NoFrame
  PROVE  /\ CutsAtNalus' /\ AtUnit'
         /\ (stream \in Streams)' /\ (pos \in 0..Len(Bytes))'
         /\ (temp \in Seq(Byte))' /\ (Len(temp) <= FrameMax)'
         /\ (frame \in [mBuf : Nat, mSize : Nat])'
         /\ (frame.mBuf + frame.mSize <= Len(temp))'
<1>1. (\A k : UpTo(k)' = UpTo(k)) /\ Bytes' = Bytes
      BY SameFile
<1>2. AtUnit'
      BY <1>1 DEF AtUnit
<1>3. CutsAtNalus'
  <2>1. CASE frame' = NoFrame
        BY <2>1 DEF CutsAtNalus
  <2>2. CASE frame' = frame
    <3>1. Nalu' = Nalu
          BY <2>2 DEF Nalu
    <3> QED BY <1>1, <2>2, <3>1 DEF CutsAtNalus
  <2> QED BY <2>1, <2>2
<1>4. (stream \in Streams)' /\ (pos \in 0..Len(Bytes))'
      BY <1>1 DEF Types
<1>5. temp' \in Seq(Byte) /\ Len(temp') <= FrameMax /\ Len(temp') \in Nat
      BY LenProperties DEF Types
<1>6. /\ frame' \in [mBuf : Nat, mSize : Nat]
      /\ frame'.mBuf + frame'.mSize <= Len(temp')
  <2>1. CASE frame' = NoFrame
        BY <1>5, <2>1 DEF NoFrame
  <2>2. CASE frame' = frame
        BY <2>2 DEF Types
  <2> QED BY <2>1, <2>2
<1> QED BY <1>2, <1>3, <1>4, <1>5, <1>6

(* A reader that finds a start code stands at one of the file's pieces.    *)
LEMMA AtPiece ==
  ASSUME stream \in Streams, AtUnit, pos \in 0..Len(Bytes), ~ ReadFails
  PROVE  \E k \in 1..Len(stream) : pos = Len(UpTo(k - 1))
<1>1. Len(stream) \in Nat
      BY PieceType
<1>2. CASE Len(stream) = 0
  <2>1. Len(Bytes) = 0
        BY <1>2, UpToStep DEF Bytes
  <2>2. Fread \in Seq(Byte) /\ Len(Fread) \in Nat /\ Len(Fread) < 1
    <3>1. Fread \in Seq(Byte) /\ \A j \in 1..Len(Fread) : Fread[j] = Bytes[pos + j]
          BY FreadIs
    <3>2. pos = 0 /\ Bytes = << >>
          BY <1>2, <2>1, UpToStep DEF Bytes
    <3>3. Len(Fread) = IF Eof THEN 0 ELSE FrameMax
          BY <2>1, <3>2, FreadIs
    <3>4. Eof
          BY <2>1, <3>2, StreamAssumption DEF Eof
    <3> QED BY <3>1, <3>3, <3>4
  <2>3. ~ StartCode3(Fread, 1) /\ ~ StartCode4(Fread, 1)
        BY <2>2, StartCodeIs
  <2> QED BY <2>3 DEF ReadFails
<1>3. CASE Len(stream) # 0 /\ pos = 0
  <2>1. Len(UpTo(1 - 1)) = 0
        BY UpToStep
  <2>2. 1 \in 1..Len(stream)
        BY <1>1, <1>3
  <2>3. pos = Len(UpTo(1 - 1))
        BY <1>3, <2>1
  <2> QED BY <2>2, <2>3
<1>4. CASE pos # 0
  <2>1. PICK k \in 1..(Len(stream) - 1) : pos = Len(UpTo(k))
        BY <1>4 DEF AtUnit
  <2>2. k + 1 \in 1..Len(stream) /\ (k + 1) - 1 = k
        BY <1>1
  <2> QED BY <2>1, <2>2
<1> QED BY <1>2, <1>3, <1>4

(* A frame that is read is the next NALU, and nothing of it was sent yet.  *)
LEMMA ReadFrameKeeps ==
  ASSUME StreamInv, ReadFrame
  PROVE  StreamInv' /\ Received
<1> DEFINE next == NextStartCodes(Fread)
           size == IF next = {} THEN Len(Fread) ELSE Min(next) - 1
           code == IF StartCode3(Fread, 1) THEN 3 ELSE 4
<1>1. /\ stream \in Streams /\ pos \in 0..Len(Bytes) /\ frame = NoFrame
      /\ pktsSent = 0 /\ pktsSent' = 0
      /\ UNCHANGED <<stream, mSeq, mTimestamp, rtp, unit, got>> /\ temp' = Fread
      BY DEF StreamInv, Types, Sending, ReadFrame, client
<1>2. (\A k : UpTo(k)' = UpTo(k)) /\ Bytes' = Bytes
      BY <1>1, SameFile
<1>3. Fread \in Seq(Byte) /\ Len(Fread) <= FrameMax /\ Len(Fread) \in Nat
      BY <1>1, FreadIs, LenProperties
<1>4. /\ pos' \in 0..Len(Bytes) /\ AtUnit' /\ CutsAtNalus'
      /\ frame' \in [mBuf : Nat, mSize : Nat] /\ frame'.mBuf + frame'.mSize <= Len(Fread)
  <2>1. CASE ReadFails
    <3>1. pos' = 0 /\ frame' = NoFrame
          BY <1>1, <2>1 DEF ReadFrame
    <3> QED BY <1>1, <1>3, <3>1, BytesIs DEF AtUnit, CutsAtNalus, NoFrame
  <2>2. CASE ~ ReadFails
    <3>1. PICK k \in 1..Len(stream) : pos = Len(UpTo(k - 1))
          BY <1>1, <2>2, AtPiece DEF StreamInv
    <3> DEFINE z == Len(Piece(k))
               nalu == stream[k].nalu
               n == Len(nalu)
    <3>2. /\ z \in Nat /\ z <= Len(Fread)
          /\ \A j \in 1..z : Fread[j] = Piece(k)[j]
          /\ code = Len(stream[k].code) /\ size = z
          /\ next = {} <=> k = Len(stream)
          BY <1>1, <2>2, <3>1, ReadsPiece
    <3>3. /\ pos' = IF next = {} THEN 0 ELSE pos + size
          /\ \/ frame' = NoFrame
             \/ frame' = [mBuf |-> code, mSize |-> size - code]
          BY <2>2 DEF ReadFrame
    <3>4. /\ Len(UpTo(k)) = pos + z /\ Len(UpTo(k)) <= Len(Bytes)
          /\ pos \in Nat /\ Len(Bytes) \in Nat /\ Len(stream) \in Nat
          BY <1>1, <3>1, PieceInFile, BytesIs, PieceType
    <3>5. /\ code \in Nat \ {0} /\ n \in Nat \ {0} /\ z = code + n
          /\ nalu \in Seq(Byte)
          /\ \A i \in 1..z : Piece(k)[i] = IF i <= code THEN stream[k].code[i] ELSE nalu[i - code]
      <4>1. Len(stream[k].code) \in {3, 4} /\ n \in Nat \ {0} /\ nalu \in Seq(Byte)
            BY <1>1, PieceType
      <4>2. /\ z = Len(stream[k].code) + n
            /\ \A i \in 1..z : Piece(k)[i] = IF i <= Len(stream[k].code) THEN stream[k].code[i]
                                             ELSE nalu[i - Len(stream[k].code)]
            BY <1>1, PieceIs
      <4>3. code \in Nat \ {0}
            OBVIOUS
      <4> HIDE DEF code, z, n, nalu
      <4> QED BY <3>2, <4>1, <4>2, <4>3
    <3> HIDE DEF next, size, code, z, n, nalu
    <3>6. pos' = IF k = Len(stream) THEN 0 ELSE Len(UpTo(k))
          BY <3>2, <3>3, <3>4
    <3>7. pos' \in 0..Len(Bytes)
          BY <3>4, <3>6, <3>2
    <3>8. AtUnit'
      <4>1. CASE k = Len(stream)
            BY <3>6, <4>1 DEF AtUnit
      <4>2. CASE k # Len(stream)
        <5>1. k \in 1..(Len(stream) - 1) /\ pos' = Len(UpTo(k)')
              BY <1>2, <3>4, <3>6, <4>2
        <5>2. \E l \in 1..(Len(stream) - 1) : pos' = Len(UpTo(l)')
              BY <5>1
        <5> QED BY <1>1, <5>2 DEF AtUnit
      <4> QED BY <4>1, <4>2
    <3>9. CASE frame' = NoFrame
          BY <1>3, <3>7, <3>8, <3>9 DEF CutsAtNalus, NoFrame
    <3>10. CASE frame' = [mBuf |-> code, mSize |-> size - code]
      <4>1. frame'.mBuf = code /\ frame'.mSize = n
        <5>1. size - code = n
              BY <3>2, <3>5
        <5> QED BY <3>10, <5>1
      <4>2. frame' \in [mBuf : Nat, mSize : Nat] /\ frame'.mBuf + frame'.mSize <= Len(Fread)
        <5>1. code + n <= Len(Fread)
              BY <3>2, <3>5
        <5>2. frame' \in [mBuf : Nat, mSize : Nat]
              BY <3>2, <3>5, <3>10, <5>1
        <5> QED BY <4>1, <5>1, <5>2
      <4>3. Nalu' = SubSeq(Fread, code + 1, code + n)
            BY <1>1, <4>1 DEF Nalu
      <4>4. SubSeq(Fread, code + 1, code + n) = nalu
        <5> DEFINE lo == code + 1
                   hi == code + n
                   s == SubSeq(Fread, lo, hi)
        <5>1. /\ lo \in Nat \ {0} /\ hi \in Nat /\ lo <= hi /\ hi <= Len(Fread)
              /\ hi - lo + 1 = n
              /\ \A j \in 1..n : /\ lo + j - 1 = code + j /\ code + j \in 1..z
                                 /\ ~(code + j <= code) /\ (code + j) - code = j
              BY <1>3, <3>2, <3>5
        <5>2. Len(nalu) = n
              BY DEF n
        <5>3. \A j \in 1..n : Fread[code + j] = nalu[j]
          <6> TAKE j \in 1..n
          <6>1. code + j \in 1..z /\ ~(code + j <= code) /\ (code + j) - code = j
                BY <5>1
          <6>2. Piece(k)[code + j] = nalu[j]
                BY <3>5, <6>1
          <6> QED BY <3>2, <6>1, <6>2
        <5> HIDE DEF lo, hi
        <5>4. /\ s \in Seq(Byte) /\ Len(s) = hi - lo + 1
              /\ \A j \in 1..(hi - lo + 1) : s[j] = Fread[lo + j - 1]
              BY <1>3, <5>1, SubSeqIs
        <5> HIDE DEF s
        <5>5. Len(s) = Len(nalu) /\ \A j \in 1..Len(s) : s[j] = nalu[j]
              BY <5>1, <5>2, <5>3, <5>4
        <5>6. s = nalu
              BY <3>5, <5>4, <5>5, SeqEqual
        <5> QED BY <5>6 DEF s, lo, hi
      <4>5. k \in DOMAIN stream /\ Nalu' = stream[k].nalu
            BY <1>1, <4>3, <4>4, PieceType DEF nalu
      <4>6. CutsAtNalus'
        <5>1. /\ k \in DOMAIN stream' /\ Nalu' = stream'[k].nalu
              /\ pos' = IF k = Len(stream') THEN 0 ELSE Len(UpTo(k)')
              BY <1>1, <1>2, <3>6, <4>5
        <5>2. \E l \in DOMAIN stream' :
                 /\ Nalu' = stream'[l].nalu
                 /\ pos' = IF l = Len(stream') THEN 0 ELSE Len(UpTo(l)')
              BY <5>1
        <5> QED BY <5>2 DEF CutsAtNalus
      <4> QED BY <3>7, <3>8, <4>2, <4>6
    <3> QED BY <3>3, <3>9, <3>10
  <2> QED BY <2>1, <2>2
<1>5. pktsSent' \in 0..PktNum'
  <2>1. frame'.mSize \in Nat /\ PktMax \in Nat \ {0}
        BY <1>4, StreamAssumption
  <2>2. frame'.mSize \div PktMax \in Nat
        BY <2>1
  <2> QED BY <1>1, <2>2 DEF PktNum
<1>6. Types'
      BY <1>1, <1>2, <1>3, <1>4, <1>5 DEF StreamInv, Types
<1>7. Sending'
      BY <1>1 DEF Sending
<1>8. Received
      BY <1>1 DEF Received
<1> QED BY <1>4, <1>6, <1>7, <1>8 DEF StreamInv

(* What every packet leaves as it must be.                                 *)
LEMMA SentTypes ==
  ASSUME StreamInv, UNCHANGED <<stream, pos, temp>>, frame' = frame \/ frame' = NoFrame,
         NEW payload, SendRtpPacket(payload),
         rtp' = [seq |-> mSeq, time |-> mTimestamp, payload |-> payload],
         payload \in Seq(Int), Len(payload) <= PktMax + 2,
         pktsSent' \in 0..PktNum', mTimestamp' \in 0..(TimeLimit - 1), unit' \in Seq(Int)
  PROVE  Types' /\ CutsAtNalus' /\ AtUnit'
         /\ mSeq' = (rtp'.seq + 1) % SeqLimit
<1>1. /\ CutsAtNalus' /\ AtUnit'
      /\ (stream \in Streams)' /\ (pos \in 0..Len(Bytes))'
      /\ (temp \in Seq(Byte))' /\ (Len(temp) <= FrameMax)'
      /\ (frame \in [mBuf : Nat, mSize : Nat])'
      /\ (frame.mBuf + frame.mSize <= Len(temp))'
      BY SameReader DEF StreamInv
<1>2. mSeq \in 0..(SeqLimit - 1) /\ mTimestamp \in 0..(TimeLimit - 1)
      BY DEF StreamInv, Types
<1>3. mSeq' = (mSeq + 1) % SeqLimit
      BY DEF SendRtpPacket
<1>4. mSeq' \in 0..(SeqLimit - 1)
      BY <1>2, <1>3, StreamAssumption
<1>5. rtp' \in [seq : 0..(SeqLimit - 1), time : 0..(TimeLimit - 1), payload : Seq(Int)]
      /\ rtp'.payload = payload /\ rtp'.seq = mSeq
      BY <1>2
<1>6. Types'
      BY <1>1, <1>4, <1>5 DEF Types
<1> QED BY <1>1, <1>3, <1>5, <1>6

(* The timestamp wraps around.                                             *)
LEMMA TimeAdvances ==
  ASSUME mTimestamp \in 0..(TimeLimit - 1)
  PROVE  (mTimestamp + TimeStep) % TimeLimit \in 0..(TimeLimit - 1)
BY StreamAssumption

(* Without a frame nothing is under way.                                   *)
LEMMA NoFrameIs ==
  ASSUME frame' = NoFrame, pktsSent' = 0
  PROVE  pktsSent' \in 0..PktNum' /\ Sending'
<1>1. PktMax \in Nat \ {0}
      BY StreamAssumption
<1>2. 0 \div PktMax \in Nat
      BY <1>1
<1>3. PktNum' = 0 \div PktMax
      BY DEF PktNum, NoFrame
<1>4. 0 \in 0..(0 \div PktMax)
      BY <1>2
<1> QED BY <1>3, <1>4 DEF Sending

(* A frame that fits into a packet arrives with it.                        *)
LEMMA SendSingleKeeps ==
  ASSUME StreamInv, SendSingle
  PROVE  StreamInv' /\ Received
<1> DEFINE u == Nalu
           pkt == [seq |-> mSeq, time |-> mTimestamp, payload |-> u]
<1>1. /\ frame # NoFrame /\ frame.mSize <= PktMax
      /\ SendRtpPacket(u) /\ frame' = NoFrame
      /\ mTimestamp' = Advanced(u[1]) /\ UNCHANGED <<stream, pos, temp, pktsSent>>
      BY DEF SendSingle
<1>2. /\ u \in Seq(Byte) /\ Len(u) = frame.mSize /\ Type(u[1]) # 28
      /\ frame.mSize \in Nat
      BY <1>1, FrameIs DEF StreamInv
<1>3. Receive(pkt) /\ pkt.payload = u
      BY <1>1 DEF SendRtpPacket
<1> HIDE DEF u
<1>4. rtp' = pkt /\ unit' = << >> /\ got' = u
      BY <1>2, <1>3 DEF Receive
<1>5. pktsSent' = 0
  <2>1. PktMax \in Nat \ {0} /\ pktsSent \in Nat
    <3>1. PktMax \in Nat \ {0}
          BY StreamAssumption
    <3>2. pktsSent \in Int /\ pktsSent >= 0
          BY <1>2, <3>1 DEF StreamInv, Types, PktNum
    <3> QED BY <3>1, <3>2
  <2>2. ~(pktsSent > 0)
        BY <1>1, <1>2, <2>1 DEF StreamInv, Sending
  <2> QED BY <1>1, <2>1, <2>2
<1>6. mTimestamp' \in 0..(TimeLimit - 1)
  <2>1. mTimestamp \in 0..(TimeLimit - 1)
        BY DEF StreamInv, Types
  <2> QED BY <1>1, <2>1, TimeAdvances DEF Advanced
<1>7. u \in Seq(Int) /\ Len(u) <= PktMax + 2
  <2>1. PktMax \in Nat
        BY StreamAssumption
  <2>2. u \in Seq(Int)
        BY <1>2, SeqMonotonic, ByteIsInt
  <2> QED BY <1>1, <1>2, <2>1, <2>2
<1>8. pktsSent' \in 0..PktNum' /\ Sending'
      BY <1>1, <1>5, NoFrameIs
<1>9. unit' \in Seq(Int)
      BY <1>4, EmptySeq
<1>10. Types' /\ CutsAtNalus' /\ AtUnit'
      BY <1>1, <1>4, <1>6, <1>7, <1>8, <1>9, SentTypes
<1>11. Received
  <2>1. IsPrefix(u, u)
        BY <1>2 DEF IsPrefix
  <2>2. Len(u) <= frame.mSize + 1
        BY <1>2
  <2> QED BY <1>4, <2>1, <2>2 DEF Received, u
<1> QED BY <1>8, <1>10, <1>11 DEF StreamInv

(* What the client has after the fragment of a frame.                      *)
LEMMA FragmentReceived ==
  ASSUME StreamInv, frame # NoFrame, NEW size \in 1..PktMax, NEW bits \in FuBits,
         Starts(bits) <=> pktsSent = 0, ~(Starts(bits) /\ Ends(bits)),
         NEW payload, payload = Header(Nalu[1], bits) \o Chunk(pktsSent, size),
         SendRtpPacket(payload)
  PROVE  /\ rtp' = [seq |-> mSeq, time |-> mTimestamp, payload |-> payload]
         /\ payload \in Seq(Int) /\ Len(payload) <= PktMax + 2
         /\ unit' \in Seq(Int)
         /\ IF Ends(bits) THEN got' = Joined(pktsSent * PktMax + size)
                          ELSE unit' = Joined(pktsSent * PktMax + size) /\ got' = got
<1> DEFINE chunk == Chunk(pktsSent, size)
           pkt == [seq |-> mSeq, time |-> mTimestamp, payload |-> payload]
           all == Joined(pktsSent * PktMax + size)
<1>1. /\ Nalu[1] \in FirstByte /\ Nalu[1] \in Int /\ frame.mBuf \in Nat
      /\ temp \in Seq(Byte) /\ PktMax \in Nat \ {0} /\ size \in Nat \ {0} /\ size <= PktMax
  <2>1. PktMax \in Nat \ {0}
        BY StreamAssumption
  <2>2. size \in Nat \ {0} /\ size <= PktMax
        BY <2>1
  <2>3. Nalu[1] \in FirstByte /\ frame.mBuf \in Nat /\ temp \in Seq(Byte)
        BY FrameIs DEF StreamInv, Types
  <2> QED BY <2>1, <2>2, <2>3, ByteIsInt
<1>2. pktsSent \in Nat
  <2>1. pktsSent \in 0..PktNum
        BY DEF StreamInv, Types
  <2>2. PktNum \in Int
        BY <1>1, FrameIs DEF PktNum, StreamInv
  <2> QED BY <2>1, <2>2
<1>3. chunk \in Seq(Int) /\ chunk # << >> /\ Len(chunk) = size
      BY <1>1, <1>2, ChunkIs
<1>4. pkt.payload = payload /\ pkt.seq = mSeq /\ Receive(pkt)
      BY DEF SendRtpPacket
<1>5. pktsSent # 0 => /\ unit = Joined(pktsSent * PktMax) /\ unit # << >>
                      /\ mSeq = (rtp.seq + 1) % SeqLimit
  <2> SUFFICES ASSUME pktsSent # 0
               PROVE  /\ unit = Joined(pktsSent * PktMax) /\ unit # << >>
                      /\ mSeq = (rtp.seq + 1) % SeqLimit
      OBVIOUS
  <2>1. pktsSent > 0 /\ pktsSent * PktMax \in Nat
        BY <1>1, <1>2
  <2>2. unit = Joined(pktsSent * PktMax) /\ mSeq = (rtp.seq + 1) % SeqLimit
        BY <2>1 DEF StreamInv, Sending
  <2>3. Joined(pktsSent * PktMax) # << >>
        BY <1>1, <2>1, JoinedIs
  <2> QED BY <2>2, <2>3
<1>6. /\ Joined(pktsSent * PktMax) \o chunk = all
      /\ pktsSent = 0 => <<Nalu[1]>> \o chunk = all
  <2>1. Joined(pktsSent * PktMax) \o chunk = all
        BY <1>1, <1>2, JoinedMore
  <2>2. ASSUME pktsSent = 0 PROVE <<Nalu[1]>> \o chunk = all
    <3>1. <<Nalu[1]>> \o Chunk(0, size) = Joined(size)
          BY <1>1, JoinedMore
    <3>2. 0 * PktMax + size = size
          BY <1>1
    <3> QED BY <2>2, <3>1, <3>2
  <2> QED BY <2>1, <2>2
<1>7. all \in Seq(Int)
  <2>0. pktsSent * PktMax \in Nat
        BY <1>1, <1>2
  <2>1. pktsSent * PktMax + size \in Nat
        BY <1>1, <2>0
  <2> QED BY <1>1, <2>1, JoinedIs
<1> HIDE DEF chunk, pkt, all
<1>8. /\ rtp' = pkt
      /\ payload \in Seq(Int) /\ Len(payload) = Len(chunk) + 2
      /\ Starts(bits) /\ ~ Ends(bits) => unit' = <<Nalu[1]>> \o chunk /\ got' = got
      /\ ~ Starts(bits) /\ Ends(bits) => unit' = << >> /\ got' = unit \o chunk
      /\ ~ Starts(bits) /\ ~ Ends(bits) => unit' = unit \o chunk /\ got' = got
  <2> DEFINE b == Nalu[1]
  <2>1. b \in FirstByte /\ pkt.payload = Header(b, bits) \o chunk
        BY <1>1, <1>4 DEF chunk
  <2>2. Starts(bits) \/ (unit # << >> /\ pkt.seq = (rtp.seq + 1) % SeqLimit)
        BY <1>4, <1>5
  <2> HIDE DEF b
  <2>3. /\ rtp' = pkt
        /\ pkt.payload \in Seq(Int) /\ Len(pkt.payload) = Len(chunk) + 2
        /\ Starts(bits) /\ ~ Ends(bits) => unit' = <<b>> \o chunk /\ got' = got
        /\ ~ Starts(bits) /\ Ends(bits) => unit' = << >> /\ got' = unit \o chunk
        /\ ~ Starts(bits) /\ ~ Ends(bits) => unit' = unit \o chunk /\ got' = got
        BY <1>3, <1>4, <2>1, <2>2, ReceiveFragment
  <2> QED BY <1>4, <2>3 DEF b
<1>9. payload \in Seq(Int) /\ Len(payload) <= PktMax + 2
      BY <1>1, <1>3, <1>8
<1>10. /\ ~ Ends(bits) => unit' = all /\ got' = got
       /\ Ends(bits) => unit' = << >> /\ got' = all
  <2>1. CASE Starts(bits)
        BY <1>6, <1>8, <2>1, Zenon
  <2>2. CASE ~ Starts(bits)
        BY <1>5, <1>6, <1>8, <2>2, Zenon
  <2> QED BY <2>1, <2>2
<1>11. unit' \in Seq(Int)
      BY <1>7, <1>10, EmptySeq
<1> QED BY <1>8, <1>9, <1>10, <1>11 DEF pkt, all

(* How many fragments a frame has, and what is left for the last one.      *)
LEMMA FragmentsAre ==
  ASSUME frame.mSize \in Nat
  PROVE  /\ PktNum \in Nat /\ RemainPktSize \in 0..(PktMax - 1)
         /\ frame.mSize = PktNum * PktMax + RemainPktSize
         /\ frame.mSize > PktMax => PktNum >= 1
         /\ frame.mSize > PktMax /\ RemainPktSize = 0 => PktNum >= 2
<1>1. PICK m \in Nat, p \in Nat \ {0} : m = frame.mSize /\ p = PktMax
      BY StreamAssumption
<1>2. PICK q, r : q = m \div p /\ r = m % p
      OBVIOUS
<1>3. /\ q \in Nat /\ r \in 0..(p - 1) /\ m = q * p + r
      /\ m > p => q >= 1
      /\ m > p /\ r = 0 => q >= 2
      BY <1>2, DivMod
<1>4. q = PktNum /\ r = RemainPktSize
      BY <1>1, <1>2 DEF PktNum, RemainPktSize
<1> QED BY <1>1, <1>3, <1>4

(* A fragment of full size is joined to those before; the last one ends    *)
(* the frame when nothing is left.                                         *)
LEMMA SendFragmentKeeps ==
  ASSUME StreamInv, SendFragment
  PROVE  StreamInv' /\ Received
<1> DEFINE first == IF pktsSent = 0 THEN 128 ELSE 0
           bits == first + EndBit(pktsSent)
           payload == Fragment(pktsSent, PktMax, first, EndBit(pktsSent))
           m == frame.mSize
           q == PktNum
           r == RemainPktSize
           all == Joined(pktsSent * PktMax + PktMax)
           done == pktsSent + 1 = q /\ r = 0
<1>1. /\ m > PktMax /\ pktsSent < q
      /\ SendRtpPacket(payload)
      /\ UNCHANGED <<stream, pos, temp>>
      /\ IF done
           THEN /\ frame' = NoFrame /\ pktsSent' = 0
                /\ mTimestamp' = (mTimestamp + TimeStep) % TimeLimit
           ELSE pktsSent' = pktsSent + 1 /\ UNCHANGED <<frame, mTimestamp>>
      BY DEF SendFragment
<1>2. /\ PktMax \in Nat \ {0} /\ m \in Nat /\ frame # NoFrame /\ pktsSent \in 0..q
      /\ mTimestamp \in 0..(TimeLimit - 1)
  <2>1. PktMax \in Nat \ {0} /\ m \in Nat /\ pktsSent \in 0..q
        /\ mTimestamp \in 0..(TimeLimit - 1)
        BY StreamAssumption DEF StreamInv, Types
  <2>2. frame # NoFrame
        BY <1>1, <2>1 DEF NoFrame
  <2> QED BY <2>1, <2>2
<1>3. /\ q \in Nat /\ r \in 0..(PktMax - 1) /\ m = q * PktMax + r
      /\ m > PktMax => q >= 1
      /\ m > PktMax /\ r = 0 => q >= 2
      BY <1>2, FragmentsAre
<1>4. pktsSent \in Nat
      BY <1>2, <1>3
<1>5. EndBit(pktsSent) = IF pktsSent > 0 /\ r = 0 /\ pktsSent = q - 1 THEN 64 ELSE 0
      BY DEF EndBit
<1>6. payload = Header(Nalu[1], bits) \o Chunk(pktsSent, PktMax)
      BY DEF Fragment, Header, Chunk, Indicator, FuHeader
<1> HIDE DEF m, q, r, payload, all
<1>7. bits = IF pktsSent = 0 THEN 128 ELSE IF r = 0 /\ pktsSent = q - 1 THEN 64 ELSE 0
      BY <1>4, <1>5
<1> HIDE DEF bits
<1>8. done <=> pktsSent # 0 /\ r = 0 /\ pktsSent = q - 1
      BY <1>1, <1>3, <1>4
<1>9. /\ bits \in FuBits /\ (Starts(bits) <=> pktsSent = 0) /\ (Ends(bits) <=> done)
      /\ ~(Starts(bits) /\ Ends(bits))
  <2>1. CASE pktsSent = 0
        BY <1>7, <1>8, <2>1 DEF FuBits, Starts, Ends
  <2>2. CASE pktsSent # 0
    <3>1. CASE done
          BY <1>7, <1>8, <2>2, <3>1 DEF FuBits, Starts, Ends
    <3>2. CASE ~ done
          BY <1>7, <1>8, <2>2, <3>2 DEF FuBits, Starts, Ends
    <3> QED BY <3>1, <3>2
  <2> QED BY <2>1, <2>2
<1>10. /\ rtp' = [seq |-> mSeq, time |-> mTimestamp, payload |-> payload]
       /\ payload \in Seq(Int) /\ Len(payload) <= PktMax + 2
       /\ unit' \in Seq(Int)
       /\ IF Ends(bits) THEN got' = all ELSE unit' = all /\ got' = got
  <2>1. PktMax \in 1..PktMax
        BY <1>2
  <2> QED BY <1>1, <1>2, <1>6, <1>9, <2>1, FragmentReceived DEF all
<1>11. CASE done
  <2>1. /\ frame' = NoFrame /\ pktsSent' = 0 /\ mTimestamp' \in 0..(TimeLimit - 1)
        BY <1>1, <1>2, <1>11, TimeAdvances
  <2>2. pktsSent' \in 0..PktNum' /\ Sending'
        BY <2>1, NoFrameIs
  <2>3. Types' /\ CutsAtNalus' /\ AtUnit'
        BY <1>1, <1>10, <2>1, <2>2, SentTypes
  <2>4. pktsSent * PktMax + PktMax = m
    <3>1. q = pktsSent + 1 /\ m = q * PktMax
          BY <1>2, <1>3, <1>4, <1>11
    <3>2. (pktsSent + 1) * PktMax = pktsSent * PktMax + PktMax
          BY <1>2, <1>4
    <3> QED BY <3>1, <3>2
  <2>5. got' = Joined(m)
        BY <1>9, <1>10, <1>11, <2>4 DEF all
  <2>6. Received
        BY <1>2, <2>5, JoinedAll DEF Received, StreamInv, m
  <2> QED BY <2>2, <2>3, <2>6 DEF StreamInv
<1>12. CASE ~ done
  <2>1. /\ pktsSent' = pktsSent + 1 /\ frame' = frame /\ mTimestamp' = mTimestamp
        BY <1>1, <1>12
  <2>2. PktNum' = PktNum /\ RemainPktSize' = RemainPktSize
        BY <2>1 DEF PktNum, RemainPktSize
  <2>3. pktsSent' \in 0..PktNum'
        BY <1>1, <1>3, <1>4, <2>1, <2>2 DEF q
  <2>4. Types' /\ CutsAtNalus' /\ AtUnit' /\ mSeq' = (rtp'.seq + 1) % SeqLimit
        BY <1>1, <1>2, <1>10, <2>1, <2>3, SentTypes
  <2>5. \A n : Joined(n)' = Joined(n)
        BY <1>1, <2>1 DEF Joined, Nalu, ByteAt, Stale
  <2>6. (unit = Joined(pktsSent * PktMax))'
    <3>1. unit' = all
          BY <1>9, <1>10, <1>12
    <3>2. pktsSent' * PktMax = pktsSent * PktMax + PktMax
          BY <1>2, <1>4, <2>1
    <3>3. Joined(pktsSent' * PktMax) = all
          BY <3>2 DEF all
    <3> QED BY <2>5, <3>1, <3>3
  <2>7. pktsSent' = PktNum' => RemainPktSize' # 0
        BY <1>12, <2>1, <2>2 DEF q, r
  <2>8. Sending'
    <3>1. frame' # NoFrame /\ frame'.mSize > PktMax
          BY <1>1, <1>2, <2>1 DEF m
    <3>2. NoFrame' = NoFrame
          BY DEF NoFrame
    <3> QED BY <2>4, <2>6, <2>7, <3>1, <3>2 DEF Sending
  <2>9. Received
        BY <1>2, <2>1 DEF Received
  <2> QED BY <2>4, <2>8, <2>9 DEF StreamInv
<1> QED BY <1>11, <1>12

(* The rest of a frame ends it.                                            *)
LEMMA SendRemainingKeeps ==
  ASSUME StreamInv, SendRemaining
  PROVE  StreamInv' /\ Received
<1> DEFINE bits == 0 + 64
           payload == Fragment(PktNum, RemainPktSize, 0, 64)
           m == frame.mSize
           q == PktNum
           r == RemainPktSize
           all == Joined(pktsSent * PktMax + r)
<1>1. /\ m > PktMax /\ pktsSent = q
      /\ SendRtpPacket(payload)
      /\ UNCHANGED <<stream, pos, temp>>
      /\ frame' = NoFrame /\ pktsSent' = 0
      /\ mTimestamp' = (mTimestamp + TimeStep) % TimeLimit
      BY DEF SendRemaining
<1>2. /\ PktMax \in Nat \ {0} /\ m \in Nat /\ frame # NoFrame
      /\ mTimestamp \in 0..(TimeLimit - 1)
  <2>1. PktMax \in Nat \ {0} /\ m \in Nat /\ mTimestamp \in 0..(TimeLimit - 1)
        BY StreamAssumption DEF StreamInv, Types
  <2>2. frame # NoFrame
        BY <1>1, <2>1 DEF NoFrame
  <2> QED BY <2>1, <2>2
<1>3. /\ q \in Nat /\ r \in 0..(PktMax - 1) /\ m = q * PktMax + r
      /\ m > PktMax => q >= 1
      BY <1>2, FragmentsAre
<1>4. r # 0
  <2>1. pktsSent > 0 /\ pktsSent = PktNum
        BY <1>1, <1>3
  <2> QED BY <2>1 DEF StreamInv, Sending
<1>5. payload = Header(Nalu[1], bits) \o Chunk(pktsSent, r)
      BY <1>1 DEF Fragment, Header, Chunk, Indicator, FuHeader
<1>6. bits \in FuBits /\ ~ Starts(bits) /\ Ends(bits)
      BY DEF FuBits, Starts, Ends
<1> HIDE DEF bits, payload, m, q, r, all
<1>7. /\ rtp' = [seq |-> mSeq, time |-> mTimestamp, payload |-> payload]
      /\ payload \in Seq(Int) /\ Len(payload) <= PktMax + 2
      /\ unit' \in Seq(Int)
      /\ IF Ends(bits) THEN got' = all ELSE unit' = all /\ got' = got
  <2>1. r \in 1..PktMax
        BY <1>2, <1>3, <1>4
  <2>2. pktsSent # 0
        BY <1>1, <1>3
  <2> QED BY <1>1, <1>2, <1>5, <1>6, <2>1, <2>2, FragmentReceived DEF all
<1>8. mTimestamp' \in 0..(TimeLimit - 1)
      BY <1>1, <1>2, TimeAdvances
<1>9. pktsSent' \in 0..PktNum' /\ Sending'
      BY <1>1, NoFrameIs
<1>10. Types' /\ CutsAtNalus' /\ AtUnit'
      BY <1>1, <1>7, <1>8, <1>9, SentTypes
<1>11. got' = Joined(m)
      BY <1>1, <1>3, <1>6, <1>7 DEF all
<1>12. Received
      BY <1>2, <1>11, JoinedAll DEF Received, StreamInv, m
<1> QED BY <1>9, <1>10, <1>12 DEF StreamInv

(* StreamInv holds in the beginning,                                       *)
LEMMA StreamInvInit == Init => StreamInv
<1> SUFFICES ASSUME Init PROVE StreamInv
    OBVIOUS
<1>1. /\ stream \in Streams /\ pos = 0 /\ temp = << >> /\ frame = NoFrame /\ pktsSent = 0
      /\ mSeq = 0 /\ mTimestamp = 0 /\ rtp = NoPkt /\ unit = << >>
      BY DEF Init
<1>2. Len(Bytes) \in Nat
      BY <1>1, BytesIs
<1>3. PktNum \in Nat
      BY <1>1, StreamAssumption DEF PktNum, NoFrame
<1>4. rtp \in [seq : 0..(SeqLimit - 1), time : 0..(TimeLimit - 1), payload : Seq(Int)]
      /\ Len(rtp.payload) <= PktMax + 2
      BY <1>1, StreamAssumption, EmptySeq DEF NoPkt
<1>5. /\ temp \in Seq(Byte) /\ Len(temp) = 0 /\ FrameMax \in Nat
      /\ frame \in [mBuf : Nat, mSize : Nat] /\ frame.mBuf + frame.mSize = 0
      /\ mSeq \in 0..(SeqLimit - 1) /\ mTimestamp \in 0..(TimeLimit - 1)
      /\ unit \in Seq(Int)
      BY <1>1, StreamAssumption, EmptySeq DEF NoFrame
<1>6. Types
      BY <1>1, <1>2, <1>3, <1>4, <1>5 DEF Types
<1> QED BY <1>1, <1>6 DEF StreamInv, CutsAtNalus, AtUnit, Sending

(* in a step that changes nothing,                                         *)
LEMMA StreamInvStutters == StreamInv /\ UNCHANGED vars => StreamInv'
<1> SUFFICES ASSUME StreamInv, UNCHANGED vars PROVE StreamInv'
    OBVIOUS
<1>1. /\ UNCHANGED <<stream, pos, temp>> /\ frame' = frame
      /\ pktsSent' = pktsSent /\ mSeq' = mSeq /\ mTimestamp' = mTimestamp
      /\ rtp' = rtp /\ unit' = unit
      BY DEF vars
<1>2. PktNum' = PktNum /\ RemainPktSize' = RemainPktSize /\ \A n : Joined(n)' = Joined(n)
      BY <1>1 DEF PktNum, RemainPktSize, Joined, Nalu, ByteAt, Stale
<1>3. CutsAtNalus' /\ AtUnit' /\ Types'
      BY <1>1, <1>2, SameReader DEF StreamInv, Types
<1>4. Sending'
      BY <1>1, <1>2 DEF StreamInv, Sending
<1> QED BY <1>3, <1>4 DEF StreamInv

(* and after every other step, which gives the client what it ends.        *)
LEMMA StreamStep == StreamInv /\ [Next]_vars => StreamInv' /\ Received
<1> SUFFICES ASSUME StreamInv, [Next]_vars PROVE StreamInv' /\ Received
    OBVIOUS
<1>1. CASE ReadFrame
      BY <1>1, ReadFrameKeeps
<1>2. CASE SendSingle
      BY <1>2, SendSingleKeeps
<1>3. CASE SendFragment
      BY <1>3, SendFragmentKeeps
<1>4. CASE SendRemaining
      BY <1>4, SendRemainingKeeps
<1>5. CASE UNCHANGED vars
      BY <1>5, StreamInvStutters DEF Received, vars
<1> QED BY <1>1, <1>2, <1>3, <1>4, <1>5 DEF Next

(* The buffers, the counters and the packets keep to their sizes.          *)
THEOREM TypeCorrect == Spec => []TypeOK
<1>1. StreamInv => TypeOK
      BY DEF StreamInv, Types, TypeOK, PktNum
<1> QED BY <1>1, StreamInvInit, StreamStep, PTL DEF Spec

(* Every frame that is cut out of a file is one of its NALUs, and the      *)
(* reader stands behind it.                                                *)
THEOREM FramesAreNalus == Spec => []CutsAtNalus
<1>1. StreamInv => CutsAtNalus
      BY DEF StreamInv
<1> QED BY <1>1, StreamInvInit, StreamStep, PTL DEF Spec

(* A client that gets all packets has the NALU after the last one, whether *)
(* it came in one packet or in fragments.                                  *)
THEOREM NalusArrive == Spec => NaluReceived
<1>1. StreamInv /\ [Next]_vars
        => [frame # NoFrame /\ frame' = NoFrame
              => IsPrefix(Nalu, got') /\ Len(got') <= frame.mSize + 1]_vars
      BY StreamStep DEF Received
<1> QED BY <1>1, StreamInvInit, StreamStep, PTL DEF Spec, NaluReceived

=============================================================================
