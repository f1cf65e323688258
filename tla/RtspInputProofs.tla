-------------------------- MODULE RtspInputProofs ---------------------------
(***************************************************************************)
(* Proofs about Buffer, for buffers of any size and content, and about     *)
(* RtspInput, for all scripts, sizes of packets and initial sizes of the   *)
(* buffer.                                                                 *)
(***************************************************************************)
EXTENDS RtspInput, SequenceTheorems, WellFoundedInduction, TLAPS

-----------------------------------------------------------------------------
(* The parts of a buffer.                                                  *)
LEMMA BufferParts ==
  ASSUME NEW S, NEW b \in Buffers(S)
  PROVE  /\ b.mBuffer \in Seq(S) /\ Len(b.mBuffer) \in Nat
         /\ DOMAIN b.mBuffer = 1..Len(b.mBuffer)
         /\ b.mReadIndex \in Nat /\ b.mWriteIndex \in Nat
         /\ b.mReadIndex <= b.mWriteIndex /\ b.mWriteIndex <= Len(b.mBuffer)
BY DEF Buffers

(* The readable bytes are a sequence of the elements of the memory.        *)
LEMMA ReadableParts ==
  ASSUME NEW S, NEW b \in Buffers(S)
  PROVE  /\ Readable(b) \in Seq(S)
         /\ Len(Readable(b)) = readableBytes(b)
         /\ readableBytes(b) \in Nat
         /\ \A i \in 1..readableBytes(b) : Readable(b)[i] = b.mBuffer[b.mReadIndex + i]
<1> USE BufferParts DEF readableBytes
<1>1. readableBytes(b) \in Nat
      OBVIOUS
<1>2. \A i \in 1..readableBytes(b) : b.mBuffer[b.mReadIndex + i] \in S
      BY <1>1
<1> QED BY <1>1, <1>2 DEF Readable

(* The constructor.                                                        *)
LEMMA NewBufferIsEmpty ==
  ASSUME NEW S, Junk \in S
  PROVE  NewBuffer \in Buffers(S) /\ Readable(NewBuffer) = << >>
<1>1. [i \in 1..initialSize |-> Junk] \in Seq(S) /\ Len([i \in 1..initialSize |-> Junk]) \in Nat
      BY BufferAssumption
<1>2. NewBuffer \in Buffers(S)
      BY <1>1 DEF NewBuffer, Buffers
<1> QED BY <1>2 DEF Readable, readableBytes, NewBuffer

(* std::copy behind the readable bytes makes them readable too.            *)
LEMMA CopyInAppends ==
  ASSUME NEW S, NEW b \in Buffers(S), NEW d \in Seq(S), Len(d) <= writableBytes(b)
  PROVE  /\ CopyIn(b, d) \in Buffers(S)
         /\ Readable(CopyIn(b, d)) = Readable(b) \o d
         /\ writableBytes(CopyIn(b, d)) = writableBytes(b) - Len(d)
<1> DEFINE old == b.mBuffer
           r   == b.mReadIndex
           w   == b.mWriteIndex
           mem == [i \in DOMAIN old |->
                     IF i > w /\ i <= w + Len(d) THEN d[i - w] ELSE old[i]]
           c   == CopyIn(b, d)
<1>1. /\ old \in Seq(S) /\ Len(old) \in Nat /\ DOMAIN old = 1..Len(old)
      /\ r \in Nat /\ w \in Nat /\ r <= w /\ w <= Len(old)
      BY BufferParts
<1>2. Len(d) \in Nat /\ w + Len(d) <= Len(old)
      BY <1>1 DEF writableBytes
<1>3. c.mBuffer = mem /\ c.mReadIndex = r /\ c.mWriteIndex = w + Len(d)
      BY DEF CopyIn
<1>4. c = [mBuffer |-> mem, mReadIndex |-> r, mWriteIndex |-> w + Len(d)]
      BY DEF CopyIn
<1>5. ASSUME NEW i \in 1..Len(old)
      PROVE  /\ i <= w => mem[i] = old[i]
             /\ i > w /\ i <= w + Len(d) => mem[i] = d[i - w] /\ mem[i] \in S
             /\ i > w + Len(d) => mem[i] = old[i]
             /\ old[i] \in S
      BY <1>1, <1>2
<1> HIDE DEF mem, c, old, r, w
<1>6. mem \in Seq(S) /\ Len(mem) = Len(old)
  <2>1. \A i \in 1..Len(old) : mem[i] \in S
        BY <1>1, <1>2, <1>5
  <2> QED BY <1>1, <2>1 DEF mem
<1>7. c \in Buffers(S)
      BY <1>1, <1>2, <1>4, <1>6 DEF Buffers
<1>8. writableBytes(c) = writableBytes(b) - Len(d)
      BY <1>1, <1>2, <1>3, <1>6 DEF writableBytes, old, w
<1>9. /\ Readable(c) \in Seq(S) /\ Len(Readable(c)) = readableBytes(c)
      /\ \A i \in 1..readableBytes(c) : Readable(c)[i] = mem[r + i]
      BY <1>3, <1>7, ReadableParts
<1>10. /\ Readable(b) \in Seq(S) /\ Len(Readable(b)) = w - r
       /\ \A i \in 1..w - r : Readable(b)[i] = old[r + i]
      BY ReadableParts DEF readableBytes, old, r, w
<1>11. readableBytes(c) = (w - r) + Len(d)
      BY <1>1, <1>2, <1>3 DEF readableBytes
<1>12. ASSUME NEW i \in 1..(w - r) + Len(d)
       PROVE  Readable(c)[i] = (Readable(b) \o d)[i]
  <2>1. Readable(c)[i] = mem[r + i] /\ r + i \in 1..Len(old)
        BY <1>1, <1>2, <1>9, <1>11
  <2>2. CASE i <= w - r
    <3>1. mem[r + i] = old[r + i]
          BY <1>1, <1>5, <2>1, <2>2
    <3> QED BY <1>1, <1>10, <2>1, <2>2, <3>1
  <2>3. CASE i > w - r
    <3>1. mem[r + i] = d[(r + i) - w]
          BY <1>1, <1>2, <1>5, <2>1, <2>3
    <3>2. (Readable(b) \o d)[i] = d[i - (w - r)]
          BY <1>1, <1>2, <1>10, <2>3
    <3>3. i - (w - r) = (r + i) - w
          BY <1>1
    <3> QED BY <2>1, <3>1, <3>2, <3>3
  <2>4. i <= w - r \/ i > w - r
        BY <1>1, <1>2
  <2> QED BY <2>2, <2>3, <2>4
<1>13. Readable(c) = Readable(b) \o d
  <2>1. /\ Readable(b) \o d \in Seq(S)
        /\ Len(Readable(b) \o d) = (w - r) + Len(d)
        BY <1>10
  <2> QED BY <2>1, <1>9, <1>11, <1>12
<1> QED BY <1>7, <1>8, <1>13 DEF c

(* realloc and the move to the front make room and keep what is readable.  *)
LEMMA MakeSpaceKeeps ==
  ASSUME NEW S, Junk \in S, NEW b \in Buffers(S), NEW n \in Nat, writableBytes(b) < n
  PROVE  /\ makeSpace(b, n) \in Buffers(S)
         /\ Readable(makeSpace(b, n)) = Readable(b)
         /\ n <= writableBytes(makeSpace(b, n))
<1> DEFINE old == b.mBuffer
           r   == b.mReadIndex
           w   == b.mWriteIndex
           c   == makeSpace(b, n)
<1>1. /\ old \in Seq(S) /\ Len(old) \in Nat /\ DOMAIN old = 1..Len(old)
      /\ r \in Nat /\ w \in Nat /\ r <= w /\ w <= Len(old)
      BY BufferParts
<1>2. Len(old) - w < n
      BY DEF writableBytes
<1>3. /\ Len(Readable(b)) = w - r /\ Readable(b) \in Seq(S)
      /\ \A i \in 1..w - r : Readable(b)[i] = old[r + i]
      BY ReadableParts DEF readableBytes
<1>4. ASSUME c \in Buffers(S), c.mWriteIndex - c.mReadIndex = w - r,
             \A i \in 1..w - r : c.mBuffer[c.mReadIndex + i] = old[r + i]
      PROVE  Readable(c) = Readable(b)
      BY <1>4 DEF Readable, readableBytes
<1>5. CASE writableBytes(b) + prependableBytes(b) < n
  <2> DEFINE mem == [i \in 1..w + n |-> IF i <= Len(old) THEN old[i] ELSE Junk]
  <2>1. c = [mBuffer |-> mem, mReadIndex |-> r, mWriteIndex |-> w]
        BY <1>5 DEF makeSpace, Grown
  <2>2. ASSUME NEW i \in 1..w + n
        PROVE  mem[i] \in S /\ (i <= Len(old) => mem[i] = old[i])
        BY <1>1
  <2> HIDE DEF mem, c
  <2>3. mem = [i \in 1..w + n |-> mem[i]]
        BY DEF mem
  <2>4. mem \in Seq(S) /\ Len(mem) = w + n
    <3> DEFINE k == w + n
    <3>1. k \in Nat /\ \A i \in 1..k : mem[i] \in S
          BY <1>1, <2>2
    <3>2. mem = [i \in 1..k |-> mem[i]]
          BY <2>3
    <3> HIDE DEF k
    <3>3. mem \in Seq(S) /\ Len(mem) = k
          BY <3>1, <3>2
    <3> QED BY <3>3 DEF k
  <2>5. c \in Buffers(S)
        BY <1>1, <1>2, <2>1, <2>4 DEF Buffers
  <2>6. n <= writableBytes(c)
        BY <1>1, <2>1, <2>4 DEF writableBytes
  <2>7. \A i \in 1..w - r : c.mBuffer[c.mReadIndex + i] = old[r + i]
        BY <1>1, <1>2, <2>1, <2>2
  <2> QED BY <1>4, <2>1, <2>5, <2>6, <2>7 DEF c
<1>6. CASE ~(writableBytes(b) + prependableBytes(b) < n)
  <2> DEFINE mem == [i \in DOMAIN old |-> IF i <= w - r THEN old[r + i] ELSE old[i]]
  <2>1. c = [mBuffer |-> mem, mReadIndex |-> 0, mWriteIndex |-> w - r]
        BY <1>6 DEF makeSpace, Moved, readableBytes
  <2>2. ASSUME NEW i \in 1..Len(old)
        PROVE  mem[i] \in S /\ (i <= w - r => mem[i] = old[r + i])
        BY <1>1
  <2>3. DOMAIN mem = 1..Len(old)
        BY <1>1
  <2>4. mem \in Seq(S) /\ Len(mem) = Len(old)
        BY <1>1, <2>2, <2>3
  <2>5. n <= (Len(old) - w) + r
        BY <1>1, <1>6 DEF writableBytes, prependableBytes
  <2> HIDE DEF mem, c
  <2>6. c \in Buffers(S)
        BY <1>1, <2>1, <2>4 DEF Buffers
  <2>7. n <= writableBytes(c)
        BY <1>1, <2>1, <2>4, <2>5 DEF writableBytes
  <2>8. \A i \in 1..w - r : c.mBuffer[c.mReadIndex + i] = old[r + i]
        BY <1>1, <2>1, <2>2
  <2>9. (w - r) - 0 = w - r
        BY <1>1
  <2> QED BY <1>4, <2>1, <2>6, <2>7, <2>8, <2>9 DEF c
<1> QED BY <1>5, <1>6

LEMMA AppendAppends ==
  ASSUME NEW S, Junk \in S, NEW b \in Buffers(S), NEW d \in Seq(S)
  PROVE  append(b, d) \in Buffers(S) /\ Readable(append(b, d)) = Readable(b) \o d
<1>1. Len(d) \in Nat /\ writableBytes(b) \in Int
      BY BufferParts DEF writableBytes
<1>2. CASE writableBytes(b) < Len(d)
  <2> DEFINE c == makeSpace(b, Len(d))
  <2>1. c \in Buffers(S) /\ Readable(c) = Readable(b) /\ Len(d) <= writableBytes(c)
        BY <1>1, <1>2, MakeSpaceKeeps
  <2>2. CopyIn(c, d) \in Buffers(S) /\ Readable(CopyIn(c, d)) = Readable(c) \o d
        BY <2>1, CopyInAppends
  <2> QED BY <1>2, <2>1, <2>2 DEF append
<1>3. CASE ~(writableBytes(b) < Len(d))
      BY <1>1, <1>3, CopyInAppends DEF append
<1> QED BY <1>2, <1>3

(* Whatever room there is, and whether the memory grows, moves or stays,   *)
(* read puts what recv delivered behind what was readable, and keeps that. *)
THEOREM ReadAppends ==
  ASSUME NEW S, Junk \in S, NEW b \in Buffers(S), NEW d \in Seq(S)
  PROVE  read(b, d) \in Buffers(S) /\ Readable(read(b, d)) = Readable(b) \o d
<1> DEFINE n == writableBytes(b)
           front == SubSeq(d, 1, n)
           rest  == SubSeq(d, n + 1, Len(d))
           c == CopyIn(b, front)
<1>1. Len(d) \in Nat /\ n \in Nat
      BY BufferParts DEF writableBytes
<1>2. CASE Len(d) <= n
      BY <1>2, CopyInAppends DEF read
<1>3. CASE n < Len(d)
  <2>1. /\ front \in Seq(S) /\ Len(front) = n /\ rest \in Seq(S)
        /\ d = front \o rest
    <3> HIDE DEF n
    <3>1. front \in Seq(S) /\ Len(front) = n /\ rest \in Seq(S)
          BY <1>1, <1>3
    <3>2. 1 \in 1..Len(d) + 1 /\ n \in 1 - 1..Len(d) /\ Len(d) \in n..Len(d)
          BY <1>1, <1>3
    <3>3. d = front \o rest
          BY <3>2, ConcatAdjacentSubSeq, SubSeqFull
    <3> QED BY <3>1, <3>3
  <2> HIDE DEF front, rest
  <2>2. c \in Buffers(S) /\ Readable(c) = Readable(b) \o front
        BY <1>1, <2>1, CopyInAppends
  <2>3. /\ append(c, rest) \in Buffers(S)
        /\ Readable(append(c, rest)) = Readable(c) \o rest
        BY <2>1, <2>2, AppendAppends
  <2>4. Readable(b) \in Seq(S)
        BY ReadableParts
  <2>5. (Readable(b) \o front) \o rest = Readable(b) \o d
        BY <2>1, <2>4, ConcatAssociative
  <2>6. read(b, d) = append(c, rest)
        BY <1>1, <1>3 DEF read, front, rest
  <2> QED BY <2>2, <2>3, <2>5, <2>6
<1> QED BY <1>1, <1>2, <1>3

(* retrieve drops the first n of the readable bytes, or all of them.       *)
THEOREM RetrieveDrops ==
  ASSUME NEW S, NEW b \in Buffers(S), NEW n \in Nat
  PROVE  /\ retrieve(b, n) \in Buffers(S)
         /\ \E k \in 0..Len(Readable(b)) :
              Readable(retrieve(b, n)) = SubSeq(Readable(b), k + 1, Len(Readable(b)))
<1> DEFINE s == Readable(b)
           c == retrieve(b, n)
<1>1. /\ s \in Seq(S) /\ Len(s) = readableBytes(b) /\ readableBytes(b) \in Nat
      /\ \A i \in 1..readableBytes(b) : s[i] = b.mBuffer[b.mReadIndex + i]
      BY ReadableParts
<1>2. /\ b.mBuffer \in Seq(S) /\ Len(b.mBuffer) \in Nat
      /\ b.mReadIndex \in Nat /\ b.mWriteIndex \in Nat
      /\ b.mReadIndex <= b.mWriteIndex /\ b.mWriteIndex <= Len(b.mBuffer)
      BY BufferParts
<1>3. CASE n < readableBytes(b)
  <2>1. c = [b EXCEPT !.mReadIndex = @ + n]
        BY <1>3 DEF retrieve
  <2>2. /\ c.mBuffer = b.mBuffer /\ c.mReadIndex = b.mReadIndex + n
        /\ c.mWriteIndex = b.mWriteIndex
        BY <2>1 DEF Buffers
  <2>3. c \in Buffers(S)
        BY <1>2, <1>3, <2>1 DEF Buffers, readableBytes
  <2> HIDE DEF c, s
  <2>4. /\ Readable(c) \in Seq(S) /\ Len(Readable(c)) = readableBytes(b) - n
        /\ \A i \in 1..readableBytes(b) - n :
             Readable(c)[i] = b.mBuffer[(b.mReadIndex + n) + i]
    <3>1. readableBytes(c) = readableBytes(b) - n
          BY <1>2, <2>2 DEF readableBytes
    <3> QED BY <2>2, <2>3, <3>1, ReadableParts
  <2>5. /\ SubSeq(s, n + 1, Len(s)) \in Seq(S)
        /\ Len(SubSeq(s, n + 1, Len(s))) = readableBytes(b) - n
        /\ \A i \in 1..readableBytes(b) - n : SubSeq(s, n + 1, Len(s))[i] = s[n + i]
        BY <1>1, <1>3
  <2>6. \A i \in 1..readableBytes(b) - n : Readable(c)[i] = SubSeq(s, n + 1, Len(s))[i]
    <3> TAKE i \in 1..readableBytes(b) - n
    <3>1. s[n + i] = b.mBuffer[b.mReadIndex + (n + i)]
          BY <1>1, <1>3
    <3>2. b.mReadIndex + (n + i) = (b.mReadIndex + n) + i
          BY <1>1, <1>2
    <3> QED BY <2>4, <2>5, <3>1, <3>2
  <2>7. Readable(c) = SubSeq(s, n + 1, Len(s))
        BY <2>4, <2>5, <2>6
  <2>8. n \in 0..Len(s)
        BY <1>1, <1>3
  <2> QED BY <2>3, <2>7, <2>8 DEF c, s
<1>4. CASE ~(n < readableBytes(b))
  <2>1. c = [b EXCEPT !.mReadIndex = 0, !.mWriteIndex = 0]
        BY <1>4 DEF retrieve, retrieveAll
  <2>2. c.mReadIndex = 0 /\ c.mWriteIndex = 0
        BY <2>1 DEF Buffers
  <2>3. c \in Buffers(S)
    <3>1. c = [mBuffer |-> b.mBuffer, mReadIndex |-> 0, mWriteIndex |-> 0]
          BY <2>1 DEF Buffers
    <3> QED BY <1>2, <3>1 DEF Buffers
  <2>4. Readable(c) = << >>
        BY <2>2 DEF Readable, readableBytes
  <2>5. SubSeq(s, Len(s) + 1, Len(s)) = << >> /\ Len(s) \in 0..Len(s)
        BY <1>1
  <2> QED BY <2>3, <2>4, <2>5
<1> QED BY <1>3, <1>4

-----------------------------------------------------------------------------
(* RtspInput.                                                              *)

Memory == Bytes \cup {Junk}

-----------------------------------------------------------------------------
(* Line ends: a non-empty set of positions has a last one.                 *)
LEMMA LastPosition ==
  ASSUME NEW n \in Nat, NEW S, S \subseteq 1..n, S # {}
  PROVE  Max(S) \in S
<1> DEFINE T == {k \in Nat : n - k \in S}
<1>1. IsWellFoundedOn(OpToRel(<, Nat), Nat)
      BY NatLessThanWellFounded
<1>2. T \subseteq Nat /\ T # {}
  <2>1. PICK i \in S : TRUE
        OBVIOUS
  <2>2. i \in 1..n
        OBVIOUS
  <2>3. n - i \in Nat /\ n - (n - i) = i
        BY <2>2
  <2> QED BY <2>3
<1>3. PICK k \in T : \A l \in T : ~(<<l, k>> \in OpToRel(<, Nat))
      BY <1>1, <1>2, WFMin
<1>4. \A l \in T : ~(l < k)
      BY <1>3 DEF OpToRel
<1>5. \A i \in S : n - k >= i
  <2> TAKE i \in S
  <2>1. i \in 1..n /\ k \in Nat
        OBVIOUS
  <2>2. n - i \in T
    <3>1. n - i \in Nat /\ n - (n - i) = i
          BY <2>1
    <3> QED BY <3>1
  <2>3. ~(n - i < k)
        BY <1>4, <2>2
  <2> QED BY <2>1, <2>3
<1>6. n - k \in S
      OBVIOUS
<1> QED BY <1>5, <1>6 DEF Max

(* Dropping bytes twice is dropping bytes.                                 *)
LEMMA DropsTwice ==
  ASSUME NEW S, NEW s \in Seq(S), NEW t, NEW u, DropsFront(s, t), DropsFront(t, u)
  PROVE  DropsFront(s, u)
<1>1. PICK m \in 0..Len(s) : t = SubSeq(s, m + 1, Len(s))
      BY DEF DropsFront
<1>2. PICK n \in 0..Len(t) : u = SubSeq(t, n + 1, Len(t))
      BY DEF DropsFront
<1>3. /\ t \in Seq(S) /\ Len(t) = Len(s) - m
      /\ \A i \in 1..Len(s) - m : t[i] = s[m + i]
      BY <1>1
<1>4. /\ u \in Seq(S) /\ Len(u) = (Len(s) - m) - n
      /\ \A i \in 1..(Len(s) - m) - n : u[i] = t[n + i]
      BY <1>2, <1>3
<1> DEFINE v == SubSeq(s, (m + n) + 1, Len(s))
<1>5. m + n \in 0..Len(s)
      BY <1>2, <1>3
<1>6. /\ v \in Seq(S) /\ Len(v) = Len(s) - (m + n)
      /\ \A i \in 1..Len(s) - (m + n) : v[i] = s[(m + n) + i]
      BY <1>5
<1> HIDE DEF v
<1>7. \A i \in 1..Len(u) : u[i] = v[i]
  <2> TAKE i \in 1..Len(u)
  <2>1. u[i] = t[n + i] /\ n + i \in 1..Len(s) - m
        BY <1>2, <1>3, <1>4
  <2>2. t[n + i] = s[m + (n + i)] /\ m + (n + i) = (m + n) + i
        BY <1>2, <1>3, <2>1
  <2>3. v[i] = s[(m + n) + i]
        BY <1>2, <1>3, <1>4, <1>6
  <2> QED BY <2>1, <2>2, <2>3
<1>8. u = v
  <2>1. Len(u) = Len(v)
        BY <1>2, <1>3, <1>4, <1>6
  <2> QED BY <1>4, <1>6, <1>7, <2>1, SeqEqual
<1> QED BY <1>5, <1>8 DEF DropsFront, v

(* retrieve in these words.                                                *)
LEMMA RetrieveDropsFront ==
  ASSUME NEW S, NEW b \in Buffers(S), NEW n \in Nat
  PROVE  retrieve(b, n) \in Buffers(S) /\ DropsFront(Readable(b), Readable(retrieve(b, n)))
BY RetrieveDrops DEF DropsFront

(* Messages are made of bytes.                                             *)
LEMMA WireBytes ==
  ASSUME TypeOK, NEW m \in 1..Len(script)
  PROVE  Wire(m) \in Seq(Bytes)
<1>1. script \in Seq(Messages) /\ DOMAIN script = 1..Len(script)
      BY InputAssumption DEF TypeOK
<1>2. script[m] \in Messages
      BY <1>1
<1>3. Pieces(script[m]) \in Seq(Kinds)
  <2>1. CASE script[m].method = "packet"
    <3>1. script[m].size \in Nat
          BY <1>2 DEF Messages
    <3>2. [i \in 1..script[m].size |-> "payload"] \in Seq(Kinds)
          BY <3>1 DEF Kinds
    <3>3. <<"$", "channel", "hi", "lo">> \in Seq(Kinds)
          BY DEF Kinds
    <3> QED BY <2>1, <3>2, <3>3, ConcatProperties DEF Pieces
  <2>2. CASE script[m].method # "packet"
    <3>1. /\ <<"line", "CRLF", "CSeq", "CRLF">> \in Seq(Kinds)
          /\ <<"field", "CRLF">> \in Seq(Kinds) /\ << >> \in Seq(Kinds)
          /\ <<"CRLF">> \in Seq(Kinds)
          BY DEF Kinds
    <3> QED BY <2>2, <3>1, ConcatProperties DEF Pieces
  <2> QED BY <2>1, <2>2
<1> DEFINE p == Pieces(script[m])
<1>4. \A i \in 1..Len(p) : [kind |-> p[i], msg |-> m] \in Bytes
      BY <1>1, <1>3 DEF Bytes
<1>5. Wire(m) = [i \in 1..Len(p) |-> [kind |-> p[i], msg |-> m]] /\ Len(p) \in Nat
      BY <1>3 DEF Wire
<1> QED BY <1>4, <1>5

(* Behind a first line there is a last line end, and fields before it.     *)
LEMMA FieldsHaveLength ==
  ASSUME NEW S, NEW s \in Seq(S), LineParses(s)
  PROVE  Len(Fields(s)) \in Nat
<1>1. LineEnds(s) \subseteq 1..Len(s) /\ 2 \in LineEnds(s)
      BY DEF LineEnds, LineParses
<1>2. Max(LineEnds(s)) \in 1..Len(s)
      BY <1>1, LastPosition
<1>3. SubSeq(s, 3, Max(LineEnds(s))) \in Seq(S)
      BY <1>2
<1>4. << >> \in Seq(S)
      OBVIOUS
<1> QED BY <1>3, <1>4 DEF Fields

-----------------------------------------------------------------------------
(* Buffer and pipe hold bytes of the client's messages, and Junk.          *)
LEMMA MemoryTypes ==
  ASSUME TypeOK
  PROVE  /\ mInputBuffer \in Buffers(Memory) /\ Junk \in Memory
         /\ Readable(mInputBuffer) \in Seq(Memory)
         /\ pipe \in Seq(Bytes) /\ pipe \in Seq(Memory)
<1>1. mInputBuffer \in Buffers(Memory) /\ Junk \in Memory /\ pipe \in Seq(Bytes)
      BY DEF TypeOK, Memory
<1>2. Bytes \subseteq Memory
      BY DEF Memory
<1> QED BY <1>1, <1>2, ReadableParts

(* What a step does to the two.                                            *)
Keeps == /\ pipe' \in Seq(Bytes)
         /\ mInputBuffer' \in Buffers(Memory)
         /\ DropsFront(Readable(mInputBuffer) \o Received, Readable(mInputBuffer'))

(* Without a read, what is readable after a step is a rest of what was.    *)
LEMMA NoReceive ==
  ASSUME TypeOK, pipe' = pipe \/ (\E w \in Seq(Bytes) : pipe' = pipe \o w),
         mInputBuffer' \in Buffers(Memory),
         DropsFront(Readable(mInputBuffer), Readable(mInputBuffer'))
  PROVE  Keeps
<1>1. pipe \in Seq(Bytes) /\ Readable(mInputBuffer) \in Seq(Memory)
      BY MemoryTypes
<1>2. pipe' \in Seq(Bytes) /\ ~(Len(pipe') < Len(pipe))
  <2>1. CASE pipe' = pipe
        BY <1>1, <2>1
  <2>2. CASE \E w \in Seq(Bytes) : pipe' = pipe \o w
    <3> PICK w \in Seq(Bytes) : pipe' = pipe \o w
        BY <2>2
    <3> QED BY <1>1, ConcatProperties, LenProperties
  <2> QED BY <2>1, <2>2
<1>3. Readable(mInputBuffer) \o Received = Readable(mInputBuffer)
      BY <1>1, <1>2, ConcatEmptySeq DEF Received
<1> QED BY <1>2, <1>3 DEF Keeps

(* Nothing is dropped where the buffer stays as it is.                     *)
LEMMA DropsNothing ==
  ASSUME NEW S, NEW s \in Seq(S)
  PROVE  DropsFront(s, s)
<1>1. 0 \in 0..Len(s) /\ s = SubSeq(s, 0 + 1, Len(s))
      BY SubSeqFull, LenProperties
<1> QED BY <1>1 DEF DropsFront

LEMMA ReadStep == TypeOK /\ HandleRead => Keeps
<1> SUFFICES ASSUME TypeOK, HandleRead PROVE Keeps
    OBVIOUS
<1>1. /\ mInputBuffer \in Buffers(Memory) /\ Junk \in Memory
      /\ pipe \in Seq(Bytes) /\ pipe \in Seq(Memory)
      BY MemoryTypes
<1>2. PICK n \in 1..Len(pipe) :
        /\ mInputBuffer' = read(mInputBuffer, SubSeq(pipe, 1, n))
        /\ pipe' = SubSeq(pipe, n + 1, Len(pipe))
      BY DEF HandleRead
<1> DEFINE d == SubSeq(pipe, 1, n)
<1>3. d \in Seq(Memory)
      BY <1>1
<1>4. pipe' \in Seq(Bytes) /\ Len(pipe') = Len(pipe) - n /\ Len(pipe) \in Nat
      BY <1>1, <1>2
<1>5. Received = d
  <2>1. Len(pipe') < Len(pipe) /\ Len(pipe) - Len(pipe') = n
        BY <1>4
  <2> QED BY <2>1 DEF Received
<1>6. /\ mInputBuffer' \in Buffers(Memory)
      /\ Readable(mInputBuffer') = Readable(mInputBuffer) \o d
      BY <1>1, <1>2, <1>3, ReadAppends
<1>7. Readable(mInputBuffer)' \in Seq(Memory)
      BY <1>6, ReadableParts
<1>8. DropsFront(Readable(mInputBuffer'), Readable(mInputBuffer'))
      BY <1>7, DropsNothing
<1> QED BY <1>4, <1>5, <1>6, <1>8 DEF Keeps

LEMMA PacketStep == TypeOK /\ HandlePacket => Keeps
<1> SUFFICES ASSUME TypeOK, HandlePacket PROVE Keeps
    OBVIOUS
<1> DEFINE first == PeekAt(mInputBuffer, 0)
           n == 4 + script[first.msg].size
<1>1. /\ mInputBuffer \in Buffers(Memory) /\ Junk \in Memory
      BY MemoryTypes
<1>2. first \in Memory
  <2>1. /\ mInputBuffer.mBuffer \in Seq(Memory) /\ mInputBuffer.mReadIndex \in Nat
        BY <1>1, BufferParts
  <2> QED BY <1>1, <2>1 DEF PeekAt
<1>3. first \in Bytes
  <2>1. first.kind = "$"
        BY DEF HandlePacket, PacketIsThere
  <2>2. first # Junk
        BY <2>1, InputAssumption
  <2> QED BY <1>2, <2>2 DEF Memory
<1>4. n \in Nat
  <2>1. first.msg \in DOMAIN script
        BY <1>3 DEF Bytes
  <2>2. script[first.msg] \in Messages
        BY <2>1, InputAssumption DEF TypeOK
  <2> QED BY <2>2 DEF Messages
<1>5. mInputBuffer' = retrieve(mInputBuffer, n) /\ pipe' = pipe
      BY DEF HandlePacket, client
<1> HIDE DEF n
<1> QED BY <1>1, <1>4, <1>5, RetrieveDropsFront, NoReceive

LEMMA RequestStep == TypeOK /\ HandleRequest => Keeps
<1> SUFFICES ASSUME TypeOK, HandleRequest PROVE Keeps
    OBVIOUS
<1> DEFINE s == Readable(mInputBuffer)
           n == Len(Fields(s))
           b == retrieve(mInputBuffer, 2)
<1>1. mInputBuffer \in Buffers(Memory) /\ s \in Seq(Memory)
      BY MemoryTypes
<1>2. /\ mInputBuffer' = retrieve(b, n) /\ pipe' = pipe /\ LineParses(s)
      BY DEF HandleRequest, Parses, client
<1>3. n \in Nat
      BY <1>1, <1>2, FieldsHaveLength
<1> HIDE DEF s, n, b
<1>4. b \in Buffers(Memory) /\ DropsFront(s, Readable(b))
      BY <1>1, RetrieveDropsFront DEF b, s
<1>5. mInputBuffer' \in Buffers(Memory) /\ DropsFront(Readable(b), Readable(mInputBuffer'))
      BY <1>2, <1>3, <1>4, RetrieveDropsFront
<1>6. DropsFront(s, Readable(mInputBuffer'))
      BY <1>1, <1>4, <1>5, DropsTwice
<1> QED BY <1>2, <1>5, <1>6, NoReceive DEF s

LEMMA KeepsStep == TypeOK /\ [Next]_vars => Keeps
<1> SUFFICES ASSUME TypeOK, [Next]_vars PROVE Keeps
    OBVIOUS
<1>1. /\ mInputBuffer \in Buffers(Memory) /\ Readable(mInputBuffer) \in Seq(Memory)
      BY MemoryTypes
<1>2. ASSUME mInputBuffer' = mInputBuffer,
             pipe' = pipe \/ (\E w \in Seq(Bytes) : pipe' = pipe \o w)
      PROVE  Keeps
      BY <1>1, <1>2, DropsNothing, NoReceive
<1>3. CASE ClientSends
  <2>1. sent + 1 \in 1..Len(script)
        BY <1>3 DEF ClientSends, TypeOK
  <2> QED BY <1>2, <1>3, <2>1, WireBytes DEF ClientSends
<1>4. CASE ClientLeaves \/ WaitForBytes \/ Derail \/ UNCHANGED vars
      BY <1>2, <1>4 DEF ClientLeaves, WaitForBytes, Derail, vars, client
<1>5. CASE HandleDisConnect
  <2>1. mInputBuffer' = retrieveAll(mInputBuffer) /\ pipe' = pipe
        BY <1>5 DEF HandleDisConnect, client
  <2>2. Len(Readable(mInputBuffer)) = readableBytes(mInputBuffer)
        /\ readableBytes(mInputBuffer) \in Nat
        BY <1>1, ReadableParts
  <2>3. retrieveAll(mInputBuffer) = retrieve(mInputBuffer, readableBytes(mInputBuffer))
        BY <2>2 DEF retrieve
  <2> QED BY <1>1, <2>1, <2>2, <2>3, RetrieveDropsFront, NoReceive
<1> QED BY <1>3, <1>4, <1>5, ReadStep, PacketStep, RequestStep DEF Next, HandleReadBytes

-----------------------------------------------------------------------------
(* Types.                                                                  *)
LEMMA Initial == Init => TypeOK
<1> SUFFICES ASSUME Init PROVE TypeOK
    OBVIOUS
<1>1. script \in Seq(Messages) /\ 0 \in 0..Len(script)
      BY InputAssumption, LenProperties DEF Init
<1>2. mInputBuffer \in Buffers(Bytes \cup {Junk})
      BY NewBufferIsEmpty DEF Init
<1>3. pipe \in Seq(Bytes)
      BY DEF Init
<1> QED BY <1>1, <1>2, <1>3 DEF Init, TypeOK

LEMMA TypeStep == TypeOK /\ [Next]_vars => TypeOK'
<1> SUFFICES ASSUME TypeOK, [Next]_vars PROVE TypeOK'
    OBVIOUS
<1>1. pipe' \in Seq(Bytes) /\ mInputBuffer' \in Buffers(Bytes \cup {Junk})
      BY KeepsStep DEF Keeps, Memory
<1>2. script' = script
      BY DEF Next, ClientSends, ClientLeaves, HandleRead, HandleReadBytes, HandlePacket,
             WaitForBytes, Derail, HandleRequest, HandleDisConnect, client, vars
<1>3. sent' \in 0..Len(script)
      BY DEF Next, ClientSends, ClientLeaves, HandleRead, HandleReadBytes, HandlePacket,
             WaitForBytes, Derail, HandleRequest, HandleDisConnect, client, vars, TypeOK
<1>4. /\ mIsRtpOverTcp' \in BOOLEAN /\ apart' \in BOOLEAN
      /\ pc' \in {"idle", "packets", "request", "closed", "derailed"}
  <2>1. CASE HandleRead
        BY <2>1 DEF HandleRead, ReadApart, TypeOK
  <2>2. CASE HandleRequest
        BY <2>2 DEF HandleRequest, TypeOK
  <2>3. CASE ~HandleRead /\ ~HandleRequest
        BY <2>3 DEF Next, ClientSends, ClientLeaves, HandleReadBytes, HandlePacket,
                    WaitForBytes, Derail, HandleDisConnect, client, vars, TypeOK
  <2> QED BY <2>1, <2>2, <2>3
<1>5. Bytes' = Bytes
      BY <1>2 DEF Bytes
<1> QED BY <1>1, <1>2, <1>3, <1>4, <1>5 DEF TypeOK

(* The input buffer is a queue of bytes, for a buffer of any initial size  *)
(* and reads of any length: growing, moving, retrieving and clearing       *)
(* neither lose nor invent a byte in the middle.                           *)
THEOREM InputIsAQueue == Spec => BytesKept
<1>1. TypeOK /\ [Next]_vars =>
        [DropsFront(Readable(mInputBuffer) \o Received, Readable(mInputBuffer'))]_vars
      BY KeepsStep DEF Keeps
<1> QED BY Initial, TypeStep, <1>1, PTL DEF Spec, BytesKept

-----------------------------------------------------------------------------
(* The order of the answers.  What was sent and not yet handled lies in    *)
(* the buffer and behind it in the pipe.                                   *)
Stream == Readable(mInputBuffer) \o pipe

(* The first bytes of messages.                                            *)
Starts(byte) == byte.kind \in {"line", "$"}

(* The CSeq of a request is the next thing behind its first line.          *)
CSeqFollows(s) ==
  \A i \in DOMAIN s :
    s[i].kind = "line" => /\ i + 2 \in DOMAIN s
                          /\ s[i + 2].kind = "CSeq"
                          /\ s[i + 2].msg = s[i].msg

(* Messages begin in the order of their sending.                           *)
InSequence(s) ==
  \A i, j \in DOMAIN s :
    i < j /\ Starts(s[i]) /\ Starts(s[j]) => s[i].msg < s[j].msg

(* No message begins in s before or after what was sent.                   *)
Above(s, n)  == \A i \in DOMAIN s : Starts(s[i]) => n < s[i].msg
UpTo(s, n)   == \A i \in DOMAIN s : Starts(s[i]) => s[i].msg <= n

Answers == [line : Nat, CSeq : Nat]

(* What was handled was sent, and comes before what begins in the stream.  *)
HandledFirst ==
  /\ handled \in Seq(Answers)
  /\ \A k \in DOMAIN handled : /\ handled[k].line <= sent
                               /\ Above(Stream, handled[k].line)

OInv == /\ TypeOK
        /\ CSeqFollows(Stream) /\ InSequence(Stream) /\ UpTo(Stream, sent)
        /\ HandledFirst /\ HandledInOrder

-----------------------------------------------------------------------------
(* Every byte has the number of its message, junk has none.                *)
LEMMA Numbers ==
  ASSUME TypeOK
  PROVE  \A byte \in Memory : byte.msg \in Nat
<1>1. DOMAIN script = 1..Len(script) /\ Len(script) \in Nat
      BY InputAssumption DEF TypeOK
<1>2. Junk.msg = 0
      BY InputAssumption
<1>3. \A byte \in Bytes : byte.msg \in Nat
      BY <1>1 DEF Bytes
<1> QED BY <1>2, <1>3 DEF Memory

(* t is s without its first k elements.                                    *)
Without(s, k, t) == /\ k \in 0..Len(s)
                    /\ Len(t) = Len(s) - k
                    /\ \A i \in 1..Len(t) : t[i] = s[k + i]

(* Dropping from the front of the buffer drops from the front of the       *)
(* stream.                                                                 *)
LEMMA StreamDrops ==
  ASSUME NEW S, NEW r \in Seq(S), NEW p \in Seq(S), NEW t, DropsFront(r, t)
  PROVE  /\ r \o p \in Seq(S) /\ t \o p \in Seq(S)
         /\ Without(r \o p, Len(r) - Len(t), t \o p)
<1>1. PICK k \in 0..Len(r) : t = SubSeq(r, k + 1, Len(r))
      BY DEF DropsFront
<1>2. /\ t \in Seq(S) /\ Len(t) = Len(r) - k
      /\ \A i \in 1..Len(r) - k : t[i] = r[k + i]
      BY <1>1
<1> DEFINE old == r \o p
           new == t \o p
<1>3. /\ old \in Seq(S) /\ Len(old) = Len(r) + Len(p)
      /\ \A i \in 1..Len(r) + Len(p) :
           old[i] = IF i <= Len(r) THEN r[i] ELSE p[i - Len(r)]
      BY ConcatProperties
<1>4. /\ new \in Seq(S) /\ Len(new) = Len(t) + Len(p)
      /\ \A i \in 1..Len(t) + Len(p) :
           new[i] = IF i <= Len(t) THEN t[i] ELSE p[i - Len(t)]
      BY <1>2, ConcatProperties
<1> HIDE DEF old, new
<1>5. Len(r) \in Nat /\ Len(p) \in Nat
      OBVIOUS
<1>6. ASSUME NEW i \in 1..Len(new) PROVE new[i] = old[k + i]
  <2>1. k + i \in 1..Len(r) + Len(p) /\ i \in 1..Len(t) + Len(p)
        BY <1>2, <1>4, <1>5
  <2>2. CASE i <= Len(t)
    <3>1. new[i] = t[i] /\ i \in 1..Len(r) - k
          BY <1>2, <1>4, <1>5, <2>1, <2>2
    <3>2. old[k + i] = r[k + i]
          BY <1>3, <1>5, <2>1, <3>1
    <3> QED BY <1>2, <3>1, <3>2
  <2>3. CASE ~(i <= Len(t))
    <3>1. new[i] = p[i - Len(t)]
          BY <1>4, <2>1, <2>3
    <3>2. ~(k + i <= Len(r)) /\ (k + i) - Len(r) = i - Len(t)
          BY <1>2, <1>5, <2>1, <2>3
    <3>3. old[k + i] = p[(k + i) - Len(r)]
          BY <1>3, <2>1, <3>2
    <3> QED BY <3>1, <3>2, <3>3
  <2> QED BY <2>2, <2>3
<1>7. /\ k \in 0..Len(old) /\ k = Len(r) - Len(t) /\ Len(new) = Len(old) - k
      BY <1>2, <1>3, <1>4, <1>5
<1> QED BY <1>3, <1>4, <1>6, <1>7 DEF old, new, Without

(* A rest of the stream is in order as the stream is.                      *)
LEMMA RestInOrder ==
  ASSUME NEW S, \A byte \in S : byte.msg \in Nat,
         NEW s \in Seq(S), NEW t \in Seq(S), NEW k, Without(s, k, t)
  PROVE  /\ CSeqFollows(s) => CSeqFollows(t)
         /\ InSequence(s) => InSequence(t)
         /\ \A n \in Nat : /\ UpTo(s, n) => UpTo(t, n)
                           /\ Above(s, n) => Above(t, n)
         /\ InSequence(s) /\ k > 0 /\ Starts(s[1]) => Above(t, s[1].msg)
<1>1. /\ DOMAIN s = 1..Len(s) /\ DOMAIN t = 1..Len(t) /\ Len(s) \in Nat
      /\ k \in 0..Len(s) /\ Len(t) = Len(s) - k
      BY DEF Without
<1>2. \A i \in DOMAIN t : k + i \in DOMAIN s /\ t[i] = s[k + i]
      BY <1>1 DEF Without
<1>3. ASSUME CSeqFollows(s) PROVE CSeqFollows(t)
  <2> SUFFICES ASSUME NEW i \in DOMAIN t, t[i].kind = "line"
               PROVE  /\ i + 2 \in DOMAIN t
                      /\ t[i + 2].kind = "CSeq" /\ t[i + 2].msg = t[i].msg
      BY DEF CSeqFollows
  <2>1. /\ (k + i) + 2 \in DOMAIN s
        /\ s[(k + i) + 2].kind = "CSeq" /\ s[(k + i) + 2].msg = s[k + i].msg
        BY <1>2, <1>3 DEF CSeqFollows
  <2>2. i \in 1..Len(t) /\ Len(t) \in Nat /\ k \in Nat
        BY <1>1
  <2>3. (k + i) + 2 \in 1..Len(s)
        BY <1>1, <2>1
  <2>4. (k + i) + 2 = k + (i + 2) /\ i + 2 \in 1..Len(t)
        BY <1>1, <2>2, <2>3
  <2>5. t[i] = s[k + i] /\ t[i + 2] = s[(k + i) + 2]
        BY <1>1, <1>2, <2>2, <2>4
  <2> QED BY <1>1, <2>1, <2>4, <2>5
<1>4. ASSUME InSequence(s) PROVE InSequence(t)
  <2> SUFFICES ASSUME NEW i \in DOMAIN t, NEW j \in DOMAIN t, i < j,
                      Starts(t[i]), Starts(t[j])
               PROVE  t[i].msg < t[j].msg
      BY DEF InSequence
  <2>1. /\ k + i \in DOMAIN s /\ t[i] = s[k + i]
        /\ k + j \in DOMAIN s /\ t[j] = s[k + j]
        BY <1>2
  <2>2. k + i < k + j
        BY <1>1
  <2> QED BY <1>4, <2>1, <2>2 DEF InSequence
<1>5. ASSUME NEW n \in Nat
      PROVE  (UpTo(s, n) => UpTo(t, n)) /\ (Above(s, n) => Above(t, n))
      BY <1>2 DEF UpTo, Above
<1>6. ASSUME InSequence(s), k > 0, Starts(s[1]) PROVE Above(t, s[1].msg)
  <2>1. 1 \in DOMAIN s /\ \A i \in DOMAIN t : 1 < k + i
        BY <1>1, <1>6
  <2> QED BY <1>2, <1>6, <2>1 DEF InSequence, Above
<1> QED BY <1>3, <1>4, <1>5, <1>6

(* A message on the wire begins once, and has its CSeq where it belongs.   *)
LEMMA WireShape ==
  ASSUME TypeOK, NEW m \in 1..Len(script)
  PROVE  /\ Wire(m) \in Seq(Bytes)
         /\ CSeqFollows(Wire(m))
         /\ \A i \in DOMAIN Wire(m) : /\ Wire(m)[i].msg = m
                                      /\ Starts(Wire(m)[i]) => i = 1
<1> DEFINE p == Pieces(script[m])
           w == Wire(m)
<1>1. w \in Seq(Bytes)
      BY WireBytes
<1>2. script[m] \in Messages
      BY InputAssumption DEF TypeOK
<1>3. /\ Len(p) \in Nat /\ DOMAIN p = 1..Len(p)
      /\ \A i \in DOMAIN p : p[i] \in {"line", "$"} => i = 1
      /\ \A i \in DOMAIN p : p[i] = "line" => i + 2 \in DOMAIN p /\ p[i + 2] = "CSeq"
  <2>1. CASE script[m].method = "packet"
    <3> DEFINE a == <<"$", "channel", "hi", "lo">>
               b == [i \in 1..script[m].size |-> "payload"]
    <3>1. script[m].size \in Nat
          BY <1>2 DEF Messages
    <3>2. /\ b \in Seq(Kinds) /\ Len(b) = script[m].size
          /\ \A i \in 1..script[m].size : b[i] = "payload"
          BY <3>1 DEF Kinds
    <3>3. /\ a \in Seq(Kinds) /\ Len(a) = 4
          /\ a[1] = "$" /\ a[2] = "channel" /\ a[3] = "hi" /\ a[4] = "lo"
          BY DEF Kinds
    <3>4. p = a \o b
          BY <2>1 DEF Pieces
    <3> HIDE DEF a, b, p
    <3>5. /\ Len(p) = 4 + script[m].size /\ p \in Seq(Kinds)
          /\ \A i \in 1..4 + script[m].size :
               p[i] = IF i <= 4 THEN a[i] ELSE b[i - 4]
      <4>1. /\ a \o b \in Seq(Kinds) /\ Len(a \o b) = Len(a) + Len(b)
            /\ \A i \in 1..Len(a) + Len(b) :
                 (a \o b)[i] = IF i <= Len(a) THEN a[i] ELSE b[i - Len(a)]
            BY <3>2, <3>3, ConcatProperties
      <4> QED BY <3>2, <3>3, <3>4, <4>1
    <3>6. DOMAIN p = 1..4 + script[m].size
          BY <3>1, <3>5
    <3>7. ASSUME NEW i \in DOMAIN p, i # 1 PROVE p[i] \notin {"line", "$"}
      <4>1. CASE i <= 4
        <5>1. i \in {2, 3, 4} /\ p[i] = a[i]
              BY <3>1, <3>5, <3>6, <3>7, <4>1
        <5> QED BY <3>3, <5>1
      <4>2. CASE ~(i <= 4)
        <5>1. i - 4 \in 1..script[m].size /\ p[i] = b[i - 4]
              BY <3>1, <3>5, <3>6, <4>2
        <5> QED BY <3>2, <5>1
      <4> QED BY <4>1, <4>2
    <3>8. p[1] = "$"
          BY <3>1, <3>3, <3>5
    <3> QED BY <3>1, <3>5, <3>6, <3>7, <3>8
  <2>2. CASE script[m].method # "packet"
    <3> DEFINE a == <<"line", "CRLF", "CSeq", "CRLF">>
               b == IF NeedsField(script[m].method) THEN <<"field", "CRLF">> ELSE << >>
               c == <<"CRLF">>
               d == b \o c
    <3>1. p = (a \o b) \o c
          BY <2>2 DEF Pieces
    <3>2. /\ a \in Seq(Kinds) /\ Len(a) = 4
          /\ a[1] = "line" /\ a[2] = "CRLF" /\ a[3] = "CSeq" /\ a[4] = "CRLF"
          BY DEF Kinds
    <3>3. /\ b \in Seq({"field", "CRLF"}) /\ c \in Seq({"field", "CRLF"})
          /\ b \in Seq(Kinds) /\ c \in Seq(Kinds)
      <4>1. /\ <<"field", "CRLF">> \in Seq({"field", "CRLF"})
            /\ << >> \in Seq({"field", "CRLF"})
            /\ <<"CRLF">> \in Seq({"field", "CRLF"})
            OBVIOUS
      <4>2. /\ <<"field", "CRLF">> \in Seq(Kinds) /\ << >> \in Seq(Kinds)
            /\ <<"CRLF">> \in Seq(Kinds)
            BY DEF Kinds
      <4> QED BY <4>1, <4>2
    <3> HIDE DEF a, b, c, p
    <3>4. p = a \o d
      <4>1. (a \o b) \o c = a \o (b \o c)
            BY <3>2, <3>3, ConcatAssociative
      <4> QED BY <3>1, <4>1
    <3>5. d \in Seq({"field", "CRLF"}) /\ d \in Seq(Kinds)
          BY <3>3, ConcatProperties
    <3> HIDE DEF d
    <3>6. Len(d) \in Nat /\ \A i \in 1..Len(d) : d[i] \in {"field", "CRLF"}
          BY <3>5
    <3>7. /\ Len(p) = 4 + Len(d) /\ p \in Seq(Kinds)
          /\ \A i \in 1..4 + Len(d) : p[i] = IF i <= 4 THEN a[i] ELSE d[i - 4]
      <4>1. /\ a \o d \in Seq(Kinds) /\ Len(a \o d) = Len(a) + Len(d)
            /\ \A i \in 1..Len(a) + Len(d) :
                 (a \o d)[i] = IF i <= Len(a) THEN a[i] ELSE d[i - Len(a)]
            BY <3>2, <3>5, ConcatProperties
      <4> QED BY <3>2, <3>4, <4>1
    <3>8. DOMAIN p = 1..4 + Len(d)
          BY <3>6, <3>7
    <3>9. ASSUME NEW i \in DOMAIN p, i # 1 PROVE p[i] \notin {"line", "$"}
      <4>1. CASE i <= 4
        <5>1. i \in {2, 3, 4} /\ p[i] = a[i]
              BY <3>6, <3>7, <3>8, <3>9, <4>1
        <5> QED BY <3>2, <5>1
      <4>2. CASE ~(i <= 4)
        <5>1. i - 4 \in 1..Len(d) /\ p[i] = d[i - 4]
              BY <3>6, <3>7, <3>8, <4>2
        <5>2. d[i - 4] \in {"field", "CRLF"}
              BY <3>6, <5>1
        <5> QED BY <5>1, <5>2
      <4> QED BY <4>1, <4>2
    <3>10. 3 \in DOMAIN p /\ p[3] = "CSeq"
           BY <3>2, <3>6, <3>7, <3>8
    <3> QED BY <3>6, <3>7, <3>8, <3>9, <3>10
  <2> QED BY <2>1, <2>2
<1>4. w = [i \in 1..Len(p) |-> [kind |-> p[i], msg |-> m]]
      BY DEF Wire
<1> HIDE DEF p, w
<1>5. DOMAIN w = DOMAIN p /\ \A i \in DOMAIN w : w[i].kind = p[i] /\ w[i].msg = m
      BY <1>3, <1>4
<1>6. CSeqFollows(w)
      BY <1>3, <1>5 DEF CSeqFollows
<1> QED BY <1>1, <1>3, <1>5, <1>6 DEF Starts, w

(* A further message goes behind what is there.                            *)
LEMMA MoreInOrder ==
  ASSUME NEW S, \A byte \in S : byte.msg \in Nat,
         NEW s \in Seq(S), NEW w \in Seq(S), NEW n \in Nat,
         CSeqFollows(s), InSequence(s), UpTo(s, n), CSeqFollows(w),
         \A i \in DOMAIN w : w[i].msg = n + 1 /\ (Starts(w[i]) => i = 1)
  PROVE  /\ CSeqFollows(s \o w) /\ InSequence(s \o w) /\ UpTo(s \o w, n + 1)
         /\ \A h \in Nat : h <= n /\ Above(s, h) => Above(s \o w, h)
<1> DEFINE t == s \o w
<1>1. /\ t \in Seq(S) /\ Len(t) = Len(s) + Len(w)
      /\ \A i \in 1..Len(s) + Len(w) :
           t[i] = IF i <= Len(s) THEN s[i] ELSE w[i - Len(s)]
      BY ConcatProperties
<1>2. /\ Len(s) \in Nat /\ Len(w) \in Nat
      /\ DOMAIN s = 1..Len(s) /\ DOMAIN w = 1..Len(w)
      OBVIOUS
<1> HIDE DEF t
<1>3. DOMAIN t = 1..Len(s) + Len(w)
      BY <1>1, <1>2
<1>4. \A i \in DOMAIN s : i \in DOMAIN t /\ t[i] = s[i]
      BY <1>1, <1>2, <1>3
<1>5. ASSUME NEW i \in DOMAIN w
      PROVE  Len(s) + i \in DOMAIN t /\ t[Len(s) + i] = w[i]
  <2>1. /\ Len(s) + i \in 1..Len(s) + Len(w) /\ ~(Len(s) + i <= Len(s))
        /\ (Len(s) + i) - Len(s) = i
        BY <1>2
  <2> QED BY <1>1, <1>3, <2>1
<1>6. ASSUME NEW i \in DOMAIN t
      PROVE  i \in DOMAIN s \/ \E j \in DOMAIN w : i = Len(s) + j
  <2>1. CASE i <= Len(s)
        BY <1>2, <1>3, <2>1
  <2>2. CASE ~(i <= Len(s))
    <3>1. i - Len(s) \in DOMAIN w /\ i = Len(s) + (i - Len(s))
          BY <1>2, <1>3, <2>2
    <3> QED BY <3>1
  <2> QED BY <2>1, <2>2
<1>7. CSeqFollows(t)
  <2> SUFFICES ASSUME NEW i \in DOMAIN t, t[i].kind = "line"
               PROVE  /\ i + 2 \in DOMAIN t
                      /\ t[i + 2].kind = "CSeq" /\ t[i + 2].msg = t[i].msg
      BY DEF CSeqFollows
  <2>1. CASE i \in DOMAIN s
    <3>1. i + 2 \in DOMAIN s /\ s[i + 2].kind = "CSeq" /\ s[i + 2].msg = s[i].msg
          BY <1>4, <2>1 DEF CSeqFollows
    <3> QED BY <1>4, <2>1, <3>1
  <2>2. ASSUME NEW j \in DOMAIN w, i = Len(s) + j
        PROVE  /\ i + 2 \in DOMAIN t
               /\ t[i + 2].kind = "CSeq" /\ t[i + 2].msg = t[i].msg
    <3>1. w[j] = t[i]
          BY <1>5, <2>2
    <3>2. j + 2 \in DOMAIN w /\ w[j + 2].kind = "CSeq" /\ w[j + 2].msg = w[j].msg
          BY <3>1 DEF CSeqFollows
    <3>3. Len(s) + (j + 2) = i + 2
          BY <1>2, <2>2
    <3> QED BY <1>5, <3>1, <3>2, <3>3
  <2> QED BY <1>6, <2>1, <2>2
<1>8. ASSUME NEW i \in DOMAIN t, Starts(t[i])
      PROVE  \/ i \in DOMAIN s /\ t[i] = s[i] /\ t[i].msg \in Nat /\ t[i].msg <= n
             \/ i = Len(s) + 1 /\ t[i].msg = n + 1
  <2>1. CASE i \in DOMAIN s
    <3>1. t[i] = s[i] /\ s[i] \in S
          BY <1>4, <2>1
    <3> QED BY <1>8, <2>1, <3>1 DEF UpTo
  <2>2. ASSUME NEW j \in DOMAIN w, i = Len(s) + j
        PROVE  i = Len(s) + 1 /\ t[i].msg = n + 1
    <3>1. t[i] = w[j]
          BY <1>5, <2>2
    <3>2. j = 1
          BY <1>8, <3>1
    <3> QED BY <2>2, <3>1, <3>2
  <2> QED BY <1>6, <2>1, <2>2
<1>9. InSequence(t)
  <2> SUFFICES ASSUME NEW i \in DOMAIN t, NEW j \in DOMAIN t, i < j,
                      Starts(t[i]), Starts(t[j])
               PROVE  t[i].msg < t[j].msg
      BY DEF InSequence
  <2>1. CASE i \in DOMAIN s /\ j \in DOMAIN s
        BY <1>4, <2>1 DEF InSequence
  <2>2. CASE j = Len(s) + 1
    <3>1. i \in DOMAIN s
          BY <1>2, <1>3, <2>2
    <3>2. i # Len(s) + 1
          BY <2>2
    <3>3. t[i].msg \in Nat /\ t[i].msg <= n
          BY <1>8, <3>2
    <3>4. t[j].msg = n + 1
      <4>1. j \notin DOMAIN s
            BY <1>2, <2>2
      <4> QED BY <1>8, <4>1
    <3> QED BY <3>3, <3>4
  <2>3. CASE i = Len(s) + 1 /\ j \in DOMAIN s
        BY <1>2, <2>3
  <2>4. CASE i = Len(s) + 1 /\ j = Len(s) + 1
        BY <2>4
  <2> QED BY <1>8, <2>1, <2>2, <2>3, <2>4
<1>10. UpTo(t, n + 1)
       BY <1>8 DEF UpTo
<1>11. ASSUME NEW h \in Nat, h <= n, Above(s, h) PROVE Above(t, h)
  <2> SUFFICES ASSUME NEW i \in DOMAIN t, Starts(t[i]) PROVE h < t[i].msg
      BY DEF Above
  <2>1. CASE i \in DOMAIN s /\ t[i] = s[i]
        BY <1>11, <2>1 DEF Above
  <2>2. CASE t[i].msg = n + 1
        BY <1>11, <2>2
  <2> QED BY <1>8, <2>1, <2>2
<1> QED BY <1>7, <1>9, <1>10, <1>11 DEF t

-----------------------------------------------------------------------------
(* The steps.                                                              *)
LEMMA OrderInitial == Init => OInv
<1> SUFFICES ASSUME Init PROVE OInv
    OBVIOUS
<1>1. TypeOK
      BY Initial
<1>2. Readable(mInputBuffer) = << >> /\ pipe = << >> /\ handled = << >>
      BY NewBufferIsEmpty DEF Init
<1>3. Stream = << >> /\ DOMAIN Stream = {} /\ DOMAIN handled = {}
      BY <1>2 DEF Stream
<1> QED BY <1>1, <1>2, <1>3
        DEF OInv, CSeqFollows, InSequence, UpTo, HandledFirst, HandledInOrder

(* A step that moves bytes or does nothing with them.                      *)
LEMMA StreamStays ==
  ASSUME OInv, TypeOK', Stream' = Stream, UNCHANGED <<sent, handled>>
  PROVE  OInv'
BY DEF OInv, HandledFirst, HandledInOrder

(* A step that takes bytes away from the front.                            *)
LEMMA StreamShrinks ==
  ASSUME OInv, TypeOK', UNCHANGED <<pipe, sent, handled>>,
         DropsFront(Readable(mInputBuffer), Readable(mInputBuffer'))
  PROVE  OInv'
<1>1. /\ Readable(mInputBuffer) \in Seq(Memory) /\ pipe \in Seq(Memory)
      /\ \A byte \in Memory : byte.msg \in Nat
      BY MemoryTypes, Numbers DEF OInv
<1> DEFINE r == Readable(mInputBuffer)
           u == Readable(mInputBuffer')
           s == r \o pipe
           t == u \o pipe
           k == Len(r) - Len(u)
<1>2. s \in Seq(Memory) /\ t \in Seq(Memory) /\ Without(s, k, t)
  <2>1. r \in Seq(Memory) /\ DropsFront(r, u)
        BY <1>1
  <2> HIDE DEF r, u
  <2> QED BY <1>1, <2>1, StreamDrops
<1>3. Stream = s /\ Stream' = t
      BY DEF Stream
<1> HIDE DEF s, t, k
<1>4. sent \in Nat /\ \A j \in DOMAIN handled : handled[j].line \in Nat
  <2>1. \A j \in DOMAIN handled : handled[j] \in Answers
        BY DEF OInv, HandledFirst
  <2> QED BY <2>1 DEF OInv, TypeOK, Answers
<1>5. CSeqFollows(t) /\ InSequence(t) /\ UpTo(t, sent)
      BY <1>1, <1>2, <1>3, <1>4, RestInOrder DEF OInv
<1>6. \A j \in DOMAIN handled : Above(t, handled[j].line)
      BY <1>1, <1>2, <1>3, <1>4, RestInOrder DEF OInv, HandledFirst
<1> QED BY <1>3, <1>5, <1>6 DEF OInv, HandledFirst, HandledInOrder

(* A step that handles the message that begins at the front.               *)
LEMMA FirstIsHandled ==
  ASSUME OInv, TypeOK', UNCHANGED <<pipe, sent>>,
         NEW m, Readable(mInputBuffer) # << >>,
         Starts(Readable(mInputBuffer)[1]), m = Readable(mInputBuffer)[1].msg,
         handled' = Append(handled, [line |-> m, CSeq |-> m]),
         DropsFront(Readable(mInputBuffer), Readable(mInputBuffer')),
         Len(Readable(mInputBuffer')) < Len(Readable(mInputBuffer))
  PROVE  OInv'
<1> DEFINE r == Readable(mInputBuffer)
           u == Readable(mInputBuffer')
           s == r \o pipe
           t == u \o pipe
           k == Len(r) - Len(u)
<1>1. /\ r \in Seq(Memory) /\ pipe \in Seq(Memory)
      /\ \A byte \in Memory : byte.msg \in Nat
      BY MemoryTypes, Numbers DEF OInv
<1>2. s \in Seq(Memory) /\ t \in Seq(Memory) /\ Without(s, k, t)
  <2>1. r \in Seq(Memory) /\ DropsFront(r, u)
        BY <1>1
  <2> HIDE DEF r, u
  <2> QED BY <1>1, <2>1, StreamDrops
<1>3. Stream = s /\ Stream' = t
      BY DEF Stream
<1>4. 1 \in DOMAIN s /\ s[1] = r[1]
  <2>1. Len(r) \in Nat /\ Len(r) # 0 /\ Len(pipe) \in Nat
        BY <1>1, EmptySeq
  <2>2. /\ Len(s) = Len(r) + Len(pipe) /\ s \in Seq(Memory)
        /\ \A i \in 1..Len(r) + Len(pipe) :
             s[i] = IF i <= Len(r) THEN r[i] ELSE pipe[i - Len(r)]
        BY <1>1, ConcatProperties
  <2> HIDE DEF s, r
  <2>3. 1 \in 1..Len(r) + Len(pipe) /\ 1 <= Len(r)
        BY <2>1
  <2> QED BY <2>2, <2>3
<1>5. k > 0
  <2>1. Len(u) < Len(r)
        OBVIOUS
  <2>2. Len(u) \in Nat
    <3>1. mInputBuffer' \in Buffers(Bytes' \cup {Junk})
          BY DEF TypeOK
    <3>2. u \in Seq(Bytes' \cup {Junk})
          BY <3>1, ReadableParts
    <3> QED BY <3>2, LenProperties
  <2>3. Len(r) \in Nat
        BY <1>1, LenProperties
  <2> HIDE DEF r, u
  <2> QED BY <2>1, <2>2, <2>3
<1>6. Starts(s[1]) /\ m = s[1].msg
      BY <1>4
<1> HIDE DEF r, s, t, k
<1>7. m \in Nat
      BY <1>1, <1>2, <1>4, <1>6
<1>8. m <= sent /\ \A j \in DOMAIN handled : handled[j].line < m
      BY <1>3, <1>4, <1>6 DEF OInv, UpTo, HandledFirst, Above
<1>9. /\ handled \in Seq(Answers) /\ Len(handled) \in Nat
      /\ sent \in Nat /\ \A j \in DOMAIN handled : handled[j].line \in Nat
  <2>1. \A j \in DOMAIN handled : handled[j] \in Answers
        BY DEF OInv, HandledFirst
  <2> QED BY <2>1 DEF OInv, TypeOK, Answers, HandledFirst
<1>10. CSeqFollows(t) /\ InSequence(t) /\ UpTo(t, sent) /\ Above(t, m)
       BY <1>1, <1>2, <1>3, <1>5, <1>6, <1>9, RestInOrder DEF OInv
<1>11. \A j \in DOMAIN handled : Above(t, handled[j].line)
       BY <1>1, <1>2, <1>3, <1>9, RestInOrder DEF OInv, HandledFirst
<1> DEFINE answer == [line |-> m, CSeq |-> m]
<1>12. answer \in Answers /\ answer.line = m /\ answer.CSeq = m
       BY <1>7 DEF Answers
<1> HIDE DEF answer
<1>13. /\ handled' \in Seq(Answers) /\ Len(handled') = Len(handled) + 1
       /\ \A j \in 1..Len(handled) : handled'[j] = handled[j]
       /\ handled'[Len(handled) + 1] = answer
       BY <1>9, <1>12 DEF answer
<1>14. /\ DOMAIN handled = 1..Len(handled)
       /\ DOMAIN handled' = 1..Len(handled) + 1
       BY <1>9, <1>13
<1>15. \A j \in DOMAIN handled' : \/ j \in DOMAIN handled /\ handled'[j] = handled[j]
                                  \/ j = Len(handled) + 1 /\ handled'[j] = answer
       BY <1>9, <1>13, <1>14
<1>16. HandledFirst'
  <2>1. ASSUME NEW j \in DOMAIN handled'
        PROVE  handled'[j].line <= sent /\ Above(t, handled'[j].line)
        BY <1>8, <1>10, <1>11, <1>12, <1>15 DEF OInv, HandledFirst
  <2> QED BY <1>3, <1>13, <2>1 DEF HandledFirst
<1>17. HandledInOrder'
  <2>1. \A j \in DOMAIN handled' : handled'[j].CSeq = handled'[j].line
        BY <1>12, <1>15 DEF OInv, HandledInOrder
  <2>2. ASSUME NEW i \in DOMAIN handled', NEW j \in DOMAIN handled', i < j
        PROVE  handled'[i].line < handled'[j].line
    <3>1. i \in DOMAIN handled /\ handled'[i] = handled[i]
          BY <1>9, <1>13, <1>14, <2>2
    <3>2. CASE j \in DOMAIN handled /\ handled'[j] = handled[j]
          BY <2>2, <3>1, <3>2 DEF OInv, HandledInOrder
    <3>3. CASE handled'[j] = answer
          BY <1>8, <1>12, <3>1, <3>3
    <3> QED BY <1>15, <3>2, <3>3
  <2> QED BY <2>1, <2>2 DEF HandledInOrder
<1> QED BY <1>3, <1>10, <1>16, <1>17 DEF OInv

(* retrieve takes at least one byte where there is one.                    *)
LEMMA RetrieveShrinks ==
  ASSUME NEW S, NEW b \in Buffers(S), NEW n \in Nat, n > 0, readableBytes(b) > 0
  PROVE  readableBytes(retrieve(b, n)) < readableBytes(b)
<1>1. b.mReadIndex \in Nat /\ b.mWriteIndex \in Nat
      BY BufferParts
<1>2. CASE n < readableBytes(b)
  <2>1. /\ retrieve(b, n).mReadIndex = b.mReadIndex + n
        /\ retrieve(b, n).mWriteIndex = b.mWriteIndex
        BY <1>2 DEF retrieve, Buffers
  <2> QED BY <1>1, <2>1 DEF readableBytes
<1>3. CASE ~(n < readableBytes(b))
  <2>1. retrieve(b, n).mReadIndex = 0 /\ retrieve(b, n).mWriteIndex = 0
        BY <1>3 DEF retrieve, retrieveAll, Buffers
  <2> QED BY <1>1, <2>1 DEF readableBytes
<1> QED BY <1>2, <1>3

(* recv moves bytes from the pipe into the buffer.                         *)
LEMMA ReadMoves == TypeOK /\ HandleRead => Stream' = Stream
<1> SUFFICES ASSUME TypeOK, HandleRead PROVE Stream' = Stream
    OBVIOUS
<1>1. /\ mInputBuffer \in Buffers(Memory) /\ Junk \in Memory
      /\ pipe \in Seq(Memory) /\ Readable(mInputBuffer) \in Seq(Memory)
      BY MemoryTypes
<1>2. PICK n \in 1..Len(pipe) :
        /\ mInputBuffer' = read(mInputBuffer, SubSeq(pipe, 1, n))
        /\ pipe' = SubSeq(pipe, n + 1, Len(pipe))
      BY DEF HandleRead
<1> DEFINE d == SubSeq(pipe, 1, n)
           e == SubSeq(pipe, n + 1, Len(pipe))
           r == Readable(mInputBuffer)
<1>3. d \in Seq(Memory) /\ e \in Seq(Memory)
      BY <1>1
<1>4. d \o e = pipe
  <2>1. Len(pipe) \in Nat
        BY <1>1
  <2>2. 1 \in 1..Len(pipe) + 1 /\ n \in 1 - 1..Len(pipe) /\ Len(pipe) \in n..Len(pipe)
        BY <2>1
  <2> QED BY <1>1, <2>2, ConcatAdjacentSubSeq, SubSeqFull
<1>5. Readable(mInputBuffer') = r \o d
      BY <1>1, <1>2, <1>3, ReadAppends
<1>6. pipe' = e
      BY <1>2
<1> HIDE DEF d, e
<1>7. (r \o d) \o e = r \o (d \o e)
  <2>1. r \in Seq(Memory)
        BY <1>1
  <2> HIDE DEF r
  <2> QED BY <1>3, <2>1, ConcatAssociative
<1> QED BY <1>4, <1>5, <1>6, <1>7 DEF Stream

(* The packet at the front is the first of the stream.                     *)
LEMMA PacketInOrder == OInv /\ TypeOK' /\ HandlePacket => OInv'
<1> SUFFICES ASSUME OInv, TypeOK', HandlePacket PROVE OInv'
    OBVIOUS
<1> DEFINE first == PeekAt(mInputBuffer, 0)
           n == 4 + script[first.msg].size
           r == Readable(mInputBuffer)
<1>1. /\ mInputBuffer \in Buffers(Memory) /\ r \in Seq(Memory)
      /\ Len(r) = readableBytes(mInputBuffer)
      BY MemoryTypes, ReadableParts DEF OInv
<1>2. /\ mInputBuffer' = retrieve(mInputBuffer, n)
      /\ UNCHANGED <<pipe, sent, script>>
      /\ handled' = Append(handled, [line |-> first.msg, CSeq |-> first.msg])
      /\ readableBytes(mInputBuffer) >= 4 /\ first.kind = "$"
      BY DEF HandlePacket, PacketIsThere, client
<1>3. first = r[1] /\ r # << >>
  <2>1. /\ mInputBuffer.mReadIndex \in Nat /\ mInputBuffer.mWriteIndex \in Nat
        /\ mInputBuffer.mWriteIndex <= Len(mInputBuffer.mBuffer)
        /\ Len(mInputBuffer.mBuffer) \in Nat
        BY <1>1, BufferParts
  <2>2. 1 \in 1..readableBytes(mInputBuffer) /\ mInputBuffer.mReadIndex + 0 < Len(mInputBuffer.mBuffer)
        BY <1>2, <2>1 DEF readableBytes
  <2>3. r[1] = mInputBuffer.mBuffer[mInputBuffer.mReadIndex + 1]
        BY <1>1, <2>2, ReadableParts
  <2>4. first = mInputBuffer.mBuffer[mInputBuffer.mReadIndex + 1]
        BY <2>1, <2>2 DEF PeekAt
  <2>5. Len(r) # 0
        BY <1>1, <1>2
  <2> QED BY <2>3, <2>4, <2>5, EmptySeq
<1>4. n \in Nat /\ n > 0
  <2>1. first \in Memory
    <3>1. 1 \in 1..Len(r)
          BY <1>1, <1>2
    <3> QED BY <1>1, <1>3, <3>1
  <2>2. first \in Bytes
        BY <1>2, <2>1, InputAssumption DEF Memory
  <2>3. script[first.msg] \in Messages
        BY <2>2, InputAssumption DEF OInv, TypeOK, Bytes
  <2> QED BY <2>3 DEF Messages
<1> HIDE DEF n, first
<1>5. /\ DropsFront(r, Readable(mInputBuffer'))
      /\ mInputBuffer' \in Buffers(Memory)
      BY <1>1, <1>2, <1>4, RetrieveDropsFront
<1>6. readableBytes(mInputBuffer') < readableBytes(mInputBuffer)
      BY <1>1, <1>2, <1>4, RetrieveShrinks
<1>7. Len(Readable(mInputBuffer')) < Len(r)
      BY <1>1, <1>5, <1>6, ReadableParts
<1>8. Starts(r[1])
      BY <1>2, <1>3 DEF Starts
<1> QED BY <1>2, <1>3, <1>5, <1>7, <1>8, FirstIsHandled

(* The request at the front is the first of the stream, and the first CSeq *)
(* behind its line is its own.                                             *)
LEMMA RequestInOrder == OInv /\ TypeOK' /\ HandleRequest => OInv'
<1> SUFFICES ASSUME OInv, TypeOK', HandleRequest PROVE OInv'
    OBVIOUS
<1> DEFINE r == Readable(mInputBuffer)
           f == Fields(r)
           n == Len(f)
           b == retrieve(mInputBuffer, 2)
<1>1. /\ mInputBuffer \in Buffers(Memory) /\ r \in Seq(Memory)
      /\ Len(r) = readableBytes(mInputBuffer)
      /\ pipe \in Seq(Memory)
      BY MemoryTypes, ReadableParts DEF OInv
<1>2. /\ mInputBuffer' = retrieve(b, n) /\ LineParses(r) /\ CSeqsIn(f) # {}
      /\ handled' = Append(handled, [line |-> r[1].msg, CSeq |-> CSeqOf(f)])
      /\ UNCHANGED <<pipe, sent>>
      BY DEF HandleRequest, Parses, FieldsParse, client
<1>3. /\ Len(r) >= 2 /\ r # << >> /\ r[1].kind = "line"
      BY <1>1, <1>2 DEF LineParses
<1>4. n \in Nat
      BY <1>1, <1>2, FieldsHaveLength
<1>5. /\ 3 \in DOMAIN r /\ 1 \in DOMAIN f /\ f[1] = r[3]
      /\ \A i \in DOMAIN f : i \in Nat /\ 1 <= i
  <2>1. LineEnds(r) \subseteq 1..Len(r) /\ 2 \in LineEnds(r)
        BY <1>2 DEF LineEnds, LineParses
  <2>2. Max(LineEnds(r)) \in 1..Len(r)
        BY <1>1, <2>1, LastPosition
  <2>3. f # << >>
        BY <1>2 DEF CSeqsIn
  <2>4. f = SubSeq(r, 3, Max(LineEnds(r)))
        BY <2>3 DEF Fields
  <2> DEFINE last == Max(LineEnds(r))
  <2> HIDE DEF r, f, last
  <2>5. /\ f \in Seq(Memory) /\ Len(r) \in Nat
        /\ f = SubSeq(r, 3, last) /\ last \in 1..Len(r)
        BY <1>1, <2>2, <2>4 DEF last
  <2>6. Len(f) = (IF 3 <= last THEN last - 2 ELSE 0) /\ Len(f) # 0
        BY <1>1, <2>3, <2>5, EmptySeq
  <2>7. 3 <= last /\ DOMAIN f = 1..last - 2 /\ f[1] = r[3]
        BY <1>1, <2>5, <2>6
  <2> QED BY <1>1, <2>5, <2>7
<1>6. CSeqOf(f) = r[1].msg
  <2>1. /\ r[1] = Stream[1] /\ r[3] = Stream[3] /\ 1 \in DOMAIN Stream
    <3>1. Len(r) \in Nat /\ Len(pipe) \in Nat /\ 3 <= Len(r)
          BY <1>1, <1>5
    <3>2. /\ Len(r \o pipe) = Len(r) + Len(pipe) /\ r \o pipe \in Seq(Memory)
          /\ \A i \in 1..Len(r) + Len(pipe) :
               (r \o pipe)[i] = IF i <= Len(r) THEN r[i] ELSE pipe[i - Len(r)]
          BY <1>1, ConcatProperties
    <3>3. Stream = r \o pipe
          BY DEF Stream
    <3> HIDE DEF r
    <3> QED BY <3>1, <3>2, <3>3
  <2>2. r[3].kind = "CSeq" /\ r[3].msg = r[1].msg
        BY <1>3, <2>1 DEF OInv, CSeqFollows
  <2>3. /\ 1 \in CSeqsIn(f) /\ \A i \in CSeqsIn(f) : i \in Nat /\ 1 <= i
        BY <1>5, <2>2 DEF CSeqsIn
  <2>4. Min(CSeqsIn(f)) = 1
        BY <2>3 DEF Min
  <2> HIDE DEF f, r
  <2> QED BY <1>5, <2>2, <2>4 DEF CSeqOf
<1> HIDE DEF n, b, f
<1>7. /\ b \in Buffers(Memory) /\ DropsFront(r, Readable(b))
      /\ readableBytes(b) < readableBytes(mInputBuffer)
      BY <1>1, <1>3, RetrieveDropsFront, RetrieveShrinks DEF b
<1>8. /\ mInputBuffer' \in Buffers(Memory)
      /\ DropsFront(Readable(b), Readable(mInputBuffer'))
      BY <1>2, <1>4, <1>7, RetrieveDropsFront
<1>9. DropsFront(r, Readable(mInputBuffer'))
      BY <1>1, <1>7, <1>8, DropsTwice
<1>10. Len(Readable(mInputBuffer')) < Len(r)
  <2>1. /\ Readable(b) \in Seq(Memory) /\ Len(Readable(b)) = readableBytes(b)
        /\ Len(Readable(b)) < Len(r)
        BY <1>1, <1>7, ReadableParts
  <2>2. PICK k \in 0..Len(Readable(b)) :
          Readable(mInputBuffer') = SubSeq(Readable(b), k + 1, Len(Readable(b)))
        BY <1>8 DEF DropsFront
  <2>3. Len(Readable(mInputBuffer')) = Len(Readable(b)) - k
        BY <2>1, <2>2
  <2>4. Len(r) \in Nat /\ Len(Readable(b)) \in Nat
        BY <1>1, <2>1, LenProperties
  <2> HIDE DEF r
  <2> QED BY <2>1, <2>3, <2>4
<1>11. Starts(r[1])
       BY <1>3 DEF Starts
<1>12. handled' = Append(handled, [line |-> r[1].msg, CSeq |-> r[1].msg])
       BY <1>2, <1>6
<1> QED BY <1>2, <1>3, <1>9, <1>10, <1>11, <1>12, FirstIsHandled

(* A message that the client sends goes behind all others.                 *)
LEMMA SendInOrder == OInv /\ TypeOK' /\ ClientSends => OInv'
<1> SUFFICES ASSUME OInv, TypeOK', ClientSends PROVE OInv'
    OBVIOUS
<1> DEFINE r == Readable(mInputBuffer)
           w == Wire(sent + 1)
<1>1. /\ r \in Seq(Memory) /\ pipe \in Seq(Memory)
      /\ \A byte \in Memory : byte.msg \in Nat
      BY MemoryTypes, Numbers DEF OInv
<1>2. /\ sent' = sent + 1 /\ pipe' = pipe \o w /\ sent \in Nat
      /\ UNCHANGED <<script, mInputBuffer, handled>>
      BY DEF ClientSends, OInv, TypeOK
<1>3. /\ w \in Seq(Bytes) /\ CSeqFollows(w)
      /\ \A i \in DOMAIN w : w[i].msg = sent + 1 /\ (Starts(w[i]) => i = 1)
  <2>1. sent + 1 \in 1..Len(script)
        BY DEF ClientSends, OInv, TypeOK
  <2> QED BY <2>1, WireShape DEF OInv
<1>4. w \in Seq(Memory)
  <2>1. Bytes \subseteq Memory
        BY DEF Memory
  <2> QED BY <1>3, <2>1
<1> HIDE DEF w, r
<1>5. Stream \in Seq(Memory) /\ Stream' = Stream \o w
  <2>1. (r \o pipe) \o w = r \o (pipe \o w)
        BY <1>1, <1>4, ConcatAssociative
  <2> QED BY <1>1, <1>2, <2>1 DEF Stream, r
<1>6. CSeqFollows(Stream) /\ InSequence(Stream) /\ UpTo(Stream, sent)
      BY DEF OInv
<1> DEFINE s == Stream
<1>7. s \in Seq(Memory) /\ Stream' = s \o w
      BY <1>5
<1>8. CSeqFollows(s) /\ InSequence(s) /\ UpTo(s, sent)
      BY <1>6
<1>9. /\ \A k \in DOMAIN handled : /\ handled[k].line \in Nat
                                   /\ handled[k].line <= sent
                                   /\ Above(s, handled[k].line)
  <2>1. \A k \in DOMAIN handled : handled[k] \in Answers
        BY DEF OInv, HandledFirst
  <2> QED BY <2>1 DEF OInv, HandledFirst, Answers
<1> HIDE DEF s
<1>10. /\ CSeqFollows(s \o w) /\ InSequence(s \o w) /\ UpTo(s \o w, sent + 1)
       /\ \A h \in Nat : h <= sent /\ Above(s, h) => Above(s \o w, h)
       BY <1>1, <1>2, <1>3, <1>4, <1>7, <1>8, MoreInOrder
<1>11. HandledFirst'
  <2>1. handled' \in Seq(Answers)
        BY <1>2 DEF OInv, HandledFirst
  <2>2. ASSUME NEW k \in DOMAIN handled
        PROVE  handled[k].line <= sent' /\ Above(s \o w, handled[k].line)
        BY <1>2, <1>9, <1>10
  <2> QED BY <1>2, <1>7, <2>1, <2>2 DEF HandledFirst
<1>12. HandledInOrder'
       BY <1>2 DEF OInv, HandledInOrder
<1> QED BY <1>2, <1>7, <1>10, <1>11, <1>12 DEF OInv

(* Every step keeps the order.                                             *)
LEMMA OrderStep == OInv /\ [Next]_vars => OInv'
<1> SUFFICES ASSUME OInv, [Next]_vars PROVE OInv'
    OBVIOUS
<1>1. TypeOK /\ TypeOK'
      BY TypeStep DEF OInv
<1>2. CASE ClientLeaves \/ WaitForBytes \/ Derail \/ UNCHANGED vars
  <2>1. UNCHANGED <<mInputBuffer, pipe, sent, handled>>
        BY <1>2 DEF ClientLeaves, WaitForBytes, Derail, vars, client
  <2>2. Stream' = Stream
        BY <2>1 DEF Stream
  <2> QED BY <1>1, <2>1, <2>2, StreamStays
<1>3. CASE HandleRead
  <2>1. UNCHANGED <<sent, handled>>
        BY <1>3 DEF HandleRead
  <2> QED BY <1>1, <1>3, <2>1, ReadMoves, StreamStays
<1>4. CASE HandleDisConnect
  <2>1. /\ mInputBuffer' = retrieveAll(mInputBuffer)
        /\ UNCHANGED <<pipe, sent, handled>>
        BY <1>4 DEF HandleDisConnect, client
  <2>2. mInputBuffer \in Buffers(Memory) /\ readableBytes(mInputBuffer) \in Nat
        BY <1>1, MemoryTypes, ReadableParts
  <2>3. retrieveAll(mInputBuffer) = retrieve(mInputBuffer, readableBytes(mInputBuffer))
        BY <2>2 DEF retrieve
  <2>4. DropsFront(Readable(mInputBuffer), Readable(mInputBuffer'))
        BY <2>1, <2>2, <2>3, RetrieveDropsFront
  <2> QED BY <1>1, <2>1, <2>4, StreamShrinks
<1> QED BY <1>1, <1>2, <1>3, <1>4, PacketInOrder, RequestInOrder, SendInOrder
        DEF Next, HandleReadBytes

(* However the bytes are cut, messages are handled at most once and in the *)
(* order of sending, and an answer has the CSeq of the request that it     *)
(* answers; and the variables keep their types.                            *)
THEOREM AnswersInOrder == Spec => []Inv
<1>1. OInv => Inv
      BY DEF OInv, Inv
<1> QED BY OrderInitial, OrderStep, <1>1, PTL DEF Spec
=============================================================================
