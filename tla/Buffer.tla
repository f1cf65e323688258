------------------------------ MODULE Buffer --------------------------------
(***************************************************************************)
(* The class Buffer: a block of memory whose bytes from mReadIndex up to   *)
(* mWriteIndex can be read.  Bytes outside of that range are what earlier  *)
(* operations left there, or Junk where nothing was ever written.  A       *)
(* failing assert is a guard that no operation of the connection violates. *)
(***************************************************************************)
EXTENDS Integers, Sequences

CONSTANTS Junk,        \* what malloc and realloc leave in the memory
          initialSize  \* 1024 in the code

ASSUME BufferAssumption == initialSize \in Nat

(* A buffer of Byte.  mBufferSize is the length of mBuffer.                *)
Buffers(Byte) ==
  {b \in [mBuffer : Seq(Byte), mReadIndex : Nat, mWriteIndex : Nat] :
     b.mReadIndex <= b.mWriteIndex /\ b.mWriteIndex <= Len(b.mBuffer)}

NewBuffer == [mBuffer     |-> [i \in 1..initialSize |-> Junk],
              mReadIndex  |-> 0,
              mWriteIndex |-> 0]

readableBytes(b)    == b.mWriteIndex - b.mReadIndex
writableBytes(b)    == Len(b.mBuffer) - b.mWriteIndex
prependableBytes(b) == b.mReadIndex

(* The readable bytes.                                                     *)
Readable(b) == [i \in 1..readableBytes(b) |-> b.mBuffer[b.mReadIndex + i]]

(* peek()[i]: also what is not readable, or lies outside of the memory.    *)
PeekAt(b, i) == IF b.mReadIndex + i < Len(b.mBuffer)
                  THEN b.mBuffer[b.mReadIndex + i + 1]
                  ELSE Junk

retrieveAll(b) == [b EXCEPT !.mReadIndex = 0, !.mWriteIndex = 0]

(* Mutant of retrieve: the indices do not go back to the front.            *)
RetrieveOnly(b, n) == [b EXCEPT !.mReadIndex = @ + n]

retrieve(b, n) == IF n < readableBytes(b) THEN [b EXCEPT !.mReadIndex = @ + n]
                                          ELSE retrieveAll(b)

(* std::copy of d behind the readable bytes, where it fits.                *)
CopyIn(b, d) ==
  [mBuffer     |-> [i \in DOMAIN b.mBuffer |->
                      IF i > b.mWriteIndex /\ i <= b.mWriteIndex + Len(d)
                        THEN d[i - b.mWriteIndex]
                        ELSE b.mBuffer[i]],
   mReadIndex  |-> b.mReadIndex,
   mWriteIndex |-> b.mWriteIndex + Len(d)]

(* realloc to what is needed now, or the readable bytes move to the front. *)
Grown(b, n) ==
  [mBuffer     |-> [i \in 1..b.mWriteIndex + n |->
                      IF i <= Len(b.mBuffer) THEN b.mBuffer[i] ELSE Junk],
   mReadIndex  |-> b.mReadIndex,
   mWriteIndex |-> b.mWriteIndex]

(* Mutant of Moved: the last of the readable bytes stays where it is.      *)
MovedTooLittle(b) ==
  [mBuffer     |-> [i \in DOMAIN b.mBuffer |->
                      IF i < readableBytes(b) THEN b.mBuffer[b.mReadIndex + i]
                                              ELSE b.mBuffer[i]],
   mReadIndex  |-> 0,
   mWriteIndex |-> readableBytes(b)]

Moved(b) ==
  [mBuffer     |-> [i \in DOMAIN b.mBuffer |->
                      IF i <= readableBytes(b) THEN b.mBuffer[b.mReadIndex + i]
                                               ELSE b.mBuffer[i]],
   mReadIndex  |-> 0,
   mWriteIndex |-> readableBytes(b)]

makeSpace(b, n) == IF writableBytes(b) + prependableBytes(b) < n
                     THEN Grown(b, n)
                     ELSE Moved(b)

append(b, d) == CopyIn(IF writableBytes(b) < Len(d) THEN makeSpace(b, Len(d)) ELSE b, d)

(* What recv delivered: as much as fits is copied, the rest is appended.   *)
read(b, d) ==
  IF Len(d) <= writableBytes(b)
    THEN CopyIn(b, d)
    ELSE append(CopyIn(b, SubSeq(d, 1, writableBytes(b))),
                SubSeq(d, writableBytes(b) + 1, Len(d)))
=============================================================================
