------------------------------ MODULE RtpStream ------------------------------
(***************************************************************************)
(* The video stream, from the bytes of the file to the client's decoder:   *)
(* H264FileMediaSource cuts the file at the start codes, H264FileSink      *)
(* packs a NALU into one RTP packet or into FU-A fragments, and the client *)
(* (RFC 6184, external) puts the NALU together again.                      *)
(*                                                                         *)
(* Frames are read and sent one after the other: FramePipeline shows that  *)
(* the queues between the two keep their order.  The transport is perfect; *)
(* whom the packets go to is the subject of RtspSession.                   *)
(***************************************************************************)
EXTENDS Integers, SequencesExt, FiniteSetsExt

CONSTANTS Streams,  \* the files: sequences of [code |-> bytes, nalu |-> bytes]
          FrameMax, \* FRAME_MAX_SIZE, the size of a frame's buffer
          PktMax,   \* RTP_MAX_PKT_SIZE
          SeqLimit,   \* 2^16, mSeq is a uint16_t
          TimeLimit,  \* 2^32, mTimestamp is a uint32_t
          TimeStep  \* mClockRate / mFps

Code3 == <<0, 0, 1>>
Code4 == <<0, 0, 0, 1>>

Type(byte) == byte % 32             \* & 0x1F
Nri(byte)  == (byte \div 32) % 4    \* & 0x60
IsParameterSet(byte) == Type(byte) \in {7, 8}

(* A NALU as H.264 has them: its first byte has the forbidden bit 0 and a  *)
(* type below those that RTP uses, the last is not 0, and there is no      *)
(* start code in it.                                                       *)
IsNalu(bytes) == /\ bytes # << >>
                 /\ bytes[1] < 128 /\ Type(bytes[1]) \in 1..23
                 /\ bytes[Len(bytes)] # 0
                 /\ \A i \in 1..(Len(bytes) - 2) : SubSeq(bytes, i, i + 2) # Code3

ASSUME StreamAssumption == /\ Streams \subseteq Seq([code : {Code3, Code4}, nalu : Seq(0..255)])
                           /\ \A s \in Streams : \A k \in DOMAIN s : IsNalu(s[k].nalu)
                           /\ FrameMax \in Nat \ {0} /\ PktMax \in Nat \ {0}
                           /\ SeqLimit \in Nat \ {0} /\ TimeLimit \in Nat \ {0}
                           /\ TimeStep \in 1..(TimeLimit - 1)

VARIABLES
  stream,     \* the file
  pos,        \* position of mFile
  temp,       \* what the last fread put into frame->temp
  frame,      \* [mBuf, mSize]: offset and length of the NALU in temp
  pktsSent,   \* packets of the frame sent so far, i of sendFrame's loop
  mSeq, mTimestamp,
  rtp,        \* the packet sent last
  unit,       \* client: the fragments put together so far
  got         \* client: the NALU completed last

vars   == <<stream, pos, temp, frame, pktsSent, mSeq, mTimestamp, rtp, unit, got>>
client == <<rtp, unit, got>>

(* The file's bytes up to the end of the k-th NALU, and all of them.       *)
UpTo(k) == FlattenSeq([j \in 1..k |-> stream[j].code \o stream[j].nalu])
Bytes   == UpTo(Len(stream))

NoFrame == [mBuf |-> 0, mSize |-> 0]
NoPkt   == [seq |-> 0, time |-> 0, payload |-> << >>]

\* memcpy reads on behind the bytes that fread delivered: an older frame's.
Stale      == -1
ByteAt(i)  == IF i \in DOMAIN temp THEN temp[i] ELSE Stale
Nalu       == SubSeq(temp, frame.mBuf + 1, frame.mBuf + frame.mSize)

TypeOK == /\ stream \in Streams
          /\ pos \in 0..Len(Bytes)
          /\ Len(temp) <= FrameMax
          /\ frame.mBuf + frame.mSize <= Len(temp)
          /\ pktsSent \in 0..(frame.mSize \div PktMax)
          /\ mSeq \in 0..(SeqLimit - 1) /\ rtp.seq \in 0..(SeqLimit - 1)
          /\ mTimestamp \in 0..(TimeLimit - 1) /\ rtp.time \in 0..(TimeLimit - 1)
          /\ Len(rtp.payload) <= PktMax + 2

Init == /\ stream \in Streams
        /\ pos = 0
        /\ temp = << >>
        /\ frame = NoFrame
        /\ pktsSent = 0
        /\ mSeq = 0 /\ mTimestamp = 0
        /\ rtp = NoPkt /\ unit = << >> /\ got = << >>

-----------------------------------------------------------------------------
(* H264FileMediaSource.                                                    *)

StartCode3(buf, i) == i + 2 <= Len(buf) /\ SubSeq(buf, i, i + 2) = Code3
StartCode4(buf, i) == i + 3 <= Len(buf) /\ SubSeq(buf, i, i + 3) = Code4

(* findNextStartCode(frame + 3, r - 3): where the next start code may be.  *)
OnlyCode3(buf) ==       \* mutants of NextStartCodes
  {i \in 4..(Len(buf) - 2) : StartCode3(buf, i)}
MissesLast(buf) ==
  {i \in 4..(Len(buf) - 3) : StartCode3(buf, i) \/ StartCode4(buf, i)}
NextStartCodes(buf) ==
  {i \in 4..(Len(buf) - 2) : StartCode3(buf, i) \/ StartCode4(buf, i)}

Fread == SubSeq(Bytes, pos + 1, Min({pos + FrameMax, Len(Bytes)}))
Eof   == pos + FrameMax > Len(Bytes)  \* feof: fread wanted more than there was

(* getFrameFromH264File returns -1 and goes back to the beginning of the   *)
(* file: there is no start code at its position, or no next one and not    *)
(* the end of the file either.                                             *)
ReadFails == \/ ~ StartCode3(Fread, 1) /\ ~ StartCode4(Fread, 1)
             \/ NextStartCodes(Fread) = {} /\ ~ Eof

(* One round of the loop of handleTask: a frame is cut out of the file;    *)
(* an access unit delimiter is dropped.                                    *)
ReadFrame ==
  LET next == NextStartCodes(Fread)
      size == IF next = {} THEN Len(Fread) ELSE Min(next) - 1
      code == IF StartCode3(Fread, 1) THEN 3 ELSE 4 IN
  /\ frame = NoFrame
  /\ temp' = Fread
  /\ IF ReadFails
       THEN pos' = 0 /\ UNCHANGED frame
       ELSE /\ pos' = IF next = {} THEN 0 ELSE pos + size
            /\ frame' = IF Type(Fread[code + 1]) = 9
                          THEN NoFrame
                          ELSE [mBuf |-> code, mSize |-> size - code]
  /\ UNCHANGED <<stream, pktsSent, mSeq, mTimestamp, client>>

-----------------------------------------------------------------------------
(* The client: a FU-A fragment carries type 28 in its first byte, the      *)
(* start and the end bit and the type of the NALU in its second one.       *)

Receive(pkt) ==
  LET payload == pkt.payload
      start == payload[2] \div 128 = 1
      end   == (payload[2] \div 64) % 2 = 1
      lost  == unit = << >> \/ pkt.seq # (rtp.seq + 1) % SeqLimit
      whole == (IF start THEN <<Nri(payload[1]) * 32 + Type(payload[2])>> ELSE unit)
                 \o SubSeq(payload, 3, Len(payload)) IN
  /\ rtp' = pkt
  /\ IF Type(payload[1]) # 28 THEN unit' = << >> /\ got' = payload
     ELSE IF ~ start /\ lost THEN unit' = << >> /\ UNCHANGED got
     ELSE IF end THEN unit' = << >> /\ got' = whole
     ELSE unit' = whole /\ UNCHANGED got

-----------------------------------------------------------------------------
(* H264FileSink::sendFrame.                                                *)

SendRtpPacket(payload) ==
  /\ Receive([seq |-> mSeq, time |-> mTimestamp, payload |-> payload])
  /\ mSeq' = (mSeq + 1) % SeqLimit

NoWrap(byte) == mTimestamp + TimeStep  \* mutant of Advanced

Advanced(byte) == IF IsParameterSet(byte) THEN mTimestamp
                                          ELSE (mTimestamp + TimeStep) % TimeLimit

(* A NALU that fits is one packet.                                         *)
SendSingle ==
  /\ frame # NoFrame
  /\ frame.mSize <= PktMax
  /\ SendRtpPacket(Nalu)
  /\ mTimestamp' = Advanced(Nalu[1])
  /\ frame' = NoFrame
  /\ UNCHANGED <<stream, pos, temp, pktsSent>>

PktNum        == frame.mSize \div PktMax
RemainPktSize == frame.mSize % PktMax

(* The fragment of size bytes that follows the i complete ones.            *)
Fragment(i, size, startBit, endBit) ==
  <<Nri(Nalu[1]) * 32 + 28, startBit + endBit + Type(Nalu[1])>>
    \o [n \in 1..size |-> ByteAt(frame.mBuf + 1 + i * PktMax + n)]

NeverEnds(i) == 0  \* mutant of EndBit
EndBit(i)    == IF i > 0 /\ RemainPktSize = 0 /\ i = PktNum - 1 THEN 64 ELSE 0

(* The complete fragments.                                                 *)
SendFragment ==
  /\ frame.mSize > PktMax
  /\ pktsSent < PktNum
  /\ SendRtpPacket(Fragment(pktsSent, PktMax, IF pktsSent = 0 THEN 128 ELSE 0,
                            EndBit(pktsSent)))
  /\ IF pktsSent + 1 = PktNum /\ RemainPktSize = 0
       THEN /\ frame' = NoFrame /\ pktsSent' = 0
            /\ mTimestamp' = (mTimestamp + TimeStep) % TimeLimit
       ELSE pktsSent' = pktsSent + 1 /\ UNCHANGED <<frame, mTimestamp>>
  /\ UNCHANGED <<stream, pos, temp>>

(* The rest.                                                               *)
SendRemaining ==
  /\ frame.mSize > PktMax
  /\ pktsSent = PktNum
  /\ SendRtpPacket(Fragment(PktNum, RemainPktSize, 0, 64))
  /\ mTimestamp' = (mTimestamp + TimeStep) % TimeLimit
  /\ frame' = NoFrame
  /\ pktsSent' = 0
  /\ UNCHANGED <<stream, pos, temp>>

Next == ReadFrame \/ SendSingle \/ SendFragment \/ SendRemaining

Spec == Init /\ [][Next]_vars

(* The timers and the pool keep the stream going (TimerManager and         *)
(* FramePipeline).                                                         *)
FairSpec == Spec /\ WF_vars(Next)

-----------------------------------------------------------------------------
(* Properties.                                                             *)

(* What is cut out of the file is one of its NALUs, and the reader stands  *)
(* behind it: start codes of both lengths, at the end of the file and at   *)
(* the end of the buffer, are found where they are and nowhere else.       *)
CutsAtNalus ==
  frame # NoFrame =>
    \E k \in DOMAIN stream : /\ Nalu = stream[k].nalu
                             /\ pos = IF k = Len(stream) THEN 0 ELSE Len(UpTo(k))

(* When the last packet of a frame is out the client has its NALU, with at *)
(* most one byte appended: the fragments are counted with the header byte, *)
(* but begin behind it.                                                    *)
NaluReceived ==
  [][frame # NoFrame /\ frame' = NoFrame
       => IsPrefix(Nalu, got') /\ Len(got') <= frame.mSize + 1]_vars

(* A file whose NALUs fit into the buffer, each with the start code that   *)
(* follows it, is sent over and over, down to its last NALU.               *)
Fits(k) == LET len == Len(stream[k].code) + Len(stream[k].nalu) IN
           IF k = Len(stream) THEN len < FrameMax
                              ELSE len + Len(stream[k + 1].code) <= FrameMax
LastIsSent ==
  (\A k \in DOMAIN stream : Fits(k))
    => []<>(pos = 0 /\ (frame # NoFrame \/ Type(Last(stream).nalu[1]) = 9))
=============================================================================
