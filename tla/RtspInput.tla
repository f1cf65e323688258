----------------------------- MODULE RtspInput ------------------------------
(***************************************************************************)
(* What a connection makes of the bytes it receives.  A client sends       *)
(* requests and, once a SETUP over TCP was answered, interleaved packets;  *)
(* TCP delivers the bytes in order but in pieces of any size, and one read *)
(* handles what is there: TcpConnection::handleRead and                    *)
(* RtspConnection::handleReadBytes.                                        *)
(*                                                                         *)
(* A byte stands for a piece of text or of a packet that is never looked   *)
(* into: a request is its first line and header fields with the line ends  *)
(* between them, a packet has the four bytes of its frame and its payload. *)
(* A read ends between two of these.  Payload contains no line end, and    *)
(* packets are shorter than 2^15 bytes.  The commands themselves succeed   *)
(* here: RtspSession says what they do.                                    *)
(***************************************************************************)
EXTENDS Buffer, SequencesExt

CONSTANT Scripts  \* what a client may send, in order

Requests == {"OPTIONS", "DESCRIBE", "SETUP", "PLAY", "TEARDOWN"}
Messages == [method : Requests \cup {"packet"}, size : Nat]

(* What a byte of a message may be, and what is none.                      *)
Kinds == {"line", "CRLF", "CSeq", "field", "$", "channel", "hi", "lo", "payload"}

ASSUME InputAssumption == /\ Scripts \subseteq Seq(Messages)
                          /\ Junk = [kind |-> "junk", msg |-> 0]

VARIABLES
  script,        \* the messages of this client
  sent,          \* how many of them were sent
  pipe,          \* bytes on their way
  mInputBuffer,
  mIsRtpOverTcp, \* a SETUP asked for RTP over TCP
  pc,            \* "idle", "packets" (in handleRtpOverTcp), "request" (in
                 \* parseRequest), "closed", or "derailed": behind the bytes
                 \* the code has misread nothing is defined
  handled,       \* messages in the order of their handling, as the numbers
                 \* of the message the line and the CSeq belong to
  apart          \* TRUE while every read was one whole request, or packets

vars == <<script, sent, pipe, mInputBuffer, mIsRtpOverTcp, pc, handled, apart>>
client == <<script, sent, pipe>>

-----------------------------------------------------------------------------
(* Messages on the wire.                                                   *)

NeedsField(method) == method \in {"DESCRIBE", "SETUP", "PLAY"}

Pieces(msg) ==
  IF msg.method = "packet"
    THEN <<"$", "channel", "hi", "lo">> \o [i \in 1..msg.size |-> "payload"]
    ELSE <<"line", "CRLF", "CSeq", "CRLF">>
           \o (IF NeedsField(msg.method) THEN <<"field", "CRLF">> ELSE << >>)
           \o <<"CRLF">>

Wire(m) == LET p == Pieces(script[m])
           IN  [i \in 1..Len(p) |-> [kind |-> p[i], msg |-> m]]

(* The bytes of this client.                                               *)
Bytes == [kind : Kinds, msg : DOMAIN script]

IsRequest(m) == script[m].method \in Requests

(* The first four bytes of a packet: a read that ends before "lo" leaves   *)
(* its size to be read from bytes that have not arrived.                   *)
InFrame(byte) == byte.kind \in {"$", "channel", "hi"}

(* Delivery that keeps d apart: a whole request that finds the buffer      *)
(* empty, or nothing but packets, which may be cut in their payload.       *)
ReadApart(d) ==
  \/ /\ readableBytes(mInputBuffer) = 0
     /\ IsRequest(d[1].msg)
     /\ d = Wire(d[1].msg)
  \/ /\ \A i \in DOMAIN d : ~IsRequest(d[i].msg)
     /\ ~InFrame(Last(d))

-----------------------------------------------------------------------------
Init == /\ script \in Scripts
        /\ sent = 0
        /\ pipe = << >>
        /\ mInputBuffer = NewBuffer
        /\ mIsRtpOverTcp = FALSE
        /\ pc = "idle"
        /\ handled = << >>
        /\ apart = TRUE

ClientSends ==
  /\ pc # "closed"
  /\ sent < Len(script)
  /\ IsRequest(sent + 1) \/ mIsRtpOverTcp
  /\ sent' = sent + 1
  /\ pipe' = pipe \o Wire(sent + 1)
  /\ UNCHANGED <<script, mInputBuffer, mIsRtpOverTcp, pc, handled, apart>>

(* The client closed its end: recv returns 0.                              *)
ClientLeaves ==
  /\ pc = "idle"
  /\ pipe = << >>
  /\ pc' = "closed"
  /\ UNCHANGED <<client, mInputBuffer, mIsRtpOverTcp, handled, apart>>

(* recv takes any number of the bytes that have arrived.                   *)
HandleRead ==
  /\ pc = "idle"
  /\ \E n \in 1..Len(pipe) :
       LET d == SubSeq(pipe, 1, n)
       IN  /\ pipe' = SubSeq(pipe, n + 1, Len(pipe))
           /\ mInputBuffer' = read(mInputBuffer, d)
           /\ apart' = (apart /\ ReadApart(d))
  /\ pc' = IF mIsRtpOverTcp /\ PeekAt(mInputBuffer', 0).kind = "$"
             THEN "packets"
             ELSE "request"
  /\ UNCHANGED <<script, sent, mIsRtpOverTcp, handled>>

(* handleRtpOverTcp.  It goes on behind a packet without looking for '$',  *)
(* so that text is taken for a size, mostly one of more than what is       *)
(* readable.                                                               *)
PacketIsThere ==
  LET first == PeekAt(mInputBuffer, 0)
  IN  /\ readableBytes(mInputBuffer) >= 4
      /\ first.kind = "$"
      /\ readableBytes(mInputBuffer) >= 4 + script[first.msg].size

HandlePacket ==
  /\ pc = "packets"
  /\ PacketIsThere
  /\ LET m == PeekAt(mInputBuffer, 0).msg
     IN  /\ handled' = Append(handled, [line |-> m, CSeq |-> m])
         /\ mInputBuffer' = retrieve(mInputBuffer, 4 + script[m].size)
  /\ UNCHANGED <<client, mIsRtpOverTcp, pc, apart>>

WaitForBytes ==
  /\ pc = "packets"
  /\ ~PacketIsThere
  /\ pc' = "idle"
  /\ UNCHANGED <<client, mInputBuffer, mIsRtpOverTcp, handled, apart>>

(* The high byte of the size has not arrived; what lies there may be 0x80  *)
(* or more, and then the size is negative and less than what is readable.  *)
(* Or text was taken for a size that is readable, and is swallowed with    *)
(* what follows.  The model stops here; the code goes on with indices that *)
(* have gone back, or inside of a message, which nothing here describes.   *)
Derail ==
  /\ pc = "packets"
  /\ \/ /\ readableBytes(mInputBuffer) < 4
        /\ PeekAt(mInputBuffer, 2).kind \in {"lo", "payload", "junk"}
     \/ /\ readableBytes(mInputBuffer) >= 4
        /\ PeekAt(mInputBuffer, 0).kind # "$"
  /\ pc' = "derailed"
  /\ UNCHANGED <<client, mInputBuffer, mIsRtpOverTcp, handled, apart>>

(* parseRequest: what the code finds in the readable bytes.                *)
LineEnds(s) == {i \in DOMAIN s : s[i].kind = "CRLF"}

LineParses(s) == Len(s) >= 2 /\ s[1].kind = "line" /\ s[2].kind = "CRLF"

(* Behind the first line up to the last line end, which may well be the    *)
(* one of another request.                                                 *)
Fields(s) == IF LineEnds(s) = {2} THEN << >> ELSE SubSeq(s, 3, Max(LineEnds(s)))

CSeqsIn(f) == {i \in DOMAIN f : f[i].kind = "CSeq"}

CSeqFromEnd(f) == f[Max(CSeqsIn(f))].msg  \* mutant of CSeqOf
CSeqOf(f)      == f[Min(CSeqsIn(f))].msg

FieldsParse(method, f) ==
  /\ CSeqsIn(f) # {}
  /\ NeedsField(method) =>
       \E i \in DOMAIN f : f[i].kind = "field" /\ script[f[i].msg].method = method

Parses(s) == LineParses(s) /\ FieldsParse(script[s[1].msg].method, Fields(s))

HandleRequest ==
  LET s == Readable(mInputBuffer)
      f == Fields(s)
  IN  /\ pc = "request"
      /\ Parses(s)
      /\ mInputBuffer' = retrieve(retrieve(mInputBuffer, 2), Len(f))
      /\ handled' = Append(handled, [line |-> s[1].msg, CSeq |-> CSeqOf(f)])
      /\ mIsRtpOverTcp' = (mIsRtpOverTcp \/ script[s[1].msg].method = "SETUP")
      /\ pc' = "idle"
      /\ UNCHANGED <<client, apart>>

HandleDisConnect ==
  /\ pc = "request"
  /\ ~Parses(Readable(mInputBuffer))
  /\ mInputBuffer' = retrieveAll(mInputBuffer)
  /\ pc' = "closed"
  /\ UNCHANGED <<client, mIsRtpOverTcp, handled, apart>>

HandleReadBytes == HandlePacket \/ WaitForBytes \/ Derail \/ HandleRequest \/ HandleDisConnect

Next == ClientSends \/ ClientLeaves \/ HandleRead \/ HandleReadBytes

Spec == Init /\ [][Next]_vars

(* The main thread reads what has arrived and handles it.                  *)
FairSpec == Spec /\ WF_vars(HandleRead) /\ WF_vars(HandleReadBytes)

-----------------------------------------------------------------------------
TypeOK == /\ script \in Scripts
          /\ sent \in 0..Len(script)
          /\ pipe \in Seq(Bytes)
          /\ mInputBuffer \in Buffers(Bytes \cup {Junk})
          /\ mIsRtpOverTcp \in BOOLEAN
          /\ pc \in {"idle", "packets", "request", "closed", "derailed"}
          /\ apart \in BOOLEAN

(* However the bytes are cut, each message is handled at most once and in  *)
(* the order of sending, and an answer has the CSeq of the request whose   *)
(* line was read: of requests that arrive together the first one is        *)
(* answered, never a mixture.                                              *)
HandledInOrder == /\ \A i \in DOMAIN handled : handled[i].CSeq = handled[i].line
                  /\ \A i, j \in DOMAIN handled : i < j => handled[i].line < handled[j].line

(* The types, and the order of the answers.                                *)
Inv == TypeOK /\ HandledInOrder

(* The buffer is a queue: whatever read, realloc and the moving of bytes   *)
(* do to the memory, what is readable after a step is what was readable    *)
(* before it and what recv took, less some bytes at the front.             *)
Received  == IF Len(pipe') < Len(pipe) THEN SubSeq(pipe, 1, Len(pipe) - Len(pipe'))
                                       ELSE << >>
DropsFront(s, t) == \E n \in 0..Len(s) : t = SubSeq(s, n + 1, Len(s))
BytesKept ==
  [][DropsFront(Readable(mInputBuffer) \o Received, Readable(mInputBuffer'))]_vars

(* While the network delivers each request whole and apart from what else  *)
(* the client sends, and cuts packets in their payload only, everything    *)
(* that was sent is handled, again and again until the end; in particular  *)
(* the connection is not closed and no stale byte is taken for a size.     *)
IsHandled(m) == \E i \in DOMAIN handled : handled[i].line = m
AllHandled == []<>((\A m \in 1..sent : IsHandled(m)) \/ ~apart)
=============================================================================
