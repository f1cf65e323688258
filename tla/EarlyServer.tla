----------------------------- MODULE EarlyServer -----------------------------
(***************************************************************************)
(* The three programs of 1_rtsp_server: main_h264 and main_aac stream one  *)
(* file over UDP, main_av streams two over the connection's TCP socket,    *)
(* with a thread for each.  main() accepts one client after the other and  *)
(* runs doClient to its end.                                               *)
(*                                                                         *)
(* A client asks one thing at a time, numbers its requests from 1, and may *)
(* close its socket at any moment.  Of a request the method and the CSeq   *)
(* are kept; a unit is a NALU of the video or a frame of the audio file.   *)
(***************************************************************************)
EXTENDS Integers, SequencesExt, FiniteSetsExt

CONSTANTS Programs,    \* which of "main_h264", "main_aac" and "main_av"
          Clients, NoClient,
          MaxRequests, \* bound of the requests of a client
          Units,       \* units of a media file
          MaxFiles     \* FILEs that may be open at a time (FOPEN_MAX)

ASSUME EarlyAssumption == /\ Programs \subseteq {"main_h264", "main_aac", "main_av"}
                          /\ MaxRequests \in Nat \ {0} /\ MaxFiles \in Nat
                          /\ Units \in Nat \ {0}
                          /\ NoClient \notin Clients

VARIABLES
  program,  \* the program that runs
  backlog,  \* clients in the listen queue
  phase,    \* where doClient is: "accept" stands for main()
  client,   \* the client that is served
  sBuf,     \* the request that the text in sBuf answers
  sockets,  \* how many of serverRtpSockfd and serverRtcpSockfd are open
  udp,      \* number of open UDP sockets
  files,    \* number of open FILEs
  reading,  \* media that a loop, or a thread of main_av, is reading
  sent,     \* [medium]: units read and sent
  asked,    \* [client]: number of requests, the CSeq of the last one
  method,   \* [client]: method of the last request
  pending,  \* clients whose last request has no answer
  reply,    \* [client]: the request that the last answer is for
  gone,     \* clients that closed their sockets
  received, \* [client][medium]: units that arrived
  again     \* history: SETUPs that followed a SETUP of the same connection

vars == <<program, backlog, phase, client, sBuf, sockets, udp, files, reading,
          sent, asked, method, pending, reply, gone, received, again>>
network == <<sockets, udp, again>>
media   == <<files, reading, sent, received>>
asking  == <<asked, method>>

Methods   == {"DESCRIBE", "SETUP", "PLAY", "other"}
Media     == {"video", "audio"}
NoRequest == [method |-> "none", cseq |-> 0]   \* malloc'ed, not written yet
Request(c) == [method |-> method[c], cseq |-> asked[c]]
Requests   == [method : Methods, cseq : 1..MaxRequests] \cup {NoRequest}

TypeOK == /\ program \in Programs
          /\ backlog \in Seq(Clients)
          /\ phase \in {"accept", "recv", "play", "close"}
          /\ client \in Clients \cup {NoClient}
          /\ (client = NoClient) = (phase = "accept")
          /\ sBuf \in Requests
          /\ sockets \in 0..2 /\ udp \in Nat /\ again \in Nat
          /\ files \in 0..MaxFiles
          /\ reading \subseteq Media
          /\ sent \in [Media -> 0..Units]
          /\ asked \in [Clients -> 0..MaxRequests]
          /\ method \in [Clients -> Methods \cup {"none"}]
          /\ pending \subseteq Clients /\ gone \subseteq Clients
          /\ reply \in [Clients -> Requests]
          /\ received \in [Clients -> [Media -> 0..Units]]

Init == /\ program \in Programs
        /\ backlog = << >>
        /\ phase = "accept" /\ client = NoClient
        /\ sBuf = NoRequest
        /\ sockets = 0 /\ udp = 0 /\ again = 0
        /\ files = 0 /\ reading = {} /\ sent = [m \in Media |-> 0]
        /\ asked = [c \in Clients |-> 0]
        /\ method = [c \in Clients |-> "none"]
        /\ pending = {} /\ gone = {}
        /\ reply = [c \in Clients |-> NoRequest]
        /\ received = [c \in Clients |-> [m \in Media |-> 0]]

-----------------------------------------------------------------------------
(* Clients.  The first request is sent as soon as the connection stands,   *)
(* which is before the server accepts it.                                  *)

Connect(c) ==
  /\ asked[c] = 0 /\ c \notin gone
  /\ backlog' = Append(backlog, c)
  /\ \E m \in Methods : method' = [method EXCEPT ![c] = m]
  /\ asked' = [asked EXCEPT ![c] = 1]
  /\ pending' = pending \cup {c}
  /\ UNCHANGED <<program, phase, client, sBuf, network, media, reply, gone>>

Ask(c) ==
  /\ phase = "recv" /\ client = c   \* nothing is read after a PLAY
  /\ c \notin pending \cup gone
  /\ asked[c] < MaxRequests
  /\ \E m \in Methods : method' = [method EXCEPT ![c] = m]
  /\ asked' = [asked EXCEPT ![c] = @ + 1]
  /\ pending' = pending \cup {c}
  /\ UNCHANGED <<program, backlog, phase, client, sBuf, network, media, reply, gone>>

Leave(c) ==
  /\ asked[c] > 0 /\ c \notin gone
  /\ gone' = gone \cup {c}
  /\ UNCHANGED <<program, backlog, phase, client, sBuf, network, media, asking,
                 pending, reply>>

-----------------------------------------------------------------------------
(* main() and the requests of doClient.                                    *)

Accept ==
  /\ phase = "accept"
  /\ backlog # << >>
  /\ client' = Head(backlog)
  /\ backlog' = Tail(backlog)
  /\ sBuf' = NoRequest
  /\ phase' = "recv"
  /\ UNCHANGED <<program, network, media, asking, pending, reply, gone>>

(* recv returned a request; the loop ends if there is none to come.        *)
Recv(m) == phase = "recv" /\ client \in pending /\ method[client] = m

RecvFails ==
  /\ phase = "recv"
  /\ client \in gone \ pending
  /\ phase' = "close"
  /\ UNCHANGED <<program, backlog, client, sBuf, network, media, asking,
                 pending, reply, gone>>

(* What is in sBuf is sent, whatever it is.                                *)
Send(buf) == /\ sBuf' = buf
             /\ reply' = [reply EXCEPT ![client] = buf]
             /\ pending' = pending \ {client}

(* DESCRIBE stands for OPTIONS, too.                                       *)
Describe ==
  /\ Recv("DESCRIBE")
  /\ Send(Request(client))
  /\ UNCHANGED <<program, backlog, phase, client, network, media, asking, gone>>

(* handleCmd_SETUP of rtsp_h264 and rtsp_aac; doClient then opens two      *)
(* sockets, over those of an earlier SETUP if there was one.               *)
SetupReply(c) == Request(c)

OpenSockets(n) == /\ sockets' = n
                  /\ udp' = udp + n
                  /\ again' = IF sockets = 0 THEN again ELSE again + 1

SetupUdp ==
  /\ program \in {"main_h264", "main_aac"}
  /\ Recv("SETUP")
  /\ Send(SetupReply(client))
  /\ OpenSockets(2)
  /\ UNCHANGED <<program, backlog, phase, client, media, asking, gone>>

(* A socket could not be opened or bound; those that were opened are       *)
(* closed with the connection.                                             *)
SetupFails ==
  /\ program \in {"main_h264", "main_aac"}
  /\ Recv("SETUP")
  /\ sBuf' = SetupReply(client)
  /\ \E n \in 0..2 : OpenSockets(n)
  /\ phase' = "close"
  /\ UNCHANGED <<program, backlog, client, media, asking, pending, reply, gone>>

(* handleCmd_SETUP of rtsp_av tells the tracks apart by the CSeq and       *)
(* writes nothing for any other.                                           *)
SetupTcp ==
  /\ program = "main_av"
  /\ Recv("SETUP")
  /\ Send(IF asked[client] \in {3, 4} THEN Request(client) ELSE sBuf)
  /\ UNCHANGED <<program, backlog, phase, client, network, media, asking, gone>>

Unknown ==
  /\ Recv("other")
  /\ phase' = "close"
  /\ UNCHANGED <<program, backlog, client, sBuf, network, media, asking,
                 pending, reply, gone>>

-----------------------------------------------------------------------------
(* PLAY: the answer, then the files.  No FILE is ever closed.              *)

Play(tracks) ==
  LET left == MaxFiles - files IN
  /\ Recv("PLAY")
  /\ Send(Request(client))
  /\ \E opened \in SUBSET tracks :
       /\ Cardinality(opened) = IF left < Cardinality(tracks)
                                  THEN left ELSE Cardinality(tracks)
       /\ reading' = opened
       /\ files' = files + Cardinality(opened)
  /\ sent' = [m \in Media |-> 0]
  /\ phase' = "play"
  /\ UNCHANGED <<program, backlog, client, network, received, asking, gone>>

PlayH264 == program = "main_h264" /\ Play({"video"})
PlayAac  == program = "main_aac"  /\ Play({"audio"})
PlayBoth == program = "main_av"   /\ Play(Media)

(* A NALU ends at the next start code: the last one of the file is taken   *)
(* for an error.                                                           *)
OneTooMany(m) == IF m = "video" THEN Units ELSE Units + 1  \* mutant
UnitsOf(m)    == IF m = "video" THEN Units - 1 ELSE Units  \* of this

(* sendto needs the socket of a SETUP, send a client; errors are ignored.  *)
Arrives == client \notin gone /\ (sockets = 2 \/ program = "main_av")

SendUnit(m) ==
  /\ m \in reading
  /\ sent[m] < UnitsOf(m)
  /\ sent' = [sent EXCEPT ![m] = @ + 1]
  /\ received' = IF Arrives THEN [received EXCEPT ![client][m] = @ + 1] ELSE received
  /\ UNCHANGED <<program, backlog, phase, client, sBuf, network, files, reading,
                 asking, pending, reply, gone>>

StartsOver(m)  == reading        \* mutant of StopReading
StopReading(m) == reading \ {m}

EndOfFile(m) ==
  /\ m \in reading
  /\ sent[m] = UnitsOf(m)
  /\ reading' = StopReading(m)
  /\ UNCHANGED <<program, backlog, phase, client, sBuf, network, files, sent,
                 asking, pending, reply, gone, received>>

(* t1.join() and t2.join().                                                *)
FirstJoined == "video" \notin reading  \* mutant of Joined
Joined == reading = {}

EndPlay ==
  /\ phase = "play"
  /\ Joined
  /\ phase' = "close"
  /\ UNCHANGED <<program, backlog, client, sBuf, network, media, asking,
                 pending, reply, gone>>

ClosesOne == Min({sockets, 1})  \* mutant of Closed
Closed    == sockets

CloseClient ==
  /\ phase = "close"
  /\ udp' = udp - Closed
  /\ sockets' = 0
  /\ client' = NoClient
  /\ phase' = "accept"
  /\ UNCHANGED <<program, backlog, sBuf, media, asking, pending, reply, gone, again>>

-----------------------------------------------------------------------------
DoClient == \/ RecvFails \/ Unknown
            \/ Describe \/ SetupUdp \/ SetupFails \/ SetupTcp
            \/ PlayH264 \/ PlayAac \/ PlayBoth
            \/ EndPlay \/ CloseClient
Stream(m) == SendUnit(m) \/ EndOfFile(m)

Next == \/ Accept \/ DoClient
        \/ \E m \in Media : Stream(m)
        \/ \E c \in Clients : Connect(c) \/ Ask(c) \/ Leave(c)

Spec == Init /\ [][Next]_vars

(* The threads run, and no client stays for ever.                          *)
FairSpec == /\ Spec
            /\ WF_vars(Accept \/ DoClient)
            /\ \A m \in Media : WF_vars(Stream(m))
            /\ \A c \in Clients : WF_vars(Leave(c))

-----------------------------------------------------------------------------
(* Properties.                                                             *)

(* Between two clients no UDP socket is open but those that a second SETUP *)
(* of a connection overwrote.                                              *)
NoSocketLeft == phase = "accept" => udp = 2 * again

(* The connection is closed only after the client got every file that was  *)
(* opened: each frame of the audio, and each NALU of the video but the     *)
(* last.                                                                   *)
PlayedInFull ==
  phase = "close" /\ reply[client].method = "PLAY" /\ Arrives =>
    /\ sent["video"] \in {0, Units - 1} /\ sent["audio"] \in {0, Units}
    /\ \A m \in Media : sent[m] = received[client][m]

(* A client that waits is served, although another one is being streamed   *)
(* to: every stream comes to its end.                                      *)
EveryClientServed ==
  \A c \in Clients : c \in Range(backlog) ~> client = c
=============================================================================
