---------------------------- MODULE ProgramProofs ----------------------------
(***************************************************************************)
(* Proofs about the programs that stand alone: EarlyServer, for every set  *)
(* of clients and length of the files; TestTool, for every finite set of   *)
(* threads; and Player, for all files, delays of the decoder and sizes of  *)
(* the event queue, and however often the user presses a key.              *)
(***************************************************************************)
EXTENDS Player, EarlyServer, TestTool, FiniteSetTheorems, TLAPS

-----------------------------------------------------------------------------
(* The early servers.                                                      *)

(* A client that was not played to, and got nothing yet.                   *)
Unplayed(c) == reply[c].method # "PLAY" /\ \A m \in Media : received[c][m] = 0

(* Each client is in the queue once, with its first request.               *)
Waiting == \A i \in DOMAIN backlog :
             /\ backlog[i] # client /\ asked[backlog[i]] > 0 /\ Unplayed(backlog[i])
             /\ \A j \in DOMAIN backlog : backlog[i] = backlog[j] => i = j

(* A client that asked nothing was not served.                             *)
Asking == \A c \in Clients :
            /\ asked[c] > 0 => method[c] \in Methods
            /\ c \in pending => asked[c] > 0
            /\ asked[c] = 0 => Unplayed(c) /\ c # client

(* No PLAY was answered while doClient still reads requests.               *)
Served == phase = "recv" => sBuf.method # "PLAY" /\ Unplayed(client)

(* The sockets that are open are those of doClient and the overwritten     *)
(* ones; a single one is left only by a SETUP that failed, and closed next.*)
SocketsHeld == /\ udp = 2 * again + sockets
               /\ phase # "close" => sockets # 1
               /\ phase = "accept" => sockets = 0

(* From its PLAY until its socket is closed, a client has what was sent.   *)
Playing == phase = "play" \/ (phase = "close" /\ reply[client].method = "PLAY")
Streams ==
  /\ phase # "play" => reading = {}
  /\ Playing => \A m \in Media :
                  /\ sent[m] <= UnitsOf(m)
                  /\ m \notin reading => sent[m] \in {0, UnitsOf(m)}
                  /\ received[client][m] <= sent[m]
                  /\ Arrives => received[client][m] = sent[m]

(* The inductive invariant of the early servers.                           *)
EarlyInv == TypeOK /\ Waiting /\ Asking /\ Served /\ SocketsHeld /\ Streams

-----------------------------------------------------------------------------
(* EarlyInv holds in the beginning.                                        *)
LEMMA EarlyInitial == Init => EarlyInv
<1> SUFFICES ASSUME Init PROVE EarlyInv
    OBVIOUS
<1> USE EarlyAssumption DEF Init
<1>1. TypeOK
      BY DEF TypeOK, Requests, NoRequest
<1>2. DOMAIN backlog = {}
      OBVIOUS
<1>3. \A c \in Clients : Unplayed(c) /\ c # client
      BY DEF Unplayed, NoRequest
<1>4. Waiting /\ Asking
      BY <1>2, <1>3 DEF Waiting, Asking
<1>5. Served /\ SocketsHeld /\ Streams
      BY DEF Served, SocketsHeld, Streams, Playing
<1> QED BY <1>1, <1>4, <1>5 DEF EarlyInv

(* The request that doClient answers.                                      *)
LEMMA RequestIs ==
  ASSUME TypeOK, Asking, NEW m \in Methods, Recv(m)
  PROVE  /\ client \in Clients /\ Request(client) \in Requests
         /\ Request(client).method = m /\ asked[client] > 0
<1>1. client \in Clients /\ method[client] = m /\ client \in pending
      BY DEF Recv, TypeOK
<1>2. asked[client] > 0 /\ asked[client] \in 1..MaxRequests
      BY <1>1, EarlyAssumption DEF Asking, TypeOK
<1> QED BY <1>1, <1>2 DEF Request, Requests

(* Which files a PLAY opens.                                               *)
LEMMA OpensFiles ==
  ASSUME TypeOK, NEW tracks \in SUBSET Media, Play(tracks)
  PROVE  /\ reading' \subseteq tracks /\ files' \in 0..MaxFiles
<1>1. PICK opened \in SUBSET tracks :
        /\ Cardinality(opened) = IF MaxFiles - files < Cardinality(tracks)
                                   THEN MaxFiles - files ELSE Cardinality(tracks)
        /\ reading' = opened
        /\ files' = files + Cardinality(opened)
      BY DEF Play
<1>2. IsFiniteSet(Media)
  <2>1. Media = ({} \cup {"video"}) \cup {"audio"}
        BY DEF Media
  <2>2. IsFiniteSet({} \cup {"video"})
        BY FS_EmptySet, FS_AddElement
  <2> QED BY <2>1, <2>2, FS_AddElement
<1>3. Cardinality(tracks) \in Nat
      BY <1>2, FS_Subset, FS_CardinalityType
<1> QED BY <1>1, <1>3, EarlyAssumption DEF TypeOK

(* Each of the three PLAYs opens files of the media.                       *)
LEMMA PlayIs ==
  ASSUME TypeOK, PlayH264 \/ PlayAac \/ PlayBoth
  PROVE  \E tracks \in SUBSET Media : Play(tracks)
BY DEF PlayH264, PlayAac, PlayBoth, Media

(* The variables keep their types.                                         *)
LEMMA EarlyTypeStep == EarlyInv /\ [Next]_vars => TypeOK'
<1> SUFFICES ASSUME EarlyInv, [Next]_vars PROVE TypeOK'
    OBVIOUS
<1> USE EarlyAssumption DEF EarlyInv, TypeOK
<1>1. ASSUME NEW c \in Clients, Connect(c) \/ Ask(c) \/ Leave(c) PROVE TypeOK'
  <2>1. CASE Connect(c)
        BY <2>1 DEF Connect, network, media
  <2>2. CASE Ask(c)
        BY <2>2 DEF Ask, network, media
  <2>3. CASE Leave(c)
        BY <2>3 DEF Leave, network, media, asking
  <2> QED BY <1>1, <2>1, <2>2, <2>3
<1>2. CASE Accept
  <2>1. Head(backlog) \in Clients /\ Tail(backlog) \in Seq(Clients)
        BY <1>2 DEF Accept
  <2> QED BY <1>2, <2>1 DEF Accept, network, media, asking, Requests
<1>3. CASE RecvFails \/ Unknown \/ EndPlay
      BY <1>3 DEF RecvFails, Unknown, Recv, EndPlay, network, media, asking
<1>4. CASE Describe \/ SetupUdp \/ SetupTcp
  <2>1. /\ client \in Clients /\ Request(client) \in Requests /\ sBuf \in Requests
        BY <1>4, RequestIs DEF Describe, SetupUdp, SetupTcp, Methods
  <2>2. CASE Describe
        BY <2>1, <2>2 DEF Describe, Recv, Send, network, media, asking
  <2>3. CASE SetupUdp
    <3>1. sockets' = 2 /\ udp' \in Nat /\ again' \in Nat
          BY <2>3 DEF SetupUdp, OpenSockets
    <3> QED BY <2>1, <2>3, <3>1 DEF SetupUdp, Recv, Send, SetupReply, media, asking
  <2>4. CASE SetupTcp
        BY <2>1, <2>4 DEF SetupTcp, Recv, Send, network, media, asking
  <2> QED BY <1>4, <2>2, <2>3, <2>4
<1>5. CASE SetupFails
  <2>1. client \in Clients /\ Request(client) \in Requests
        BY <1>5, RequestIs DEF SetupFails, Methods
  <2>2. sockets' \in 0..2 /\ udp' \in Nat /\ again' \in Nat
        BY <1>5 DEF SetupFails, OpenSockets
  <2> QED BY <1>5, <2>1, <2>2 DEF SetupFails, Recv, SetupReply, media, asking
<1>6. CASE PlayH264 \/ PlayAac \/ PlayBoth
  <2>1. PICK tracks \in SUBSET Media : Play(tracks)
        BY <1>6, PlayIs
  <2>2. client \in Clients /\ Request(client) \in Requests
        BY <2>1, RequestIs DEF Play, Methods
  <2>3. reading' \subseteq Media /\ files' \in 0..MaxFiles
        BY <2>1, OpensFiles
  <2>4. sent' \in [Media -> 0..Units]
        BY <2>1 DEF Play
  <2> QED BY <2>1, <2>2, <2>3, <2>4 DEF Play, Recv, Send, network, asking
<1>7. ASSUME NEW m \in Media, Stream(m) PROVE TypeOK'
  <2>1. UnitsOf(m) \in 0..Units /\ phase = "play" /\ client \in Clients
        BY <1>7 DEF UnitsOf, Stream, SendUnit, EndOfFile, Streams
  <2>2. CASE SendUnit(m)
    <3>1. sent' \in [Media -> 0..Units]
          BY <2>1, <2>2 DEF SendUnit
    <3>2. received[client][m] + 1 \in 0..Units
      <4>1. received[client][m] \in 0..Units /\ sent[m] \in 0..Units
            BY <2>1
      <4>2. received[client][m] <= sent[m] /\ sent[m] < UnitsOf(m)
            BY <2>1, <2>2 DEF SendUnit, Streams, Playing
      <4> QED BY <2>1, <4>1, <4>2
    <3>3. received' \in [Clients -> [Media -> 0..Units]]
      <4>1. [received EXCEPT ![client][m] = @ + 1]
              \in [Clients -> [Media -> 0..Units]]
            BY <2>1, <3>2
      <4> QED BY <2>2, <4>1 DEF SendUnit
    <3> QED BY <2>2, <3>1, <3>3 DEF SendUnit, network, asking
  <2>3. CASE EndOfFile(m)
        BY <2>3 DEF EndOfFile, StopReading, network, asking
  <2> QED BY <1>7, <2>2, <2>3 DEF Stream
<1>8. CASE CloseClient
  <2>1. udp - sockets \in Nat
        BY DEF SocketsHeld
  <2> QED BY <1>8, <2>1 DEF CloseClient, Closed, media, asking
<1>9. CASE UNCHANGED vars
      BY <1>9 DEF vars
<1> QED BY <1>1, <1>2, <1>3, <1>4, <1>5, <1>6, <1>7, <1>8, <1>9 DEF Next, DoClient

(* doClient takes nobody from the queue, answers its own client only, and  *)
(* the media reach a client by the loops of PLAY alone.                    *)
LEMMA DoClientKeeps ==
  ASSUME TypeOK, DoClient
  PROVE  /\ UNCHANGED <<backlog, asked, method, received>>
         /\ pending' \subseteq pending
         /\ client' \in {client, NoClient}
         /\ \A d \in Clients \ {client} : reply'[d] = reply[d]
<1> USE DEF TypeOK, media, asking
<1>1. CASE RecvFails \/ Unknown \/ EndPlay \/ CloseClient
      BY <1>1 DEF RecvFails, Unknown, EndPlay, CloseClient
<1>2. CASE Describe \/ SetupUdp \/ SetupFails \/ SetupTcp
      BY <1>2 DEF Describe, SetupUdp, SetupFails, SetupTcp, Send
<1>3. CASE PlayH264 \/ PlayAac \/ PlayBoth
      BY <1>3 DEF PlayH264, PlayAac, PlayBoth, Play, Send
<1> QED BY <1>1, <1>2, <1>3 DEF DoClient

(* Who waits in the queue is there once, and was not served.               *)
LEMMA WaitingStep == EarlyInv /\ [Next]_vars => Waiting'
<1> SUFFICES ASSUME EarlyInv, [Next]_vars PROVE Waiting'
    OBVIOUS
<1> USE EarlyAssumption DEF EarlyInv, TypeOK
<1>0. Waiting /\ \A i \in DOMAIN backlog : backlog[i] \in Clients
      OBVIOUS
<1>1. ASSUME NEW c \in Clients, Connect(c) PROVE Waiting'
  <2>1. asked[c] = 0 /\ Unplayed(c) /\ c # client
        BY <1>1 DEF Connect, Asking
  <2>2. \A i \in DOMAIN backlog : backlog[i] # c
        BY <2>1 DEF Waiting
  <2>3. /\ DOMAIN backlog' = DOMAIN backlog \cup {Len(backlog) + 1}
        /\ \A i \in DOMAIN backlog : backlog'[i] = backlog[i]
        /\ backlog'[Len(backlog) + 1] = c
    <3>1. backlog' = Append(backlog, c)
          BY <1>1 DEF Connect
    <3> QED BY <3>1
  <2>4. /\ asked' = [asked EXCEPT ![c] = 1]
        /\ UNCHANGED <<client, reply, received>>
        BY <1>1 DEF Connect, media
  <2>5. \A d \in Clients : asked[d] > 0 => asked'[d] > 0
        BY <2>4
  <2>6. \A d \in Clients : Unplayed(d) => Unplayed(d)'
        BY <2>4 DEF Unplayed
  <2>7. asked'[c] > 0 /\ c # client' /\ Unplayed(c)'
        BY <2>1, <2>4, <2>6
  <2> HIDE DEF EarlyInv, TypeOK
  <2> QED BY <1>0, <2>2, <2>3, <2>4, <2>5, <2>6, <2>7 DEF Waiting
<1>2. ASSUME NEW c \in Clients, Ask(c) \/ Leave(c) PROVE Waiting'
  <2>1. UNCHANGED <<backlog, client, reply, received>>
        BY <1>2 DEF Ask, Leave, media
  <2>2. \A d \in Clients : asked[d] > 0 => asked'[d] > 0
    <3>1. asked' = [asked EXCEPT ![c] = asked[c] + 1] \/ asked' = asked
          BY <1>2 DEF Ask, Leave, asking
    <3>2. asked \in [Clients -> 0..MaxRequests] /\ MaxRequests \in Nat
          OBVIOUS
    <3> HIDE DEF EarlyInv, TypeOK
    <3>3. \A d \in Clients : asked[d] \in Nat
          BY <3>2
    <3> QED BY <3>1, <3>2, <3>3
  <2> QED BY <1>0, <2>1, <2>2 DEF Waiting, Unplayed
<1>3. CASE Accept
  <2>1. /\ backlog # << >> /\ client' = backlog[1] /\ backlog' = Tail(backlog)
        /\ UNCHANGED <<asked, reply, received>>
        BY <1>3 DEF Accept, media, asking
  <2>2. /\ 1 \in DOMAIN backlog
        /\ \A i \in DOMAIN backlog' : /\ i + 1 \in DOMAIN backlog /\ i + 1 # 1
                                      /\ backlog'[i] = backlog[i + 1]
        BY <2>1
  <2>3. \A i, j \in DOMAIN backlog' : i + 1 = j + 1 => i = j
        BY <2>1
  <2> HIDE DEF EarlyInv, TypeOK
  <2> QED BY <1>0, <2>1, <2>2, <2>3 DEF Waiting, Unplayed
<1>4. CASE DoClient
      BY <1>0, <1>4, DoClientKeeps DEF Waiting, Unplayed
<1>5. ASSUME NEW m \in Media, Stream(m) PROVE Waiting'
  <2>1. UNCHANGED <<backlog, client, asked, reply>>
        BY <1>5 DEF Stream, SendUnit, EndOfFile, asking
  <2>2. \A d \in Clients \ {client} : received'[d] = received[d]
        BY <1>5 DEF Stream, SendUnit, EndOfFile
  <2> QED BY <1>0, <2>1, <2>2 DEF Waiting, Unplayed
<1>6. CASE UNCHANGED vars
      BY <1>6 DEF vars, Waiting, Unplayed
<1> QED BY <1>1, <1>2, <1>3, <1>4, <1>5, <1>6 DEF Next

(* A client whose requests were read has sent one.                         *)
LEMMA AskingStep == EarlyInv /\ [Next]_vars => Asking'
<1> SUFFICES ASSUME EarlyInv, [Next]_vars PROVE Asking'
    OBVIOUS
<1> USE EarlyAssumption DEF EarlyInv, TypeOK
<1>1. ASSUME NEW c \in Clients, Connect(c) \/ Ask(c) \/ Leave(c) PROVE Asking'
  <2>1. UNCHANGED <<client, reply, received>>
        BY <1>1 DEF Connect, Ask, Leave, media
  <2>2. \A d \in Clients : Unplayed(d)' = Unplayed(d)
        BY <2>1 DEF Unplayed
  <2> QED BY <1>1, <2>1, <2>2 DEF Asking, Connect, Ask, Leave, asking
<1>2. CASE Accept
  <2>1. Head(backlog) = backlog[1] /\ 1 \in DOMAIN backlog
        BY <1>2 DEF Accept
  <2>2. asked[client'] > 0
        BY <1>2, <2>1 DEF Accept, Waiting
  <2> QED BY <1>2, <2>2 DEF Accept, Asking, Unplayed, media, asking
<1>3. CASE DoClient
      BY <1>3, DoClientKeeps DEF Asking, Unplayed
<1>4. ASSUME NEW m \in Media, Stream(m) PROVE Asking'
  <2>1. UNCHANGED <<client, asked, method, pending, reply>>
        BY <1>4 DEF Stream, SendUnit, EndOfFile, asking
  <2>2. \A d \in Clients \ {client} : received'[d] = received[d]
        BY <1>4 DEF Stream, SendUnit, EndOfFile
  <2> QED BY <2>1, <2>2 DEF Asking, Unplayed
<1>5. CASE UNCHANGED vars
      BY <1>5 DEF vars, Asking, Unplayed
<1> QED BY <1>1, <1>2, <1>3, <1>4, <1>5 DEF Next

(* PLAY is the last request that doClient reads.                           *)
LEMMA ServedStep == EarlyInv /\ [Next]_vars => Served'
<1> SUFFICES ASSUME EarlyInv, [Next]_vars PROVE Served'
    OBVIOUS
<1> USE EarlyAssumption DEF EarlyInv, TypeOK
<1>1. ASSUME NEW c \in Clients, Connect(c) \/ Ask(c) \/ Leave(c) PROVE Served'
  <2>1. UNCHANGED <<phase, sBuf, client, reply, received>>
        BY <1>1 DEF Connect, Ask, Leave, media
  <2> QED BY <2>1 DEF Served, Unplayed
<1>2. CASE Accept
  <2>1. Head(backlog) = backlog[1] /\ 1 \in DOMAIN backlog
        BY <1>2 DEF Accept
  <2>2. Unplayed(client') /\ UNCHANGED <<reply, received>>
        BY <1>2, <2>1 DEF Accept, Waiting, media
  <2>3. sBuf'.method # "PLAY"
        BY <1>2 DEF Accept, NoRequest
  <2> QED BY <2>2, <2>3 DEF Served, Unplayed
<1>3. CASE Describe \/ SetupUdp \/ SetupTcp
  <2>1. /\ phase = "recv" /\ phase' = phase /\ client' = client /\ received' = received
        /\ client \in Clients
        BY <1>3 DEF Describe, SetupUdp, SetupTcp, Recv, media
  <2>2. /\ sBuf'.method # "PLAY"
        /\ reply' = [reply EXCEPT ![client] = sBuf']
    <3>1. CASE Describe
          BY <3>1, RequestIs DEF Describe, Send, Methods
    <3>2. CASE SetupUdp
          BY <3>2, RequestIs DEF SetupUdp, SetupReply, Send, Methods
    <3>3. CASE SetupTcp
          BY <2>1, <3>3, RequestIs DEF SetupTcp, Send, Methods, Served
    <3> QED BY <1>3, <3>1, <3>2, <3>3
  <2> QED BY <2>1, <2>2 DEF Served, Unplayed
<1>4. CASE \/ RecvFails \/ Unknown \/ SetupFails \/ PlayH264 \/ PlayAac \/ PlayBoth
           \/ EndPlay \/ CloseClient
      BY <1>4 DEF RecvFails, Unknown, SetupFails, PlayH264, PlayAac, PlayBoth, Play,
         EndPlay, CloseClient, Served
<1>5. ASSUME NEW m \in Media, Stream(m) PROVE Served'
  <2>1. phase = "play" /\ phase' = phase
        BY <1>5 DEF Stream, SendUnit, EndOfFile, Streams
  <2> QED BY <2>1 DEF Served
<1>6. CASE UNCHANGED vars
      BY <1>6 DEF vars, Served, Unplayed
<1> QED BY <1>1, <1>2, <1>3, <1>4, <1>5, <1>6 DEF Next, DoClient

(* Every socket that is opened is held, overwritten or closed.             *)
LEMMA SocketsStep == EarlyInv /\ [Next]_vars => SocketsHeld'
<1> SUFFICES ASSUME EarlyInv, [Next]_vars PROVE SocketsHeld'
    OBVIOUS
<1> USE EarlyAssumption DEF EarlyInv, TypeOK, SocketsHeld
<1>1. ASSUME NEW c \in Clients, Connect(c) \/ Ask(c) \/ Leave(c) PROVE SocketsHeld'
      BY <1>1 DEF Connect, Ask, Leave, network
<1>2. CASE Accept
      BY <1>2 DEF Accept, network
<1>3. CASE SetupUdp
      BY <1>3 DEF SetupUdp, OpenSockets, Recv
<1>4. CASE SetupFails
      BY <1>4 DEF SetupFails, OpenSockets, Recv
<1>5. CASE CloseClient
      BY <1>5 DEF CloseClient, Closed
<1>6. CASE RecvFails \/ Unknown \/ Describe \/ SetupTcp \/ EndPlay
      BY <1>6 DEF RecvFails, Unknown, Describe, SetupTcp, EndPlay, Recv, network
<1>7. CASE PlayH264 \/ PlayAac \/ PlayBoth
      BY <1>7 DEF PlayH264, PlayAac, PlayBoth, Play, Recv, network
<1>8. ASSUME NEW m \in Media, Stream(m) PROVE SocketsHeld'
      BY <1>8 DEF Stream, SendUnit, EndOfFile, network
<1>9. CASE UNCHANGED vars
      BY <1>9 DEF vars
<1> QED BY <1>1, <1>2, <1>3, <1>4, <1>5, <1>6, <1>7, <1>8, <1>9 DEF Next, DoClient

(* What is sent while the client is there arrives.                         *)
LEMMA StreamsStep == EarlyInv /\ [Next]_vars => Streams'
<1> SUFFICES ASSUME EarlyInv, [Next]_vars PROVE Streams'
    OBVIOUS
<1> USE EarlyAssumption DEF EarlyInv, TypeOK
<1>0. \A m \in Media : UnitsOf(m) \in Nat
      BY DEF UnitsOf
<1>1. ASSUME NEW c \in Clients, Connect(c) \/ Ask(c) \/ Leave(c) PROVE Streams'
  <2>1. UNCHANGED <<program, phase, client, sockets, reading, sent, reply, received>>
        BY <1>1 DEF Connect, Ask, Leave, media, network
  <2>2. gone \subseteq gone'
        BY <1>1 DEF Connect, Ask, Leave
  <2> QED BY <2>1, <2>2 DEF Streams, Playing, Arrives, UnitsOf
<1>2. CASE Accept \/ CloseClient
  <2>1. phase' \in {"recv", "accept"} /\ phase # "play" /\ reading' = reading
        BY <1>2 DEF Accept, CloseClient, media
  <2> QED BY <2>1 DEF Streams, Playing
<1>3. CASE RecvFails \/ Unknown
  <2>1. /\ phase = "recv" /\ phase' = "close" /\ client' = client /\ reply' = reply
        /\ reading' = reading
        BY <1>3 DEF RecvFails, Unknown, Recv, media
  <2> QED BY <2>1 DEF Streams, Playing, Served, Unplayed
<1>4. CASE Describe \/ SetupUdp \/ SetupTcp
  <2>1. phase = "recv" /\ phase' = "recv" /\ reading' = reading
        BY <1>4 DEF Describe, SetupUdp, SetupTcp, Recv, media
  <2> QED BY <2>1 DEF Streams, Playing
<1>5. CASE SetupFails
  <2>1. /\ phase = "recv" /\ phase' = "close" /\ client' = client /\ reply' = reply
        /\ reading' = reading
        BY <1>5 DEF SetupFails, Recv, media
  <2> QED BY <2>1 DEF Streams, Playing, Served, Unplayed
<1>6. CASE PlayH264 \/ PlayAac \/ PlayBoth
  <2>1. PICK tracks \in SUBSET Media : Play(tracks)
        BY <1>6, PlayIs
  <2>2. /\ phase = "recv" /\ phase' = "play" /\ client' = client
        /\ received' = received /\ \A m \in Media : sent'[m] = 0
        BY <2>1 DEF Play, Recv
  <2>3. \A m \in Media : received[client][m] = 0
        BY <2>2 DEF Served, Unplayed
  <2> QED BY <1>0, <2>2, <2>3 DEF Streams, UnitsOf
<1>7. ASSUME NEW m \in Media, Stream(m) PROVE Streams'
  <2>1. /\ phase = "play" /\ client \in Clients
        /\ UNCHANGED <<program, phase, client, sockets, reply, gone>>
        BY <1>7 DEF Stream, SendUnit, EndOfFile, Streams, network
  <2>2. Playing /\ Playing' /\ Arrives' = Arrives
        BY <2>1 DEF Playing, Arrives
  <2>3. CASE SendUnit(m)
    <3>1. /\ m \in reading /\ reading' = reading /\ sent[m] < UnitsOf(m)
          /\ sent' = [sent EXCEPT ![m] = @ + 1]
          BY <2>3 DEF SendUnit
    <3>2. \A k \in Media : received[client][k] \in Nat /\ sent[k] \in Nat
          BY <2>1
    <3>3. /\ Arrives => received'[client][m] = received[client][m] + 1
          /\ ~Arrives => received'[client][m] = received[client][m]
          /\ \A k \in Media \ {m} : received'[client][k] = received[client][k]
          BY <2>1, <2>3 DEF SendUnit
    <3>4. ASSUME NEW k \in Media
          PROVE  /\ sent'[k] <= UnitsOf(k)
                 /\ k \notin reading' => sent'[k] \in {0, UnitsOf(k)}
                 /\ received'[client][k] <= sent'[k]
                 /\ Arrives => received'[client][k] = sent'[k]
      <4>1. CASE k = m
            BY <1>0, <2>2, <3>1, <3>2, <3>3, <4>1 DEF Streams
      <4>2. CASE k # m
            BY <2>2, <3>1, <3>3, <4>2 DEF Streams
      <4> QED BY <4>1, <4>2
    <3> QED BY <2>1, <2>2, <3>4 DEF Streams, UnitsOf
  <2>4. CASE EndOfFile(m)
    <3>1. /\ sent[m] = UnitsOf(m) /\ reading' = reading \ {m}
          /\ UNCHANGED <<sent, received>>
          BY <2>4 DEF EndOfFile, StopReading
    <3> QED BY <2>1, <2>2, <3>1 DEF Streams, UnitsOf
  <2> QED BY <1>7, <2>3, <2>4 DEF Stream
<1>8. CASE EndPlay
  <2>1. /\ phase = "play" /\ reading = {} /\ phase' = "close"
        /\ UNCHANGED <<program, client, sockets, reading, sent, reply, gone, received>>
        BY <1>8 DEF EndPlay, Joined, media, network
  <2> QED BY <2>1 DEF Streams, Playing, Arrives, UnitsOf
<1>9. CASE UNCHANGED vars
      BY <1>9 DEF vars, Streams, Playing, Arrives, UnitsOf
<1> QED BY <1>1, <1>2, <1>3, <1>4, <1>5, <1>6, <1>7, <1>8, <1>9 DEF Next, DoClient

-----------------------------------------------------------------------------
(* EarlyInv is inductive.                                                  *)
LEMMA EarlyInvariance == Spec => []EarlyInv
<1>1. EarlyInv /\ [Next]_vars => EarlyInv'
      BY EarlyTypeStep, WaitingStep, AskingStep, ServedStep, SocketsStep, StreamsStep
         DEF EarlyInv
<1> QED BY EarlyInitial, <1>1, PTL DEF Spec

(* The variables of the early servers keep their types: no counter of      *)
(* sockets or files leaves its range, and no client gets more than a file. *)
THEOREM TypeCorrect == Spec => []TypeOK
<1>1. EarlyInv => TypeOK
      BY DEF EarlyInv
<1> QED BY EarlyInvariance, <1>1, PTL

(* However a connection ends, doClient has closed the sockets of its last  *)
(* SETUP: what stays open is what a second SETUP wrote over.               *)
THEOREM SocketsClosed == Spec => []NoSocketLeft
<1>1. EarlyInv => NoSocketLeft
      BY DEF EarlyInv, TypeOK, SocketsHeld, NoSocketLeft
<1> QED BY EarlyInvariance, <1>1, PTL

(* When doClient closes the connection after a PLAY, a client that is      *)
(* still there got all that was read of each file that could be opened.    *)
THEOREM WholeFileArrives == Spec => []PlayedInFull
<1>1. EarlyInv => PlayedInFull
  <2> SUFFICES ASSUME EarlyInv, phase = "close", reply[client].method = "PLAY", Arrives
               PROVE  /\ sent["video"] \in {0, Units - 1} /\ sent["audio"] \in {0, Units}
                      /\ \A m \in Media : sent[m] = received[client][m]
      BY DEF PlayedInFull
  <2> QED BY DEF EarlyInv, Streams, Playing, UnitsOf, Media
<1> QED BY EarlyInvariance, <1>1, PTL

-----------------------------------------------------------------------------
(* The concurrency test tool.                                              *)

(* Where a thread is between its read of the count and its write.          *)
Counting == {"add", "subtract"}

(* The owner of the mutex is the one client between its read of the count  *)
(* and its write, so what it read is the count still.                      *)
Exclusive == \A c \in Threads : /\ pc[c] \in Counting <=> g_online_mtx = c
                                /\ pc[c] \in Counting => temp[c] = g_online_count

(* What a client holds at each place of handleThread.                      *)
Holds(c) ==
  /\ pc[c] \in Calls \cup {"read", "unref"} => "context" \in allocated[c]
  /\ pc[c] \in {"codec", "read", "unref"} => "codec" \in allocated[c]
  /\ pc[c] \in {"read", "unref"} <=> "frames" \in allocated[c]
  /\ pc[c] = "unref" <=> "packet" \in allocated[c]
  /\ pc[c] = "done" => allocated[c] \subseteq {"options", "device"}

(* Every thread holds what its place needs.                                *)
Held == \A c \in Threads : Holds(c)

(* The inductive invariant of the tool.                                    *)
ToolInv == ToolTypeOK /\ Exclusive /\ Held /\ OnlineCounted

-----------------------------------------------------------------------------
(* The variables of the tool have their types in the beginning.            *)
LEMMA ToolTypeInitial == ToolInit => ToolTypeOK
BY DEF ToolInit, ToolTypeOK, Locations, Resources

(* No step of the tool leaves them.                                        *)
LEMMA ToolTypeStep == ToolTypeOK /\ [ToolNext]_toolVars => ToolTypeOK'
<1> SUFFICES ASSUME ToolTypeOK, [ToolNext]_toolVars PROVE ToolTypeOK'
    OBVIOUS
<1> USE DEF ToolTypeOK
<1>1. ASSUME NEW c \in Threads, HandleThread(c) PROVE ToolTypeOK'
  <2>1. CASE Online(c)
        BY <2>1 DEF Online, Lock, Unlock, Goto, Locations, process
  <2>2. CASE Offline(c)
        BY <2>2 DEF Offline, Lock, Unlock, Goto, Locations, process
  <2>3. CASE Construct(c)
    <3>1. /\ (IF type = 1 THEN {"context", "options"} ELSE {"context"}) \in SUBSET Resources
          /\ (IF type = 1 THEN "open" ELSE "stop") \in Locations
          BY DEF Resources, Locations, Calls
    <3> QED BY <2>3, <3>1 DEF Construct, Goto, count, process
  <2>4. CASE Call(c)
    <3> PICK ok \in BOOLEAN :
          /\ allocated' = [allocated EXCEPT ![c] = After(pc[c], ok, @)]
          /\ Goto(c, IF ok THEN Following[pc[c]] ELSE "stop")
        BY <2>4 DEF Call
    <3>1. After(pc[c], ok, allocated[c]) \in SUBSET Resources
          BY DEF After, Resources
    <3>2. Following[pc[c]] \in Locations
          BY <2>4 DEF Call, Calls, Following, Locations
    <3>3. "stop" \in Locations
          BY DEF Locations
    <3> QED BY <2>4, <3>1, <3>2, <3>3 DEF Call, Goto, count, process
  <2>5. CASE ReadPacket(c) \/ UnrefPacket(c) \/ EndStream(c) \/ Destroy(c)
        BY <2>5 DEF ReadPacket, UnrefPacket, EndStream, Destroy, Goto, Locations,
                    Resources, count, process
  <2> QED BY <1>1, <2>1, <2>2, <2>3, <2>4, <2>5 DEF HandleThread
<1>2. CASE Run
      BY <1>2 DEF Run, CreateThread, CreateReporter, Join, ReturnFromMain, Goto,
                  Locations, count, process
<1>3. CASE Sleep \/ Report
      BY <1>3 DEF Sleep, Report, count
<1>4. CASE UNCHANGED toolVars
      BY <1>4 DEF toolVars
<1> QED BY <1>1, <1>2, <1>3, <1>4 DEF ToolNext

-----------------------------------------------------------------------------
(* The mutex.                                                              *)
LEMMA ExclusiveStep == ToolTypeOK /\ Exclusive /\ [ToolNext]_toolVars => Exclusive'
<1> SUFFICES ASSUME ToolTypeOK, Exclusive, [ToolNext]_toolVars PROVE Exclusive'
    OBVIOUS
<1> USE DEF ToolTypeOK, Exclusive, Counting
<1>1. ASSUME NEW c \in Threads, HandleThread(c) PROVE Exclusive'
  <2>1. CASE Online(c)
    <3>1. CASE Lock(c, "start", "add")
          BY <3>1, ToolAssumption DEF Lock, Goto
    <3>2. CASE Unlock(c, "add", 1, "construct")
          BY <3>2, ToolAssumption DEF Unlock, Goto
    <3> QED BY <2>1, <3>1, <3>2 DEF Online
  <2>2. CASE Offline(c)
    <3>1. CASE Lock(c, "stop", "subtract")
          BY <3>1, ToolAssumption DEF Lock, Goto
    <3>2. CASE Unlock(c, "subtract", -1, "destroy")
          BY <3>2, ToolAssumption DEF Unlock, Goto
    <3> QED BY <2>2, <3>1, <3>2 DEF Offline
  <2>3. CASE Construct(c) \/ ReadPacket(c) \/ UnrefPacket(c) \/ EndStream(c) \/ Destroy(c)
        BY <2>3 DEF Construct, ReadPacket, UnrefPacket, EndStream, Destroy, Goto, count
  <2>4. CASE Call(c)
    <3>1. pc[c] \in Calls /\ UNCHANGED count
          BY <2>4 DEF Call
    <3>2. PICK to \in Calls \cup {"read", "stop"} : Goto(c, to)
          BY <2>4 DEF Call, Calls, Following
    <3> QED BY <3>1, <3>2 DEF Goto, Calls, count
  <2> QED BY <1>1, <2>1, <2>2, <2>3, <2>4 DEF HandleThread
<1>2. CASE Run
      BY <1>2 DEF Run, CreateThread, CreateReporter, Join, ReturnFromMain, Goto, count
<1>3. CASE Sleep \/ Report
      BY <1>3 DEF Sleep, Report, count
<1>4. CASE UNCHANGED toolVars
      BY <1>4 DEF toolVars
<1> QED BY <1>1, <1>2, <1>3, <1>4 DEF ToolNext

-----------------------------------------------------------------------------
(* What a client holds changes with its place.                             *)
LEMMA HeldStep == ToolTypeOK /\ Held /\ [ToolNext]_toolVars => Held'
<1> SUFFICES ASSUME ToolTypeOK, Held, [ToolNext]_toolVars PROVE Held'
    OBVIOUS
<1> USE DEF ToolTypeOK, Held, Holds, Calls
<1>1. ASSUME NEW c \in Threads, HandleThread(c) PROVE Held'
  <2>1. CASE Online(c) \/ Offline(c)
        BY <2>1 DEF Online, Offline, Lock, Unlock, Goto
  <2>2. CASE Construct(c)
        BY <2>2 DEF Construct, Goto
  <2>3. CASE Call(c)
    <3> PICK ok \in BOOLEAN :
          /\ allocated' = [allocated EXCEPT ![c] = After(pc[c], ok, @)]
          /\ Goto(c, IF ok THEN Following[pc[c]] ELSE "stop")
        BY <2>3 DEF Call
    <3>1. \A d \in Threads \ {c} : allocated'[d] = allocated[d] /\ pc'[d] = pc[d]
          BY DEF Goto
    <3>2. allocated'[c] = After(pc[c], ok, allocated[c])
          OBVIOUS
    <3>3. pc'[c] = IF ok THEN Following[pc[c]] ELSE "stop"
          BY DEF Goto
    <3>4. pc[c] \in Calls
          BY <2>3 DEF Call
    <3>5. Holds(c)'
          BY <3>2, <3>3, <3>4 DEF After, Following
    <3> QED BY <3>1, <3>5
  <2>4. CASE ReadPacket(c) \/ UnrefPacket(c) \/ EndStream(c)
        BY <2>4 DEF ReadPacket, UnrefPacket, EndStream, Goto
  <2>5. CASE Destroy(c)
        BY <2>5 DEF Destroy, Goto, Resources
  <2> QED BY <1>1, <2>1, <2>2, <2>3, <2>4, <2>5 DEF HandleThread
<1>2. CASE Run
      BY <1>2 DEF Run, CreateThread, CreateReporter, Join, ReturnFromMain, Goto
<1>3. CASE Sleep \/ Report
      BY <1>3 DEF Sleep, Report
<1>4. CASE UNCHANGED toolVars
      BY <1>4 DEF toolVars
<1> QED BY <1>1, <1>2, <1>3, <1>4 DEF ToolNext

-----------------------------------------------------------------------------
(* The count: one client at a time moves into Counted or out of it.        *)
LEMMA CountStep == ToolInv /\ [ToolNext]_toolVars => OnlineCounted'
<1> SUFFICES ASSUME ToolInv, [ToolNext]_toolVars PROVE OnlineCounted'
    OBVIOUS
<1> USE DEF ToolInv, ToolTypeOK
<1>1. IsFiniteSet(Counted) /\ Cardinality(Counted) \in Nat
  <2>1. Counted \subseteq Threads
        BY DEF Counted
  <2> QED BY <2>1, ToolAssumption, FS_Subset, FS_CardinalityType
<1>2. ASSUME Counted' = Counted, g_online_count' = g_online_count PROVE OnlineCounted'
      BY <1>2 DEF OnlineCounted
<1>3. ASSUME NEW c \in Threads, HandleThread(c) PROVE OnlineCounted'
  <2>1. CASE Lock(c, "start", "add")
    <3>1. Counted' = Counted /\ g_online_count' = g_online_count
          BY <2>1 DEF Lock, Goto, Counted, Calls
    <3> QED BY <3>1, <1>2
  <2>2. CASE Lock(c, "stop", "subtract")
    <3>1. Counted' = Counted /\ g_online_count' = g_online_count
          BY <2>2 DEF Lock, Goto, Counted, Calls
    <3> QED BY <3>1, <1>2
  <2>3. CASE Unlock(c, "add", 1, "construct")
    <3>1. Counted' = Counted \cup {c} /\ c \notin Counted
          BY <2>3 DEF Unlock, Goto, Counted, Calls
    <3>2. g_online_count' = g_online_count + 1
          BY <2>3 DEF Unlock, Exclusive, Counting
    <3> QED BY <1>1, <3>1, <3>2, FS_AddElement DEF OnlineCounted
  <2>4. CASE Unlock(c, "subtract", -1, "destroy")
    <3>1. Counted' = Counted \ {c} /\ c \in Counted
          BY <2>4 DEF Unlock, Goto, Counted, Calls
    <3>2. g_online_count' = g_online_count - 1
          BY <2>4 DEF Unlock, Exclusive, Counting
    <3> QED BY <1>1, <3>1, <3>2, FS_RemoveElement DEF OnlineCounted
  <2>5. CASE Construct(c) \/ ReadPacket(c) \/ UnrefPacket(c) \/ EndStream(c) \/ Destroy(c)
    <3>1. Counted' = Counted
          BY <2>5 DEF Construct, ReadPacket, UnrefPacket, EndStream, Destroy, Goto,
                      Counted, Calls
    <3>2. g_online_count' = g_online_count
          BY <2>5 DEF Construct, ReadPacket, UnrefPacket, EndStream, Destroy, count
    <3> QED BY <3>1, <3>2, <1>2
  <2>6. CASE Call(c)
    <3>1. PICK to \in Calls \cup {"read", "stop"} : Goto(c, to)
          BY <2>6 DEF Call, Calls, Following
    <3>2. Counted' = Counted
          BY <2>6, <3>1 DEF Call, Goto, Counted, Calls
    <3>3. g_online_count' = g_online_count
          BY <2>6 DEF Call, count
    <3> QED BY <3>2, <3>3, <1>2
  <2> QED BY <1>3, <2>1, <2>2, <2>3, <2>4, <2>5, <2>6 DEF HandleThread, Online, Offline
<1>4. CASE Run
  <2>1. Counted' = Counted
        BY <1>4 DEF Run, CreateThread, CreateReporter, Join, ReturnFromMain, Goto,
                    Counted, Calls
  <2>2. g_online_count' = g_online_count
        BY <1>4 DEF Run, CreateThread, CreateReporter, Join, ReturnFromMain, count
  <2> QED BY <2>1, <2>2, <1>2
<1>5. CASE Sleep \/ Report
  <2>1. Counted' = Counted /\ g_online_count' = g_online_count
        BY <1>5 DEF Sleep, Report, Counted, count
  <2> QED BY <2>1, <1>2
<1>6. CASE UNCHANGED toolVars
  <2>1. Counted' = Counted /\ g_online_count' = g_online_count
        BY <1>6 DEF toolVars, Counted
  <2> QED BY <2>1, <1>2
<1> QED BY <1>3, <1>4, <1>5, <1>6 DEF ToolNext

-----------------------------------------------------------------------------
(* ToolInv holds in the beginning.                                         *)
LEMMA ToolInitial == ToolInit => ToolInv
<1> SUFFICES ASSUME ToolInit PROVE ToolInv
    OBVIOUS
<1>1. ToolTypeOK
      BY ToolTypeInitial
<1>2. Exclusive
      BY ToolAssumption DEF ToolInit, Exclusive, Counting
<1>3. Held
      BY DEF ToolInit, Held, Holds, Calls
<1>4. Counted = {}
      BY DEF ToolInit, Counted, Calls
<1>5. OnlineCounted
      BY <1>4, FS_EmptySet DEF ToolInit, OnlineCounted
<1> QED BY <1>1, <1>2, <1>3, <1>5 DEF ToolInv

(* It holds in every reachable state.                                      *)
LEMMA ToolInvariance == ToolSpec => []ToolInv
<1>1. ToolInv /\ [ToolNext]_toolVars => ToolInv'
      BY ToolTypeStep, ExclusiveStep, HeldStep, CountStep DEF ToolInv
<1> QED BY ToolInitial, <1>1, PTL DEF ToolSpec

(* The count that the reporter logs is right, with any number of clients:  *)
(* handleThread changes it in two steps, under the mutex.                  *)
THEOREM CountIsRight == ToolSpec => []CountCorrect
<1>1. ToolInv => CountCorrect
      BY DEF ToolInv, CountCorrect
<1> QED BY ToolInvariance, <1>1, PTL

(* Whichever call of testPullAndDecodeStream fails, nothing is used before *)
(* it is there, and the destructor frees what the decoder still has.       *)
THEOREM NothingUsedOrLeft == ToolSpec => []Resourced
<1>1. ToolInv => Resourced
      BY DEF ToolInv, Held, Holds, Resourced
<1> QED BY ToolInvariance, <1>1, PTL

-----------------------------------------------------------------------------
(* The player.                                                             *)

(* The thread is created when main leaves init, and BREAK is its last word.*)
BreakIsLast ==
  /\ main \in {"init", "crashed"} => thread = "none"
  /\ \A i \in DOMAIN queue : queue[i] = "BREAK" => thread \in {"returning", "done"}

(* The inductive invariant of the two threads.                             *)
PlayerInv == PlayerTypeOK /\ BreakIsLast /\ LastEventAtRelease

-----------------------------------------------------------------------------
(* SDL_PushEvent on the queue.                                             *)
LEMMA QueueAfterPush ==
  ASSUME PlayerTypeOK, NEW e \in Events, PushEvent(e)
  PROVE  /\ queue' \in Seq(Events) /\ Len(queue') <= QueueMax
         /\ \A i \in DOMAIN queue' : queue'[i] = e \/ (i \in DOMAIN queue /\ queue'[i] = queue[i])
<1>1. queue \in Seq(Events) /\ Len(queue) <= QueueMax /\ QueueMax \in Nat
      BY PlayerAssumption DEF PlayerTypeOK
<1>2. CASE Full
      BY <1>1, <1>2 DEF PushEvent
<1>3. CASE ~Full
  <2>1. queue' = Append(queue, e)
        BY <1>3 DEF PushEvent
  <2>2. Len(queue) # QueueMax
        BY <1>3 DEF Full
  <2>3. queue' \in Seq(Events) /\ Len(queue') = Len(queue) + 1
        BY <1>1, <2>1
  <2>4. Len(queue') <= QueueMax
        BY <1>1, <2>2, <2>3
  <2>5. \A i \in 1..Len(queue') : queue'[i] = IF i = Len(queue) + 1 THEN e ELSE queue[i]
        BY <1>1, <2>1, <2>3
  <2> QED BY <1>1, <2>3, <2>4, <2>5
<1> QED BY <1>2, <1>3

(* SDL_WaitEvent on the queue.                                             *)
LEMMA QueueAfterWait ==
  ASSUME PlayerTypeOK, NEW e, WaitEvent(e)
  PROVE  /\ queue' \in Seq(Events) /\ Len(queue') <= QueueMax
         /\ 1 \in DOMAIN queue /\ queue[1] = e
         /\ \A i \in DOMAIN queue' : i + 1 \in DOMAIN queue /\ queue'[i] = queue[i + 1]
<1> USE PlayerAssumption DEF PlayerTypeOK, WaitEvent
<1>1. queue \in Seq(Events) /\ queue # << >> /\ queue' = Tail(queue) /\ e = Head(queue)
      OBVIOUS
<1>2. Len(queue') = Len(queue) - 1 /\ queue' \in Seq(Events)
      BY <1>1
<1> QED BY <1>1, <1>2

-----------------------------------------------------------------------------
(* At first there is no thread and nothing in the queue.                   *)
LEMMA PlayerInitial == PlayerInit => PlayerInv
<1> SUFFICES ASSUME PlayerInit PROVE PlayerInv
    OBVIOUS
<1>1. file \in Seq({"video", "other", "damaged"}) /\ Len(file) \in Nat
      BY PlayerAssumption DEF PlayerInit
<1>2. /\ pos \in 0..Len(file) /\ packet \in 0..Len(file)
      /\ held \in Seq(1..Len(file)) /\ shown \in Seq(1..Len(file))
      BY <1>1 DEF PlayerInit, Blank
<1>3. queue \in Seq(Events) /\ Len(queue) <= QueueMax /\ keys \in 0..MaxKeys
      BY PlayerAssumption DEF PlayerInit
<1>4. PlayerTypeOK
      BY <1>2, <1>3 DEF PlayerInit, PlayerTypeOK
<1> QED BY <1>4 DEF PlayerInit, PlayerInv, BreakIsLast, LastEventAtRelease

(* The refresh thread.                                                     *)
LEMMA ThreadStep == PlayerInv /\ RefreshThread => PlayerInv'
<1> SUFFICES ASSUME PlayerInv, RefreshThread PROVE PlayerInv'
    OBVIOUS
<1> USE DEF PlayerInv, PlayerTypeOK, BreakIsLast, LastEventAtRelease, decoder, flags, user
<1>1. CASE StartThread
      BY <1>1 DEF StartThread
<1>2. CASE Refresh
  <2>1. CASE pause
        BY <1>2, <2>1 DEF Refresh
  <2>2. CASE ~pause
    <3>1. PushEvent("REFRESH") /\ "REFRESH" \in Events
          BY <1>2, <2>2 DEF Refresh, Events
    <3>2. /\ queue' \in Seq(Events) /\ Len(queue') <= QueueMax
          /\ \A i \in DOMAIN queue' :
               queue'[i] = "REFRESH" \/ (i \in DOMAIN queue /\ queue'[i] = queue[i])
          BY <3>1, QueueAfterPush
    <3> QED BY <1>2, <3>2 DEF Refresh
  <2> QED BY <2>1, <2>2
<1>3. CASE LeaveLoop
      BY <1>3 DEF LeaveLoop
<1>4. CASE ClearFlags
      BY <1>4 DEF ClearFlags
<1>5. CASE PushBreak
  <2>1. PushEvent("BREAK") /\ "BREAK" \in Events
        BY <1>5 DEF PushBreak, Events
  <2>2. queue' \in Seq(Events) /\ Len(queue') <= QueueMax
        BY <2>1, QueueAfterPush
  <2>3. breakLost' \in BOOLEAN
        BY <1>5 DEF PushBreak, Full
  <2> QED BY <1>5, <2>2, <2>3 DEF PushBreak
<1>6. CASE Return
      BY <1>6 DEF Return
<1> QED BY <1>1, <1>2, <1>3, <1>4, <1>5, <1>6 DEF RefreshThread

(* main, between its events.                                               *)
LEMMA DecodeStep ==
  ASSUME PlayerInv, ReadFrame \/ SendPacket \/ ShowFrame \/ EndOfFrames
  PROVE  PlayerInv'
<1> USE DEF PlayerInv, PlayerTypeOK, BreakIsLast, LastEventAtRelease, flags, user
<1>0. file \in Seq({"video", "other", "damaged"}) /\ Len(file) \in Nat
      BY PlayerAssumption
<1>1. CASE ReadFrame
  <2>1. NextVideo \subseteq 1..Len(file)
        BY <1>0 DEF NextVideo
  <2>2. pos' \in 0..Len(file) /\ packet' \in 0..Len(file) /\ exit' \in BOOLEAN
    <3>1. CASE NextVideo = {}
          BY <1>0, <1>1, <3>1 DEF ReadFrame, Blank
    <3>2. CASE NextVideo # {}
      <4>1. PICK i \in NextVideo : pos' = i /\ packet' = i /\ exit' = exit
            BY <1>1, <3>2 DEF ReadFrame
      <4> QED BY <1>0, <2>1, <4>1
    <3> QED BY <3>1, <3>2
  <2> QED BY <1>1, <2>2 DEF ReadFrame
<1>2. CASE SendPacket
  <2>1. held' \in Seq(1..Len(file))
    <3>1. CASE Refused \/ packet = Blank
          BY <1>2, <3>1 DEF SendPacket
    <3>2. CASE ~(Refused \/ packet = Blank)
      <4>1. packet \in 1..Len(file)
            BY <1>0, <3>2 DEF Blank
      <4> QED BY <1>2, <3>2, <4>1 DEF SendPacket
    <3> QED BY <3>1, <3>2
  <2>2. exit' \in BOOLEAN /\ draining' \in BOOLEAN
        BY <1>2 DEF SendPacket, Refused, Blank
  <2> QED BY <1>2, <2>1, <2>2 DEF SendPacket
<1>3. CASE ShowFrame
  <2>1. held # << >> /\ held \in Seq(1..Len(file)) /\ shown \in Seq(1..Len(file))
        BY <1>3 DEF ShowFrame, FrameIsReady
  <2>2. Head(held) \in 1..Len(file) /\ Tail(held) \in Seq(1..Len(file))
        BY <2>1
  <2>3. held' \in Seq(1..Len(file)) /\ shown' \in Seq(1..Len(file))
        BY <1>3, <2>1, <2>2 DEF ShowFrame
  <2> QED BY <1>3, <2>3 DEF ShowFrame
<1>4. CASE EndOfFrames
      BY <1>4 DEF EndOfFrames, decoder
<1> QED BY <1>1, <1>2, <1>3, <1>4

(* The event loop.                                                         *)
LEMMA MainStep == PlayerInv /\ Main => PlayerInv'
<1> SUFFICES ASSUME PlayerInv, Main PROVE PlayerInv'
    OBVIOUS
<1> USE DEF PlayerInv, PlayerTypeOK, BreakIsLast, LastEventAtRelease, decoder, flags, user
<1>1. CASE Start
      BY <1>1 DEF Start
<1>2. ASSUME NEW e \in Events, WaitEvent(e)
      PROVE  /\ queue' \in Seq(Events) /\ Len(queue') <= QueueMax
             /\ \A i \in DOMAIN queue' : queue'[i] = "BREAK" => thread \in {"returning", "done"}
             /\ e = "BREAK" => thread \in {"returning", "done"}
      BY <1>2, QueueAfterWait
<1>3. CASE HandleRefresh
      BY <1>2, <1>3 DEF HandleRefresh, Events, WaitEvent
<1>4. CASE HandleQuit
      BY <1>2, <1>4 DEF HandleQuit, Events, WaitEvent
<1>5. CASE HandleSpace
      BY <1>2, <1>5 DEF HandleSpace, Events, WaitEvent
<1>6. CASE HandleBreak
      BY <1>2, <1>6 DEF HandleBreak, Events, WaitEvent
<1>7. CASE Release
      BY <1>7 DEF Release
<1> QED BY <1>1, <1>3, <1>4, <1>5, <1>6, <1>7, DecodeStep DEF Main

(* The user's events are no BREAK.                                         *)
LEMMA UserStep ==
  ASSUME PlayerInv, NEW e \in {"SPACE", "QUIT"}, Press(e)
  PROVE  PlayerInv'
<1> USE DEF PlayerInv, PlayerTypeOK, BreakIsLast, LastEventAtRelease, decoder, flags
<1>1. /\ queue' \in Seq(Events) /\ Len(queue') <= QueueMax
      /\ \A i \in DOMAIN queue' : queue'[i] = e \/ (i \in DOMAIN queue /\ queue'[i] = queue[i])
      BY QueueAfterPush DEF Press, Events
<1>2. keys' \in 0..MaxKeys
      BY PlayerAssumption DEF Press
<1> QED BY <1>1, <1>2 DEF Press

(* The user, and the whole program.                                        *)
LEMMA PlayerInductive == PlayerInv /\ [PlayerNext]_playerVars => PlayerInv'
<1> SUFFICES ASSUME PlayerInv, [PlayerNext]_playerVars PROVE PlayerInv'
    OBVIOUS
<1>1. CASE UNCHANGED playerVars
      BY <1>1 DEF playerVars, decoder, flags, user, PlayerInv, PlayerTypeOK, BreakIsLast,
                  LastEventAtRelease
<1> QED BY <1>1, ThreadStep, MainStep, UserStep DEF PlayerNext

(* main leaves its event loop, and shuts SDL down, only when the refresh   *)
(* thread has pushed its last event and written the flags for the last     *)
(* time, or was never created: BREAK, the thread's last event, is the one  *)
(* way out of the loop.  That the thread has returned is not claimed.      *)
THEOREM BreakBeforeRelease == PlayerSpec => []Inv
<1>1. PlayerInv => Inv
      BY DEF PlayerInv, Inv
<1> QED BY PlayerInitial, PlayerInductive, <1>1, PTL DEF PlayerSpec

-----------------------------------------------------------------------------
(* What was shown and then what the decoder holds is in the order of the   *)
(* file.                                                                   *)
InFileOrder ==
  /\ \A i, j \in DOMAIN shown : i < j => shown[i] < shown[j]
  /\ \A i, j \in DOMAIN held : i < j => held[i] < held[j]
  /\ \A i \in DOMAIN shown, j \in DOMAIN held : shown[i] < held[j]

(* These are the video packets that were read so far, without the one that *)
(* is about to be sent.                                                    *)
SentSoFar ==
  Range(shown) \cup Range(held) =
    {i \in Videos : i <= pos /\ ~(main = "send" /\ i = packet)}

(* A blank packet is sent at the end of the file, a packet of the video    *)
(* stream before the decoder is drained.                                   *)
Sending ==
  main = "send" =>
    IF packet = Blank
      THEN pos = Len(file)
      ELSE packet = pos /\ file[packet] # "other" /\ ~draining

(* Draining starts at the end of the file and empties the decoder.         *)
Drained ==
  draining => pos = Len(file) /\ (main # "receive" => held = << >>)

(* What ends the thread, unless it is the user or a damaged packet, is the *)
(* end of the file.                                                        *)
Ending ==
  (exit \/ thread \in {"left", "break", "returning", "done"}) /\ Intact /\ ~quit =>
    pos = Len(file) /\ (draining \/ (main = "send" /\ packet = Blank))

FramesInv == InFileOrder /\ SentSoFar /\ Sending /\ Drained /\ Ending

-----------------------------------------------------------------------------
(* Appending to a sequence.                                                *)
LEMMA AppendElems ==
  ASSUME NEW S, NEW s \in Seq(S), NEW e \in S
  PROVE  /\ Append(s, e) \in Seq(S) /\ Len(Append(s, e)) = Len(s) + 1
         /\ \A i \in 1..Len(s) : Append(s, e)[i] = s[i]
         /\ Append(s, e)[Len(s) + 1] = e
         /\ Range(Append(s, e)) = Range(s) \cup {e}
<1>1. /\ Append(s, e) \in Seq(S) /\ Len(Append(s, e)) = Len(s) + 1
      /\ \A i \in 1..Len(s) : Append(s, e)[i] = s[i]
      /\ Append(s, e)[Len(s) + 1] = e
      /\ Len(s) \in Nat /\ DOMAIN s = 1..Len(s)
      OBVIOUS
<1> DEFINE t == Append(s, e)
<1>2. DOMAIN t = 1..Len(s) + 1
      BY <1>1
<1> HIDE DEF t
<1>3. \A i \in 1..Len(s) : i \in DOMAIN t /\ t[i] = s[i]
      BY <1>1, <1>2 DEF t
<1>4. Len(s) + 1 \in DOMAIN t /\ t[Len(s) + 1] = e
      BY <1>1, <1>2 DEF t
<1>5. \A i \in DOMAIN t : i \in 1..Len(s) \/ i = Len(s) + 1
      BY <1>1, <1>2
<1>6. Range(t) = Range(s) \cup {e}
      BY <1>1, <1>3, <1>4, <1>5 DEF Range
<1> QED BY <1>1, <1>6 DEF t

(* Taking the first element of a sequence.                                 *)
LEMMA TailElems ==
  ASSUME NEW S, NEW s \in Seq(S), s # << >>
  PROVE  /\ Head(s) \in S /\ Tail(s) \in Seq(S)
         /\ 1 \in DOMAIN s /\ Head(s) = s[1]
         /\ \A i \in DOMAIN Tail(s) : i + 1 \in DOMAIN s /\ Tail(s)[i] = s[i + 1]
         /\ Range(s) = {Head(s)} \cup Range(Tail(s))
<1>1. /\ Head(s) \in S /\ Tail(s) \in Seq(S) /\ Head(s) = s[1]
      /\ Len(Tail(s)) = Len(s) - 1 /\ Len(s) \in Nat \ {0}
      /\ DOMAIN s = 1..Len(s)
      /\ \A i \in 1..Len(s) - 1 : Tail(s)[i] = s[i + 1]
      OBVIOUS
<1> DEFINE t == Tail(s)
<1>2. DOMAIN t = 1..Len(s) - 1
      BY <1>1
<1> HIDE DEF t
<1>3. \A i \in DOMAIN t : i + 1 \in DOMAIN s /\ t[i] = s[i + 1]
      BY <1>1, <1>2 DEF t
<1>4. \A i \in DOMAIN s : i = 1 \/ (i - 1 \in DOMAIN t /\ t[i - 1] = s[i])
  <2> SUFFICES ASSUME NEW i \in 1..Len(s), i # 1
               PROVE  i - 1 \in DOMAIN t /\ t[i - 1] = s[i]
      BY <1>1
  <2>1. i - 1 \in DOMAIN t /\ (i - 1) + 1 = i
        BY <1>1, <1>2
  <2> QED BY <1>3, <2>1
<1>5. 1 \in DOMAIN s
      BY <1>1
<1>6. Range(s) = {s[1]} \cup Range(t)
      BY <1>3, <1>4, <1>5 DEF Range
<1> QED BY <1>1, <1>3, <1>5, <1>6 DEF t

(* Packets are counted in the file.                                        *)
LEMMA FileLength ==
  ASSUME PlayerTypeOK
  PROVE  /\ Len(file) \in Nat /\ DOMAIN file = 1..Len(file)
         /\ pos \in Nat /\ packet \in Nat /\ Videos \subseteq 1..Len(file)
         /\ \A i \in DOMAIN held : held[i] \in 1..Len(file)
         /\ \A i \in DOMAIN shown : shown[i] \in 1..Len(file)
<1>1. file \in Seq({"video", "other", "damaged"})
      BY PlayerAssumption DEF PlayerTypeOK
<1>2. Len(file) \in Nat /\ DOMAIN file = 1..Len(file)
      BY <1>1
<1> QED BY <1>2 DEF PlayerTypeOK, Videos

(* Nothing is read in the beginning.                                       *)
LEMMA FramesInitial == PlayerInit => FramesInv
<1> SUFFICES ASSUME PlayerInit PROVE FramesInv
    OBVIOUS
<1>1. PlayerTypeOK /\ pos = 0 /\ shown = << >> /\ held = << >> /\ main = "init"
      BY PlayerInitial DEF PlayerInit, PlayerInv
<1>2. Range(shown) = {} /\ Range(held) = {} /\ DOMAIN shown = {} /\ DOMAIN held = {}
      BY <1>1 DEF Range
<1>3. \A i \in Videos : ~(i <= pos)
      BY <1>1, FileLength
<1> QED BY <1>1, <1>2, <1>3
        DEF PlayerInit, FramesInv, InFileOrder, SentSoFar, Sending, Drained, Ending

(* Steps that leave the decoder alone and send nothing.                    *)
LEMMA OtherSteps ==
  ASSUME FramesInv, UNCHANGED decoder,
         main # "send", main' # "send",
         main' # main => main # "receive",
         exit' \/ thread' \in {"left", "break", "returning", "done"} =>
           quit' \/ exit \/ thread \in {"left", "break", "returning", "done"},
         quit => quit'
  PROVE  FramesInv'
BY DEF FramesInv, InFileOrder, SentSoFar, Sending, Drained, Ending, decoder,
       Videos, Intact

(* The next packet of the video stream, or the blank one at the end.       *)
LEMMA ReadKeeps ==
  ASSUME PlayerTypeOK, FramesInv, ReadFrame
  PROVE  FramesInv'
<1> USE FileLength DEF FramesInv
<1>1. /\ main = "read" /\ main' = "send"
      /\ UNCHANGED <<file, held, draining, shown, pause, queue, breakLost,
                     thread, keys, quit>>
      BY DEF ReadFrame, user
<1>2. Range(shown) \cup Range(held) = {i \in Videos : i <= pos}
      BY <1>1 DEF SentSoFar
<1>3. InFileOrder'
      BY <1>1 DEF InFileOrder
<1>4. CASE NextVideo = {} /\ pos' = Len(file) /\ packet' = Blank /\ exit' = TRUE
  <2>1. \A i \in Videos : i <= pos
        BY <1>4 DEF NextVideo, Videos
  <2>2. \A i \in Videos : i <= pos' /\ i # packet'
        BY <1>4 DEF Blank
  <2>3. SentSoFar'
        BY <1>1, <1>2, <2>1, <2>2 DEF SentSoFar, Videos
  <2>4. Sending' /\ Ending'
        BY <1>1, <1>4 DEF Sending, Ending, Intact
  <2>5. Drained'
        BY <1>1, <1>4 DEF Drained
  <2> QED BY <1>3, <2>3, <2>4, <2>5
<1>5. ASSUME NEW i \in NextVideo, \A j \in NextVideo : i <= j,
             pos' = i, packet' = i, exit' = exit
      PROVE  FramesInv'
  <2>1. i \in 1..Len(file) /\ pos < i
        BY <1>5 DEF NextVideo
  <2>2. \A v \in Videos : v <= pos <=> v <= i /\ v # i
    <3> SUFFICES ASSUME NEW v \in Videos, v < i PROVE v <= pos
        BY <2>1
    <3>1. v \notin NextVideo
          BY <1>5, <2>1
    <3> QED BY <2>1, <3>1 DEF NextVideo, Videos
  <2>3. SentSoFar'
        BY <1>1, <1>2, <1>5, <2>2 DEF SentSoFar, Videos
  <2>4. ~draining
        BY <2>1 DEF Drained
  <2>5. Sending'
    <3>1. file[i] # "other" /\ ~draining' /\ file' = file
          BY <1>1, <1>5, <2>4 DEF NextVideo
    <3>2. pos' = i /\ packet' = i /\ packet' # Blank
          BY <1>5, <2>1 DEF Blank
    <3>3. file'[packet'] # "other"
          BY <1>5, <3>1
    <3> QED BY <3>1, <3>2, <3>3 DEF Sending
  <2>6. Drained'
        BY <1>1, <2>4 DEF Drained
  <2>7. Ending'
    <3>1. pos # Len(file)
          BY <2>1
    <3>2. exit' = exit /\ thread' = thread /\ quit' = quit /\ file' = file
          BY <1>1, <1>5
    <3>3. ~((exit \/ thread \in {"left", "break", "returning", "done"}) /\ Intact /\ ~quit)
          BY <3>1 DEF Ending
    <3> QED BY <3>2, <3>3 DEF Ending, Intact
  <2> QED BY <1>3, <2>3, <2>5, <2>6, <2>7
<1> QED BY <1>4, <1>5 DEF ReadFrame

(* A packet goes into the decoder, unless the decoder refuses it.          *)
LEMMA SendKeeps ==
  ASSUME PlayerTypeOK, FramesInv, SendPacket
  PROVE  FramesInv'
<1> USE FileLength DEF FramesInv
<1>1. /\ main = "send" /\ main' = "receive"
      /\ exit' = (exit \/ Refused) /\ draining' = (draining \/ packet = Blank)
      /\ held' = IF Refused \/ packet = Blank THEN held ELSE Append(held, packet)
      /\ UNCHANGED <<file, pos, packet, shown, thread, quit>>
      BY DEF SendPacket, user
<1>2. Sending'
      BY <1>1 DEF Sending
<1>3. Drained'
      BY <1>1 DEF Drained, Sending
<1>4. Ending'
  <2>1. packet # Blank /\ file[packet] = "damaged" => ~Intact
        BY DEF PlayerTypeOK, Intact, Range, Blank
  <2>2. draining => pos = Len(file)
        BY DEF Drained
  <2>3. packet = Blank => pos = Len(file)
        BY <1>1 DEF Sending
  <2> QED BY <1>1, <2>1, <2>2, <2>3 DEF Ending, Refused, Intact
<1>5. CASE packet = Blank
  <2>1. \A i \in Videos : i # packet
        BY <1>5 DEF Blank
  <2> QED BY <1>1, <1>2, <1>3, <1>4, <1>5, <2>1
          DEF InFileOrder, SentSoFar, Videos
<1>6. CASE packet # Blank
  <2>1. packet = pos /\ ~draining /\ packet \in 1..Len(file)
        BY <1>1, <1>6 DEF Sending, Blank, PlayerTypeOK
  <2>2. CASE file[packet] = "damaged"
    <3>1. packet \notin Videos /\ held' = held
          BY <1>1, <1>6, <2>2 DEF Videos, Refused
    <3> QED BY <1>1, <1>2, <1>3, <1>4, <3>1 DEF InFileOrder, SentSoFar, Videos
  <2>3. CASE file[packet] # "damaged"
    <3>1. held' = Append(held, packet)
          BY <1>1, <1>6, <2>1, <2>3 DEF Refused
    <3>2. packet \in Videos
      <4>1. file \in Seq({"video", "other", "damaged"})
            BY PlayerAssumption DEF PlayerTypeOK
      <4>2. file[packet] \in {"video", "other", "damaged"}
            BY <2>1, <4>1
      <4>3. file[packet] # "other"
            BY <1>1, <1>6 DEF Sending
      <4> QED BY <2>1, <2>3, <4>2, <4>3 DEF Videos
    <3>3. \A v \in Range(shown) \cup Range(held) : v < packet
          BY <1>1, <2>1 DEF SentSoFar
    <3>4. SentSoFar'
      <4>1. held \in Seq(1..Len(file))
            BY DEF PlayerTypeOK
      <4>2. Range(Append(held, packet)) = Range(held) \cup {packet}
            BY ONLY <2>1, <4>1, AppendElems
      <4>3. Range(held') = Range(held) \cup {packet}
            BY ONLY <3>1, <4>2
      <4> QED BY <1>1, <2>1, <3>2, <4>3 DEF SentSoFar, Videos
    <3>5. InFileOrder'
      <4>1. /\ DOMAIN held = 1..Len(held) /\ DOMAIN held' = 1..Len(held) + 1
            /\ Len(held) \in Nat
            /\ \A i \in 1..Len(held) : held'[i] = held[i] /\ held[i] < packet
            /\ held'[Len(held) + 1] = packet
        <5>1. /\ held' \in Seq(1..Len(file)) /\ Len(held') = Len(held) + 1
              /\ \A i \in 1..Len(held) : held'[i] = held[i]
              /\ held'[Len(held) + 1] = packet
              BY <2>1, <3>1, AppendElems DEF PlayerTypeOK
        <5>2. held \in Seq(1..Len(file))
              BY DEF PlayerTypeOK
        <5> QED BY <3>3, <5>1, <5>2 DEF Range
      <4>2. \A i \in DOMAIN shown : shown[i] < packet
            BY <3>3 DEF Range
      <4>3. ASSUME NEW i \in DOMAIN held', NEW j \in DOMAIN held', i < j
            PROVE  held'[i] < held'[j]
        <5>1. CASE j \in 1..Len(held)
              BY <4>1, <4>3, <5>1 DEF InFileOrder
        <5>2. CASE j = Len(held) + 1
              BY <4>1, <4>3, <5>2
        <5> QED BY <4>1, <5>1, <5>2
      <4>4. ASSUME NEW i \in DOMAIN shown, NEW j \in DOMAIN held'
            PROVE  shown[i] < held'[j]
            BY <4>1, <4>2, <4>4 DEF InFileOrder
      <4> QED BY <1>1, <4>3, <4>4 DEF InFileOrder
    <3> QED BY <1>2, <1>3, <1>4, <3>4, <3>5
  <2> QED BY <2>2, <2>3
<1> QED BY <1>5, <1>6

(* A frame goes from the decoder to the screen.                            *)
LEMMA ShowKeeps ==
  ASSUME PlayerTypeOK, FramesInv, ShowFrame
  PROVE  FramesInv'
<1> USE FileLength DEF FramesInv
<1>1. /\ main = "receive" /\ main' = main /\ held # << >>
      /\ shown' = Append(shown, Head(held)) /\ held' = Tail(held)
      /\ UNCHANGED <<file, pos, packet, draining, exit, thread, quit>>
      BY DEF ShowFrame, FrameIsReady, flags, user
<1>2. held \in Seq(1..Len(file)) /\ shown \in Seq(1..Len(file))
      BY DEF PlayerTypeOK
<1>3. /\ Head(held) \in 1..Len(file)
      /\ 1 \in DOMAIN held /\ Head(held) = held[1]
      /\ \A i \in DOMAIN held' : i + 1 \in DOMAIN held /\ held'[i] = held[i + 1]
      /\ Range(held) = {Head(held)} \cup Range(held')
      /\ held' \in Seq(1..Len(file))
      BY <1>1, <1>2, TailElems
<1>4. /\ shown' \in Seq(1..Len(file)) /\ Len(shown') = Len(shown) + 1
      /\ \A i \in 1..Len(shown) : shown'[i] = shown[i]
      /\ shown'[Len(shown) + 1] = Head(held)
      /\ Range(shown') = Range(shown) \cup {Head(held)}
      BY <1>1, <1>2, <1>3, AppendElems
<1>5. SentSoFar'
      BY <1>1, <1>3, <1>4 DEF SentSoFar, Videos
<1>6. Sending' /\ Drained' /\ Ending'
      BY <1>1 DEF Sending, Drained, Ending, Intact
<1>7. InFileOrder'
  <2>1. /\ DOMAIN shown = 1..Len(shown) /\ DOMAIN shown' = 1..Len(shown) + 1
        /\ Len(shown) \in Nat
        BY <1>2, <1>4
  <2>2. \A i \in DOMAIN held' : i \in Nat
        BY <1>3
  <2>3. \A i, j \in DOMAIN held' : i < j => held'[i] < held'[j]
        BY <1>3, <2>2 DEF InFileOrder
  <2>4. \A i \in DOMAIN shown : shown[i] < Head(held)
        BY <1>3 DEF InFileOrder
  <2>5. \A i \in DOMAIN held' : Head(held) < held'[i]
        BY <1>3, <2>2 DEF InFileOrder
  <2>6. ASSUME NEW i \in DOMAIN shown', NEW j \in DOMAIN shown', i < j
        PROVE  shown'[i] < shown'[j]
    <3>1. CASE j \in 1..Len(shown)
      <4>1. /\ i \in DOMAIN shown /\ j \in DOMAIN shown
            /\ shown'[i] = shown[i] /\ shown'[j] = shown[j]
            BY <1>4, <2>1, <2>6, <3>1
      <4> QED BY <2>6, <4>1 DEF InFileOrder
    <3>2. CASE j = Len(shown) + 1
      <4>1. i \in DOMAIN shown /\ shown'[i] = shown[i]
            BY <1>4, <2>1, <2>6, <3>2
      <4> QED BY <1>4, <2>4, <3>2, <4>1
    <3> QED BY <2>1, <3>1, <3>2
  <2>7. ASSUME NEW i \in DOMAIN shown', NEW j \in DOMAIN held'
        PROVE  shown'[i] < held'[j]
    <3>1. CASE i \in 1..Len(shown)
          BY <1>3, <1>4, <2>1, <3>1 DEF InFileOrder
    <3>2. CASE i = Len(shown) + 1
          BY <1>4, <2>5, <3>2
    <3> QED BY <2>1, <3>1, <3>2
  <2> QED BY <2>3, <2>6, <2>7 DEF InFileOrder
<1> QED BY <1>5, <1>6, <1>7

(* The decoder has no more frames: when it was drained it is empty.        *)
LEMMA NoMoreFrames ==
  ASSUME PlayerTypeOK, FramesInv, EndOfFrames
  PROVE  FramesInv'
<1>1. /\ main = "receive" /\ main' = "wait" /\ exit' = (exit \/ draining)
      /\ ~FrameIsReady
      /\ UNCHANGED <<file, pos, packet, held, draining, shown, thread, quit>>
      BY DEF EndOfFrames, decoder, user
<1>2. draining => held = << >>
      BY <1>1 DEF FrameIsReady
<1>3. InFileOrder' /\ SentSoFar'
      BY <1>1 DEF FramesInv, InFileOrder, SentSoFar, Videos
<1>4. Sending' /\ Drained' /\ Ending'
      BY <1>1, <1>2 DEF FramesInv, Sending, Drained, Ending, Intact
<1> QED BY <1>3, <1>4 DEF FramesInv

(* Every step keeps the frames in order.                                   *)
LEMMA FramesStep == PlayerInv /\ FramesInv /\ [PlayerNext]_playerVars => FramesInv'
<1> SUFFICES ASSUME PlayerInv, FramesInv, [PlayerNext]_playerVars PROVE FramesInv'
    OBVIOUS
<1>1. PlayerTypeOK /\ (main \in {"init", "crashed"} => thread = "none")
      BY DEF PlayerInv, BreakIsLast
<1>2. CASE StartThread \/ Refresh \/ LeaveLoop \/ ClearFlags \/ PushBreak \/ Return
  <2>1. UNCHANGED <<file, pos, packet, held, draining, shown, main, quit>>
        BY <1>2 DEF StartThread, Refresh, LeaveLoop, ClearFlags, PushBreak, Return,
                    decoder, user
  <2>2. exit' \/ thread' \in {"left", "break", "returning", "done"} =>
          exit \/ thread \in {"left", "break", "returning", "done"}
        BY <1>2 DEF StartThread, Refresh, LeaveLoop, ClearFlags, PushBreak, Return, flags
  <2> QED BY <2>1, <2>2 DEF FramesInv, InFileOrder, SentSoFar, Sending,
             Drained, Ending, Videos, Intact
<1>3. CASE \/ Start \/ HandleRefresh \/ HandleSpace \/ HandleBreak \/ Release
  <2>1. /\ UNCHANGED <<decoder, exit, quit>>
        /\ main \in {"init", "wait", "end"}
        /\ main' \in {"crashed", "end", "wait", "read", "done"}
        /\ thread' \in {thread, "created", "none"}
        BY <1>3 DEF Start, HandleRefresh, HandleSpace, HandleBreak, Release,
                    WaitEvent, decoder, flags, user
  <2> QED BY <2>1, OtherSteps
<1>4. CASE HandleQuit
      BY <1>4, OtherSteps DEF HandleQuit, WaitEvent, decoder
<1>5. CASE \E e \in {"SPACE", "QUIT"} : Press(e)
  <2>1. UNCHANGED <<file, pos, packet, held, draining, shown, exit, thread, main, quit>>
        BY <1>5 DEF Press, decoder, flags
  <2> QED BY <2>1 DEF FramesInv, InFileOrder, SentSoFar, Sending,
             Drained, Ending, Videos, Intact
<1>6. CASE UNCHANGED playerVars
  <2>1. UNCHANGED <<file, pos, packet, held, draining, shown, exit, thread, main, quit>>
        BY <1>6 DEF playerVars, decoder, flags, user
  <2> QED BY <2>1 DEF FramesInv, InFileOrder, SentSoFar, Sending,
             Drained, Ending, Videos, Intact
<1> QED BY <1>1, <1>2, <1>3, <1>4, <1>5, <1>6, ReadKeeps, SendKeeps, ShowKeeps,
           NoMoreFrames DEF PlayerNext, RefreshThread, Main

(* What the invariant says about the screen.                               *)
LEMMA FramesShown == PlayerInv /\ FramesInv => AllFramesShown
<1> SUFFICES ASSUME PlayerInv, FramesInv PROVE AllFramesShown
    OBVIOUS
<1> USE FileLength DEF PlayerInv, FramesInv
<1>1. Range(shown) \subseteq Videos
      BY DEF SentSoFar
<1>2. ASSUME NEW i \in DOMAIN shown, NEW v \in Videos, v < shown[i]
      PROVE  v \in Range(shown)
  <2>1. shown[i] \in Range(shown)
        BY DEF Range
  <2>2. shown[i] <= pos
        BY <2>1 DEF SentSoFar
  <2>3. v <= pos /\ (main = "send" => v # packet)
        BY <1>2, <2>2 DEF Sending, Blank
  <2>4. v \in Range(shown) \cup Range(held)
        BY <2>3 DEF SentSoFar
  <2>5. \A u \in Range(held) : shown[i] < u
        BY DEF InFileOrder, Range
  <2> QED BY <1>2, <2>4, <2>5
<1>3. ASSUME thread # "none", main \in {"end", "done"}, Intact, ~quit
      PROVE  Range(shown) = Videos
  <2>1. pos = Len(file) /\ draining
        BY <1>3 DEF LastEventAtRelease, Ending
  <2>2. held = << >>
        BY <1>3, <2>1 DEF Drained
  <2>3. Range(held) = {}
        BY <2>2 DEF Range
  <2>4. \A i \in Videos : i <= pos
        BY <2>1
  <2> QED BY <1>3, <2>3, <2>4 DEF SentSoFar
<1> QED BY <1>1, <1>2, <1>3 DEF AllFramesShown, InFileOrder

(* Frames are shown in the order of the file, none twice and none left     *)
(* out, and all of them when an intact file was played to its end.         *)
THEOREM FramesInOrder == PlayerSpec => []AllFramesShown
<1>1. PlayerSpec => [](PlayerInv /\ FramesInv)
  <2>1. PlayerInit => PlayerInv /\ FramesInv
        BY PlayerInitial, FramesInitial
  <2>2. (PlayerInv /\ FramesInv) /\ [PlayerNext]_playerVars => (PlayerInv /\ FramesInv)'
        BY PlayerInductive, FramesStep
  <2> QED BY <2>1, <2>2, PTL DEF PlayerSpec
<1> QED BY <1>1, FramesShown, PTL
=============================================================================
