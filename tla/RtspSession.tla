---------------------------- MODULE RtspSession -----------------------------
(***************************************************************************)
(* RTSP connections and the media session whose packets they ask for.      *)
(* The main thread handles the requests of the connections and deletes     *)
(* closed ones; the timer thread sends the packets of each track to the    *)
(* track's list of RtpInstances, one instance after the other and without  *)
(* a lock (MediaSession::handleSendRtpPacket).                             *)
(*                                                                         *)
(* A connection sets up a track at most once, so <<c, t>> names the        *)
(* RtpInstance of connection c for track t.  A deleted one stays in        *)
(* memory: what the timer thread then reads there is undefined, and is     *)
(* taken to be either what was there or an instance that is not alive.     *)
(* Interleaved data of the client ('$') changes nothing and is left out;   *)
(* so is multicast, which main() does not start.                           *)
(***************************************************************************)
EXTENDS Integers, SequencesExt

CONSTANTS Conns,  \* RtspConnection objects
          Tracks, \* TrackId0 and TrackId1
          Fds,    \* descriptors of sockets
          Tries   \* how often createRtpRtcpOverUdp tries, 10 in the code

NoFd == "none"

ASSUME SessionAssumption == /\ IsFiniteSet(Conns) /\ IsFiniteSet(Tracks)
                            /\ NoFd \notin Fds
                            /\ Tries \in Nat \ {0}

VARIABLES
  state,         \* [c]: "none", "open", "closing" (in mDisConnList), "deleting"
                 \* (in ~RtspConnection) or "deleted"
  mClientFd,     \* [c]: the descriptor of a connection that is not deleted
  mIsRtpOverTcp, \* [c]: the transport of the tracks that are set up next
  mSuffix,       \* [c]: TRUE if the last request's path names the session
  attempt,       \* the locals of createRtpRtcpOverUdp while it runs, or NoAttempt
  rtp,           \* [c][t]: the RtpInstance and RtcpInstance, or NoInstance
  mTracks,       \* [t]: the connections whose instances are in the track's list
  iter,          \* handleSendRtpPacket's track and position, or Idle
  wire,          \* where the last packet arrived: <<connection, track>>, or Nowhere
  played,        \* [c]: tracks that were set up when PLAY was answered
  watching,      \* [c]: those of them for which no TEARDOWN came since
  sockets        \* descriptors that are open

history  == <<played, watching>>
requests == <<mIsRtpOverTcp, mSuffix, history>>
sender   == <<iter, wire>>
vars == <<state, mClientFd, requests, attempt, rtp, mTracks, sender, sockets>>

NoInstance == [fd |-> NoFd]
NoAttempt  == [i |-> Tries]
Nowhere    == << >>
Idle       == [pos |-> 0]

(* i counts the tries; the sockets of this one are created and then bound, *)
(* the one for RTP first.                                                  *)
Attempts == [conn : Conns, track : Tracks, i : 0..Tries - 1,
             rtpSockfd : Fds \cup {NoFd}, rtcpSockfd : Fds \cup {NoFd},
             rtpBound : BOOLEAN]

(* fd is the client's socket for RTP over TCP.  For UDP it is a socket of  *)
(* its own, and rtcp that of the track's RtcpInstance as long as that one  *)
(* exists; freed is the RtpInstance.                                       *)
Instances == [tcp : BOOLEAN, fd : Fds, rtcp : Fds \cup {NoFd},
              mIsAlive : BOOLEAN, freed : BOOLEAN]
SetUp(c)  == {t \in Tracks : rtp[c][t] # NoInstance}
Open      == {c \in Conns : state[c] = "open"}

TypeOK == /\ state \in [Conns -> {"none", "open", "closing", "deleting", "deleted"}]
          /\ mClientFd \in [Conns -> Fds \cup {NoFd}]
          /\ mIsRtpOverTcp \in [Conns -> BOOLEAN]
          /\ mSuffix \in [Conns -> BOOLEAN]
          /\ attempt \in Attempts \cup {NoAttempt}
          /\ rtp \in [Conns -> [Tracks -> Instances \cup {NoInstance}]]
          /\ mTracks \in [Tracks -> Seq(Conns)]
          /\ \/ iter = Idle
             \/ /\ iter \in [track : Tracks, pos : Nat \ {0}]
                /\ iter.pos <= Len(mTracks[iter.track]) + 1
          /\ wire \in (Conns \X Tracks) \cup {Nowhere}
          /\ played \in [Conns -> SUBSET Tracks]
          /\ watching \in [Conns -> SUBSET Tracks]
          /\ sockets \subseteq Fds

Init == /\ state = [c \in Conns |-> "none"]
        /\ mClientFd = [c \in Conns |-> NoFd]
        /\ mIsRtpOverTcp = [c \in Conns |-> FALSE]
        /\ mSuffix = [c \in Conns |-> FALSE]
        /\ attempt = NoAttempt
        /\ rtp = [c \in Conns |-> [t \in Tracks |-> NoInstance]]
        /\ mTracks = [t \in Tracks |-> << >>]
        /\ iter = Idle
        /\ wire = Nowhere
        /\ played = [c \in Conns |-> {}]
        /\ watching = [c \in Conns |-> {}]
        /\ sockets = {}

-----------------------------------------------------------------------------
(* The main thread.  It runs one handler at a time: nothing is accepted,   *)
(* answered or deleted while createRtpRtcpOverUdp or ~RtspConnection, whose*)
(* system calls are steps of their own, is under way.  No other thread     *)
(* opens a descriptor.                                                     *)
MainIsFree == attempt = NoAttempt /\ \A c \in Conns : state[c] # "deleting"

Accept(c) ==
  /\ MainIsFree
  /\ state[c] = "none"
  /\ \E fd \in Fds \ sockets :
       /\ mClientFd' = [mClientFd EXCEPT ![c] = fd]
       /\ sockets' = sockets \cup {fd}
  /\ state' = [state EXCEPT ![c] = "open"]
  /\ UNCHANGED <<attempt, rtp, mTracks, requests, sender>>

(* If the reply cannot be sent the connection is given up.                 *)
Reply(c, sent) ==
  /\ state' = IF sent THEN state ELSE [state EXCEPT ![c] = "closing"]
  /\ UNCHANGED <<mClientFd, sender>>

(* A request came in, and its path does or does not name the session.      *)
Handle(c, names) ==
  /\ MainIsFree
  /\ state[c] = "open"
  /\ mSuffix' = [mSuffix EXCEPT ![c] = names]

OptionsOrDescribe(c, names) ==
  /\ Handle(c, names)
  /\ Reply(c, TRUE)
  /\ UNCHANGED <<attempt, rtp, mTracks, mIsRtpOverTcp, history, sockets>>

(* The request cannot be parsed, or the handler fails before it has changed*)
(* anything; parseSetup may have chosen the transport, and parseRequest1   *)
(* the path, by then.                                                      *)
Reject(c, names, tcp) ==
  /\ Handle(c, names)
  /\ Reply(c, FALSE)
  /\ mIsRtpOverTcp' = [mIsRtpOverTcp EXCEPT ![c] = @ \/ tcp]
  /\ UNCHANGED <<attempt, rtp, mTracks, history, sockets>>

SetsUpAgain(c, t) == TRUE  \* mutant of CanSetup
CanSetup(c, t) == rtp[c][t] = NoInstance

(* The constructor of RtpInstance: nothing is sent before PLAY.            *)
BornAlive(tcp, fd, rtcp) ==  \* mutant of NewInstance
  [tcp |-> tcp, fd |-> fd, rtcp |-> rtcp, mIsAlive |-> TRUE, freed |-> FALSE]
NewInstance(tcp, fd, rtcp) ==
  [tcp |-> tcp, fd |-> fd, rtcp |-> rtcp, mIsAlive |-> FALSE, freed |-> FALSE]

(* The rest of handleCmdSetup, once there is an instance.                  *)
AddRtpInstance(c, t, instance) ==
  /\ rtp' = [rtp EXCEPT ![c][t] = instance]
  /\ mTracks' = [mTracks EXCEPT ![t] = Append(@, c)]

(* SETUP: the path is that of a track and names no session.  It asks for   *)
(* TCP, or for UDP: then the flag stays as it is, and TCP is used if an    *)
(* earlier request asked for it.  createRtpOverTcp takes the socket of the *)
(* client.                                                                 *)
SetupTcp(c, t, tcp, sent) ==
  /\ Handle(c, FALSE)
  /\ Reply(c, sent)
  /\ CanSetup(c, t)
  /\ mIsRtpOverTcp[c] \/ tcp
  /\ mIsRtpOverTcp' = [mIsRtpOverTcp EXCEPT ![c] = TRUE]
  /\ AddRtpInstance(c, t, NewInstance(TRUE, mClientFd[c], NoFd))
  /\ UNCHANGED <<attempt, history, sockets>>

(* createRtpRtcpOverUdp begins.                                            *)
SetupUdp(c, t) ==
  /\ Handle(c, FALSE)
  /\ CanSetup(c, t)
  /\ ~mIsRtpOverTcp[c]
  /\ attempt' = [conn |-> c, track |-> t, i |-> 0,
                 rtpSockfd |-> NoFd, rtcpSockfd |-> NoFd, rtpBound |-> FALSE]
  /\ UNCHANGED <<state, mClientFd, rtp, mTracks, mIsRtpOverTcp, history, sender, sockets>>

Creating == attempt # NoAttempt /\ attempt.rtcpSockfd = NoFd
Binding  == attempt # NoAttempt /\ attempt.rtcpSockfd # NoFd

CreateUdpSock ==
  /\ Creating
  /\ \E fd \in Fds \ sockets :
       /\ sockets' = sockets \cup {fd}
       /\ attempt' = IF attempt.rtpSockfd = NoFd
                       THEN [attempt EXCEPT !.rtpSockfd = fd]
                       ELSE [attempt EXCEPT !.rtcpSockfd = fd]
  /\ UNCHANGED <<state, mClientFd, rtp, mTracks, requests, sender>>

GiveUp == attempt' = NoAttempt /\ state' = [state EXCEPT ![attempt.conn] = "closing"]

(* There is no socket for RTP, or none for RTCP: then the one for RTP, if  *)
(* there is one, is closed.                                                *)
CreateFails ==
  /\ Creating
  /\ sockets' = sockets \ {attempt.rtpSockfd}
  /\ GiveUp
  /\ UNCHANGED <<mClientFd, rtp, mTracks, requests, sender>>

BindRtp ==
  /\ Binding
  /\ ~attempt.rtpBound
  /\ attempt' = [attempt EXCEPT !.rtpBound = TRUE]
  /\ UNCHANGED <<state, mClientFd, rtp, mTracks, requests, sender, sockets>>

TryAgain == IF attempt.i + 1 < Tries
              THEN /\ attempt' = [attempt EXCEPT !.i = @ + 1, !.rtpSockfd = NoFd,
                                                  !.rtcpSockfd = NoFd, !.rtpBound = FALSE]
                   /\ UNCHANGED state
              ELSE GiveUp

(* Mutant of BindFails: the socket for RTCP is not bound yet, nor closed.  *)
KeepsRtcp ==
  /\ Binding
  /\ sockets' = sockets \ {attempt.rtpSockfd}
  /\ TryAgain
  /\ UNCHANGED <<mClientFd, rtp, mTracks, requests, sender>>

(* The first bind fails, or the second one.                                *)
BindFails ==
  /\ Binding
  /\ sockets' = sockets \ {attempt.rtpSockfd, attempt.rtcpSockfd}
  /\ TryAgain
  /\ UNCHANGED <<mClientFd, rtp, mTracks, requests, sender>>

(* Both sockets are bound: handleCmdSetup goes on.                         *)
BindRtcp(sent) ==
  /\ Binding
  /\ attempt.rtpBound
  /\ Reply(attempt.conn, sent)
  /\ AddRtpInstance(attempt.conn, attempt.track,
                    NewInstance(FALSE, attempt.rtpSockfd, attempt.rtcpSockfd))
  /\ attempt' = NoAttempt
  /\ UNCHANGED <<requests, sockets>>

CreateRtpRtcpOverUdp == \/ CreateUdpSock \/ CreateFails \/ BindRtp \/ BindFails
                        \/ \E sent \in BOOLEAN : BindRtcp(sent)

UdpOnly(c, t) == t \in SetUp(c) /\ ~rtp[c][t].tcp  \* mutant of Enlivened
Enlivened(c, t) == t \in SetUp(c)

(* PLAY: all instances of the connection come alive.                       *)
Play(c, names) ==
  /\ Handle(c, names)
  /\ Reply(c, TRUE)
  /\ rtp' = [rtp EXCEPT ![c] = [t \in Tracks |->
               IF Enlivened(c, t) THEN [@[t] EXCEPT !.mIsAlive = TRUE] ELSE @[t]]]
  /\ played' = [played EXCEPT ![c] = SetUp(c)]
  /\ watching' = [watching EXCEPT ![c] = SetUp(c)]
  /\ UNCHANGED <<attempt, mTracks, mIsRtpOverTcp, sockets>>

(* TEARDOWN: a reply.  The instances stay alive.                           *)
Teardown(c, names) ==
  /\ Handle(c, names)
  /\ Reply(c, TRUE)
  /\ watching' = [watching EXCEPT ![c] = {}]
  /\ UNCHANGED <<attempt, rtp, mTracks, mIsRtpOverTcp, played, sockets>>

(* The client closed the connection.                                       *)
HandleDisConnect(c) ==
  /\ MainIsFree
  /\ state[c] = "open"
  /\ Reply(c, FALSE)
  /\ UNCHANGED <<attempt, rtp, mTracks, requests, sockets>>

(* MediaSession::removeRtpInstance erases the entry from a copy of the     *)
(* list.                                                                   *)
RemoveRtpInstance(list, c) == LET item == Remove(list, c) IN list

(* ~RtspConnection, called by the close trigger event.  The tracks are     *)
(* taken in any order.                                                     *)
Delete(c) ==
  /\ MainIsFree
  /\ state[c] = "closing"
  /\ state' = [state EXCEPT ![c] = "deleting"]
  /\ UNCHANGED <<mClientFd, attempt, rtp, mTracks, requests, sender, sockets>>

(* ~RtpInstance closes its socket, which may be the one of the client.     *)
DeleteRtpInstance(c, t) ==
  /\ state[c] = "deleting"
  /\ t \in SetUp(c)
  /\ ~rtp[c][t].freed
  /\ mTracks' = IF mSuffix[c]
       THEN [u \in Tracks |-> RemoveRtpInstance(mTracks[u], c)]
       ELSE mTracks
  /\ rtp' = [rtp EXCEPT ![c][t].freed = TRUE]
  /\ sockets' = sockets \ {rtp[c][t].fd}
  /\ UNCHANGED <<state, mClientFd, attempt, requests, sender>>

DeleteRtcpInstance(c, t) ==
  /\ state[c] = "deleting"
  /\ t \in SetUp(c)
  /\ rtp[c][t].freed
  /\ rtp[c][t].rtcp # NoFd
  /\ rtp' = [rtp EXCEPT ![c][t].rtcp = NoFd]
  /\ sockets' = sockets \ {rtp[c][t].rtcp}
  /\ UNCHANGED <<state, mClientFd, attempt, mTracks, requests, sender>>

(* ~TcpConnection closes the socket of the client, although an instance    *)
(* over TCP has done so.                                                   *)
CloseClient(c) ==
  /\ state[c] = "deleting"
  /\ \A t \in SetUp(c) : rtp[c][t].freed /\ rtp[c][t].rtcp = NoFd
  /\ state' = [state EXCEPT ![c] = "deleted"]
  /\ mClientFd' = [mClientFd EXCEPT ![c] = NoFd]
  /\ sockets' = sockets \ {mClientFd[c]}
  /\ UNCHANGED <<attempt, rtp, mTracks, requests, sender>>

Destroy(c) == \/ Delete(c) \/ CloseClient(c)
              \/ \E t \in Tracks : DeleteRtpInstance(c, t) \/ DeleteRtcpInstance(c, t)

-----------------------------------------------------------------------------
(* The timer thread: MediaSession::handleSendRtpPacket for a packet of     *)
(* track t.                                                                *)

StartSend(t) ==
  /\ iter = Idle
  /\ iter' = [track |-> t, pos |-> 1]
  /\ UNCHANGED <<state, mClientFd, attempt, rtp, mTracks, requests, wire, sockets>>

AtEnd == iter.pos > Len(mTracks[iter.track])

EndSend ==
  /\ iter # Idle
  /\ AtEnd
  /\ iter' = Idle
  /\ UNCHANGED <<state, mClientFd, attempt, rtp, mTracks, requests, wire, sockets>>

(* Where a packet goes that is sent with the instance of connection c: to  *)
(* the client of that instance, or, with a socket that was closed or is a  *)
(* client's, to whoever is at the other end of the descriptor now, and     *)
(* nowhere if it is closed.                                                *)
Receivers(c, t) ==
  IF rtp[c][t].tcp \/ rtp[c][t].freed
    THEN {d \in Conns : mClientFd[d] = rtp[c][t].fd /\ rtp[c][t].fd \in sockets}
    ELSE {c}

Sends(c) ==
  LET t == iter.track IN
  /\ iter # Idle /\ ~AtEnd
  /\ c = mTracks[t][iter.pos]
  /\ rtp[c][t].mIsAlive
  /\ wire' \in IF Receivers(c, t) = {} THEN {Nowhere} ELSE Receivers(c, t) \X {t}

(* The instance is not alive, or was deleted and no longer looks alive.    *)
Skips(c) ==
  LET t == iter.track IN
  /\ iter # Idle /\ ~AtEnd
  /\ c = mTracks[t][iter.pos]
  /\ ~rtp[c][t].mIsAlive \/ rtp[c][t].freed
  /\ wire' = Nowhere

SendToNext(c) ==
  /\ Sends(c) \/ Skips(c)
  /\ iter' = [iter EXCEPT !.pos = @ + 1]
  /\ UNCHANGED <<state, mClientFd, attempt, rtp, mTracks, requests, sockets>>

-----------------------------------------------------------------------------
Request(c) ==
  \/ \E names \in BOOLEAN :
       \/ OptionsOrDescribe(c, names)
       \/ Play(c, names)
       \/ Teardown(c, names)
       \/ \E tcp \in BOOLEAN : Reject(c, names, tcp)
  \/ \E t \in Tracks : \/ \E tcp \in BOOLEAN, sent \in BOOLEAN : SetupTcp(c, t, tcp, sent)
                       \/ SetupUdp(c, t)
  \/ HandleDisConnect(c)

Timer == EndSend \/ \E c \in Conns : SendToNext(c)

Next == \/ \E c \in Conns : Accept(c) \/ Request(c) \/ Destroy(c)
        \/ CreateRtpRtcpOverUdp
        \/ \E t \in Tracks : StartSend(t)
        \/ Timer

Spec == Init /\ [][Next]_vars

(* The timer of each track goes off again and again, and the timer thread  *)
(* goes on.  Clients and the main thread do as they like.                  *)
FairSpec == /\ Spec
            /\ WF_vars(Timer)
            /\ \A t \in Tracks : SF_vars(StartSend(t))

-----------------------------------------------------------------------------
(* Properties.                                                             *)

(* An instance is in its track's list once, so that its client gets each   *)
(* packet once, from its SETUP to its deletion.                            *)
ListedOnce ==
  \A t \in Tracks :
    /\ IsInjective(mTracks[t])
    /\ \A c \in Conns : t \in SetUp(c) /\ ~rtp[c][t].freed =>
                          Contains(mTracks[t], c)

(* The types, and the lists.                                               *)
Inv == TypeOK /\ ListedOnce

(* What c may still close: the socket of its client, those of its          *)
(* instances, and those that it is trying to bind.                         *)
InstanceFds(c, t) == {rtp[c][t].rtcp} \cup (IF rtp[c][t].freed THEN {} ELSE {rtp[c][t].fd})
Tried(c) == IF attempt # NoAttempt /\ attempt.conn = c
              THEN {attempt.rtpSockfd, attempt.rtcpSockfd}
              ELSE {}
Kept(c) == {fd \in Fds : \/ fd = mClientFd[c]
                         \/ \E t \in SetUp(c) : fd \in InstanceFds(c, t)}
Held(c) == Kept(c) \cup (Fds \cap Tried(c))

(* Whichever socket, bind or reply fails, and whatever a destructor closes *)
(* a second time: no open socket is forgotten, a connection that is not    *)
(* being deleted has its sockets open, and none closes a descriptor that   *)
(* was given to another one meanwhile.                                     *)
SocketsOwned ==
  /\ sockets \subseteq UNION {Held(c) : c \in Conns}
  /\ \A c \in Conns : state[c] # "deleting" => Held(c) \subseteq sockets
  /\ \A c, d \in Conns : c # d => Held(c) \cap Held(d) = {}

Arrives(c, t) == /\ iter # Idle /\ iter' # Idle
                 /\ iter'.pos = iter.pos + 1
                 /\ iter.track = t
                 /\ wire' = <<c, t>>

(* What is sent with an instance that was not deleted goes to the client   *)
(* that set it up, over a track for which its PLAY was answered: PLAY is   *)
(* handled by another thread than the one that sends.                      *)
SentToItsClient ==
  [][\A c, d \in Conns, t \in Tracks :
       Sends(c) /\ Arrives(d, t) /\ ~rtp[c][t].freed =>
         c = d /\ t \in played[c]]_vars

(* A client that plays a track gets its packets until it sends TEARDOWN or *)
(* leaves.  That they go on after TEARDOWN, which by the comment at        *)
(* RtspConnection.cpp:156 ends the session, is not asked for.              *)
PlayedIsServed ==
  \A c \in Conns, t \in Tracks :
    c \in Open /\ t \in watching[c] ~>
      c \notin Open \/ t \notin watching[c] \/ wire = <<c, t>>

(* MediaSession.cpp:107: what is sent without further checks was made      *)
(* alive by handleCmdPlay, so a client gets packets only after its PLAY.   *)
(* The code breaks this.                                                   *)
PacketsAfterPlay ==
  [][\A c \in Conns, t \in Tracks : Arrives(c, t) => t \in played[c]]_vars
=============================================================================
