------------------------- MODULE RtspSessionProofs --------------------------
(***************************************************************************)
(* Proofs about RtspSession, for any number of connections, tracks and     *)
(* descriptors.                                                            *)
(***************************************************************************)
EXTENDS RtspSession, TLAPS

(* A connection has a descriptor from its acceptance to its deletion.      *)
OwnFd == \A c \in Conns : /\ state[c] = "open" => mClientFd[c] \in Fds
                          /\ state[c] = "none" => mClientFd[c] = NoFd

(* An instance is deleted with its connection, and over TCP it has the     *)
(* descriptor of its connection until then.                                *)
OfItsConn ==
  \A c \in Conns : \A t \in SetUp(c) :
    /\ state[c] # "none"
    /\ rtp[c][t].freed => state[c] \in {"deleting", "deleted"}
    /\ ~rtp[c][t].freed /\ rtp[c][t].tcp => rtp[c][t].fd = mClientFd[c]

(* createRtpRtcpOverUdp runs for an open connection whose track is not set *)
(* up, while no connection is deleted; it opens the socket for RTP first.  *)
OneAtATime ==
  attempt # NoAttempt =>
    /\ state[attempt.conn] = "open"
    /\ \A c \in Conns : state[c] # "deleting"
    /\ attempt.track \notin SetUp(attempt.conn)
    /\ attempt.rtpSockfd = NoFd => attempt.rtcpSockfd = NoFd

(* Its sockets are none that the connection had before.                    *)
Fresh == \A c \in Conns : Tried(c) \cap Kept(c) = {}

(* Only PLAY brings instances to life.                                     *)
AliveIsPlayed ==
  \A c \in Conns : \A t \in SetUp(c) : rtp[c][t].mIsAlive => t \in played[c]

(* What a list holds was set up.                                           *)
ListedIsSetUp ==
  \A t \in Tracks, c \in Conns : Contains(mTracks[t], c) => t \in SetUp(c)

IInv == /\ TypeOK /\ OwnFd /\ OfItsConn /\ OneAtATime /\ Fresh /\ AliveIsPlayed
        /\ ListedOnce /\ ListedIsSetUp /\ SocketsOwned

-----------------------------------------------------------------------------
(* An instance is told apart from none by its descriptor.                  *)
LEMMA InstanceIsSome == NoInstance \notin Instances
  BY SessionAssumption DEF NoInstance, Instances

(* An attempt is told apart from none by its connection.                   *)
LEMMA AttemptIsSome == NoAttempt \notin Attempts
  BY DEF NoAttempt, Attempts

(* A connection is added to a list that does not have it.                  *)
LEMMA AppendNew ==
  ASSUME NEW q \in Seq(Conns), NEW e \in Conns
  PROVE  /\ Append(q, e) \in Seq(Conns)
         /\ Len(Append(q, e)) = Len(q) + 1
         /\ \A c \in Conns : Contains(Append(q, e), c) <=> Contains(q, c) \/ c = e
         /\ IsInjective(q) /\ ~Contains(q, e) => IsInjective(Append(q, e))
<1>1. \A i \in 1..Len(q) + 1 : Append(q, e)[i] = IF i = Len(q) + 1 THEN e ELSE q[i]
      OBVIOUS
<1>2. Append(q, e) \in Seq(Conns) /\ Len(Append(q, e)) = Len(q) + 1
      OBVIOUS
<1>3. \A c \in Conns : Contains(Append(q, e), c) <=> Contains(q, c) \/ c = e
      BY <1>1, <1>2 DEF Contains
<1>4. ASSUME IsInjective(q), ~Contains(q, e) PROVE IsInjective(Append(q, e))
      BY <1>1, <1>2, <1>4 DEF IsInjective, Contains
<1> QED BY <1>2, <1>3, <1>4

(* removeRtpInstance leaves the list as it is.                             *)
LEMMA NothingIsRemoved == \A q, c : RemoveRtpInstance(q, c) = q
  BY DEF RemoveRtpInstance

(* A descriptor that is kept names an open socket of its connection.        *)
LEMMA HeldIsKept ==
  /\ \A c \in Conns : Kept(c) \subseteq Fds /\ Held(c) \subseteq Fds /\ Kept(c) \subseteq Held(c)
  /\ \A c \in Conns : Tried(c) = {} => Held(c) = Kept(c)
  BY DEF Kept, Held

(* What a connection holds depends on itself and on its attempt.           *)
LEMMA SameHeld ==
  ASSUME NEW d \in Conns, rtp'[d] = rtp[d], mClientFd'[d] = mClientFd[d]
  PROVE  /\ SetUp(d)' = SetUp(d) /\ Kept(d)' = Kept(d)
         /\ Tried(d)' = Tried(d) => Held(d)' = Held(d)
  BY DEF SetUp, Kept, InstanceFds, Held

(* Nothing is opened, closed or handed over.                               *)
LEMMA SocketsStay ==
  ASSUME SocketsOwned, sockets' = sockets,
         \A d \in Conns : /\ Held(d)' = Held(d)
                          /\ state[d] = "deleting" => state'[d] = "deleting"
  PROVE  SocketsOwned'
  BY DEF SocketsOwned

(* One connection opens, hands over or closes: what it gains belongs to no *)
(* other one, what it loses is closed, and what others hold stays open.    *)
LEMMA OneChanges ==
  ASSUME SocketsOwned, NEW c \in Conns, NEW S,
         \A d \in Conns \ {c} : /\ Held(d)' = Held(d) /\ state'[d] = state[d]
                                /\ S \cap Held(d) = {},
         Held(c)' \subseteq Held(c) \cup S,
         sockets' \subseteq sockets \cup Held(c)',
         sockets \cap sockets' \cap Held(c) \subseteq Held(c)',
         sockets \ Held(c) \subseteq sockets',
         state'[c] # "deleting" => Held(c)' \subseteq sockets'
  PROVE  SocketsOwned'
<1>1. sockets' \subseteq UNION {Held(d)' : d \in Conns}
  <2> SUFFICES ASSUME NEW x \in sockets', x \notin Held(c)'
               PROVE  \E d \in Conns : x \in Held(d)'
      OBVIOUS
  <2>1. x \in sockets /\ x \notin Held(c)
        OBVIOUS
  <2>2. PICK d \in Conns : x \in Held(d)
        BY <2>1 DEF SocketsOwned
  <2> QED BY <2>1, <2>2
<1>2. \A d \in Conns : state'[d] # "deleting" => Held(d)' \subseteq sockets'
  <2> SUFFICES ASSUME NEW d \in Conns \ {c}, state'[d] # "deleting"
               PROVE  Held(d)' \subseteq sockets'
      OBVIOUS
  <2>1. Held(d) \subseteq sockets /\ Held(d) \cap Held(c) = {}
        BY DEF SocketsOwned
  <2> QED BY <2>1
<1>3. \A d, e \in Conns : d # e => Held(d)' \cap Held(e)' = {}
  <2>1. \A d \in Conns \ {c} : Held(d)' \cap Held(c)' = {}
        BY DEF SocketsOwned
  <2> QED BY <2>1 DEF SocketsOwned
<1> QED BY <1>1, <1>2, <1>3 DEF SocketsOwned

(* One connection closes.                                                  *)
LEMMA OneCloses ==
  ASSUME SocketsOwned, NEW c \in Conns,
         \A d \in Conns \ {c} : Held(d)' = Held(d) /\ state'[d] = state[d],
         Held(c)' \subseteq Held(c), sockets' \subseteq sockets,
         sockets' \cap Held(c) \subseteq Held(c)',
         sockets \ Held(c) \subseteq sockets',
         state'[c] = "deleting" \/ Held(c)' = {}
  PROVE  SocketsOwned'
<1> DEFINE S == {}
<1>1. /\ \A d \in Conns \ {c} : S \cap Held(d) = {}
      /\ Held(c)' \subseteq Held(c) \cup S
      /\ sockets' \subseteq sockets \cup Held(c)'
      /\ sockets \cap sockets' \cap Held(c) \subseteq Held(c)'
      /\ state'[c] # "deleting" => Held(c)' \subseteq sockets'
      OBVIOUS
<1> HIDE DEF S
<1> QED BY <1>1, OneChanges

(* No two connections have the same descriptor.                            *)
LEMMA FdsDiffer ==
  ASSUME IInv, NEW c \in Conns, NEW d \in Conns, mClientFd[c] \in Fds,
         mClientFd[c] = mClientFd[d]
  PROVE  c = d
<1>1. mClientFd[c] \in Held(c) /\ mClientFd[d] \in Held(d)
      BY DEF Held, Kept
<1> QED BY <1>1 DEF IInv, SocketsOwned

(* Nobody is connected, and nothing set up.                                *)
LEMMA Initial == Init => IInv
<1> SUFFICES ASSUME Init PROVE IInv
    OBVIOUS
<1>1. TypeOK
      BY DEF Init, TypeOK
<1>2. \A c \in Conns : SetUp(c) = {} /\ Tried(c) = {}
      BY DEF Init, SetUp, Tried
<1>3. OwnFd /\ OneAtATime /\ Fresh
      BY <1>2 DEF Init, OwnFd, OneAtATime, Fresh
<1>4. ListedOnce /\ ListedIsSetUp
      BY <1>2 DEF Init, ListedOnce, ListedIsSetUp, Contains, IsInjective
<1>5. SocketsOwned
  <2>1. \A c \in Conns : Held(c) = {}
        BY <1>2, SessionAssumption DEF Init, Held, Kept
  <2> QED BY <2>1 DEF Init, SocketsOwned
<1> QED BY <1>1, <1>2, <1>3, <1>4, <1>5 DEF IInv, OfItsConn, AliveIsPlayed

-----------------------------------------------------------------------------
(* The parts of the invariant speak of the connections' state and fields,  *)
(* of their instances, of the attempt and of the lists; a step that leaves *)
(* these alone, but for giving connections up, keeps the parts.            *)
LEMMA QuietKeeps ==
  ASSUME IInv, TypeOK',
         UNCHANGED <<mClientFd, attempt, rtp, mTracks, played, sockets>>,
         \/ state' = state
         \/ /\ attempt = NoAttempt
            /\ \A c \in Conns : \/ state'[c] = state[c]
                                \/ state[c] = "open" /\ state'[c] = "closing"
                                \/ state[c] = "closing" /\ state'[c] = "deleting"
  PROVE  IInv'
<1> USE DEF IInv
<1>1. \A c \in Conns : /\ SetUp(c)' = SetUp(c) /\ Tried(c)' = Tried(c)
                       /\ Kept(c)' = Kept(c) /\ Held(c)' = Held(c)
      BY SameHeld DEF Tried
<1>2. SocketsOwned'
      BY <1>1, SocketsStay
<1>3. OwnFd'
      BY DEF OwnFd
<1>4. OfItsConn' /\ AliveIsPlayed'
      BY <1>1 DEF OfItsConn, AliveIsPlayed
<1>5. ListedOnce' /\ ListedIsSetUp'
      BY <1>1 DEF ListedOnce, ListedIsSetUp
<1>6. OneAtATime' /\ Fresh'
  <2>1. Fresh'
        BY <1>1 DEF Fresh
  <2>2. CASE state' = state
        BY <1>1, <2>1, <2>2 DEF OneAtATime, SetUp
  <2>3. CASE attempt = NoAttempt
        BY <2>1, <2>3 DEF OneAtATime
  <2> QED BY <2>2, <2>3
<1> QED BY <1>2, <1>3, <1>4, <1>5, <1>6

(* A connection is accepted with a descriptor that was free.               *)
LEMMA AcceptKeeps == ASSUME IInv, NEW c \in Conns, Accept(c) PROVE IInv'
<1> USE DEF IInv
<1>1. PICK fd \in Fds \ sockets : /\ mClientFd' = [mClientFd EXCEPT ![c] = fd]
                                  /\ sockets' = sockets \cup {fd}
      BY DEF Accept
<1>2. /\ MainIsFree /\ state[c] = "none" /\ state' = [state EXCEPT ![c] = "open"]
      /\ UNCHANGED <<attempt, rtp, mTracks, requests, sender>>
      BY DEF Accept
<1>3. TypeOK'
      BY <1>1, <1>2 DEF TypeOK, requests, history, sender
<1>4. \A d \in Conns : SetUp(d)' = SetUp(d) /\ Tried(d)' = {} /\ Tried(d) = {}
      BY <1>2 DEF SetUp, Tried, MainIsFree
<1>5. SetUp(c) = {}
      BY <1>2 DEF OfItsConn, SetUp
<1>6. /\ mClientFd'[c] = fd /\ state'[c] = "open"
      /\ \A d \in Conns \ {c} : mClientFd'[d] = mClientFd[d] /\ state'[d] = state[d]
      BY <1>1, <1>2 DEF TypeOK
<1>7. OwnFd'
      BY <1>1, <1>6 DEF OwnFd
<1>8. OfItsConn' /\ AliveIsPlayed' /\ OneAtATime' /\ Fresh'
      BY <1>2, <1>4, <1>5, <1>6
      DEF OfItsConn, AliveIsPlayed, requests, history, OneAtATime, MainIsFree, Fresh
<1>9. ListedOnce' /\ ListedIsSetUp'
      BY <1>2, <1>4 DEF ListedOnce, ListedIsSetUp
<1>10. SocketsOwned'
  <2>1. Held(c)' = {fd} /\ Held(c) = {}
    <3>1. mClientFd[c] = NoFd /\ fd # NoFd
          BY <1>2, SessionAssumption DEF OwnFd
    <3>2. Held(c) = {}
          BY <1>4, <1>5, <3>1, SessionAssumption DEF Held, Kept
    <3>3. SetUp(c)' = {}
          BY <1>4, <1>5
    <3> QED BY <1>4, <1>6, <3>2, <3>3 DEF Held, Kept
  <2>2. \A d \in Conns \ {c} : Held(d)' = Held(d) /\ Held(d) \subseteq sockets
        BY <1>2, <1>4, <1>6, SameHeld DEF SocketsOwned, MainIsFree
  <2> QED BY <1>1, <1>6, <2>1, <2>2, OneChanges
<1> QED BY <1>3, <1>7, <1>8, <1>9, <1>10

-----------------------------------------------------------------------------
(* addRtpInstance, for an instance that has the descriptors its connection *)
(* holds already: that of the client, or those of the attempt.             *)
LEMMA AddKeeps ==
  ASSUME IInv, NEW c \in Conns, NEW t \in Tracks, NEW sent \in BOOLEAN,
         NEW new \in Instances, ~new.mIsAlive, ~new.freed,
         new.tcp => new.fd = mClientFd[c],
         state[c] = "open", t \notin SetUp(c),
         \A d \in Conns : state[d] # "deleting",
         AddRtpInstance(c, t, new), Reply(c, sent),
         attempt' = NoAttempt, \A d \in Conns \ {c} : Tried(d) = {},
         Held(c) = Kept(c) \cup (Fds \cap {new.fd, new.rtcp}),
         mIsRtpOverTcp' \in [Conns -> BOOLEAN], mSuffix' \in [Conns -> BOOLEAN],
         UNCHANGED <<history, sockets>>
  PROVE  IInv'
<1> USE DEF IInv
<1>1. /\ rtp' = [rtp EXCEPT ![c][t] = new]
      /\ mTracks' = [mTracks EXCEPT ![t] = Append(@, c)]
      /\ state' \in {state, [state EXCEPT ![c] = "closing"]}
      /\ UNCHANGED <<mClientFd, iter, wire, played, watching, sockets>>
      BY DEF AddRtpInstance, Reply, history, sender
<1>2. new # NoInstance
      BY InstanceIsSome
<1>3. /\ mTracks'[t] = Append(mTracks[t], c)
      /\ \A u \in Tracks \ {t} : mTracks'[u] = mTracks[u]
      /\ mTracks[t] \in Seq(Conns)
      /\ \A d \in Conns : Contains(mTracks'[t], d) <=> Contains(mTracks[t], d) \/ d = c
      /\ IsInjective(mTracks[t]) /\ ~Contains(mTracks[t], c) => IsInjective(mTracks'[t])
  <2>1. mTracks'[t] = Append(mTracks[t], c) /\ mTracks[t] \in Seq(Conns)
        BY <1>1 DEF TypeOK
  <2>2. \A u \in Tracks \ {t} : mTracks'[u] = mTracks[u]
        BY <1>1 DEF TypeOK
  <2> QED BY <2>1, <2>2, AppendNew
<1>4. /\ rtp'[c][t] = new
      /\ \A d \in Conns, u \in Tracks : <<d, u>> # <<c, t>> => rtp'[d][u] = rtp[d][u]
      /\ \A d \in Conns \ {c} : rtp'[d] = rtp[d]
      /\ rtp' \in [Conns -> [Tracks -> Instances \cup {NoInstance}]]
      BY <1>1, <1>2 DEF TypeOK
<1>5. /\ SetUp(c)' = SetUp(c) \cup {t}
      /\ \A d \in Conns \ {c} : SetUp(d)' = SetUp(d)
  <2>1. SetUp(c)' = SetUp(c) \cup {t}
        BY <1>2, <1>4 DEF SetUp
  <2> QED BY <1>4, <2>1 DEF SetUp
<1>6. TypeOK'
  <2>1. mTracks' \in [Tracks -> Seq(Conns)]
        BY <1>1, <1>3 DEF TypeOK
  <2>2. ASSUME iter # Idle PROVE iter'.pos <= Len(mTracks'[iter'.track]) + 1
        BY <1>1, <1>3, <2>2, AppendNew DEF TypeOK
  <2>3. state' \in [Conns -> {"none", "open", "closing", "deleting", "deleted"}]
        BY <1>1 DEF TypeOK
  <2> QED BY <1>1, <1>4, <2>1, <2>2, <2>3 DEF TypeOK
<1>7. \A d \in Conns : state'[d] = state[d] \/ (d = c /\ state'[d] = "closing")
      BY <1>1 DEF TypeOK
<1>8. OwnFd'
      BY <1>1, <1>7 DEF OwnFd
<1>9. OfItsConn'
      BY <1>1, <1>4, <1>5, <1>7 DEF OfItsConn
<1>10. AliveIsPlayed'
      BY <1>1, <1>4, <1>5 DEF AliveIsPlayed
<1>11. ~Contains(mTracks[t], c)
      BY <1>5 DEF ListedIsSetUp
<1>12. ListedOnce'
  <2>1. \A u \in Tracks : IsInjective(mTracks'[u])
        BY <1>3, <1>11 DEF ListedOnce
  <2>2. ASSUME NEW u \in Tracks, NEW d \in Conns, u \in SetUp(d)', ~rtp'[d][u].freed
        PROVE  Contains(mTracks'[u], d)
    <3>1. CASE u = t /\ d = c
          BY <1>3, <3>1
    <3>2. CASE u = t /\ d # c
      <4>1. t \in SetUp(d) /\ ~rtp[d][t].freed
            BY <1>4, <1>5, <2>2, <3>2
      <4>2. Contains(mTracks[t], d)
            BY <4>1 DEF ListedOnce
      <4> QED BY <1>3, <3>2, <4>2
    <3>3. CASE u # t
          BY <1>3, <1>4, <1>5, <2>2, <3>3 DEF ListedOnce
    <3> QED BY <3>1, <3>2, <3>3
  <2> QED BY <2>1, <2>2 DEF ListedOnce
<1>13. ListedIsSetUp'
  <2> SUFFICES ASSUME NEW u \in Tracks, NEW d \in Conns, Contains(mTracks'[u], d)
               PROVE  u \in SetUp(d)'
      BY DEF ListedIsSetUp
  <2>1. CASE u = t
        BY <1>3, <1>5, <2>1 DEF ListedIsSetUp
  <2>2. CASE u # t
        BY <1>3, <1>5, <2>2 DEF ListedIsSetUp
  <2> QED BY <2>1, <2>2
<1>14. \A d \in Conns : Tried(d)' = {}
      BY DEF Tried
<1>15. OneAtATime' /\ Fresh'
      BY <1>14 DEF OneAtATime, Fresh
<1>16. SocketsOwned'
  <2>1. Held(c)' = Held(c)
    <3>1. SetUp(c) \subseteq Tracks
          BY DEF SetUp
    <3>2. \A u \in SetUp(c) : InstanceFds(c, u)' = InstanceFds(c, u)
          BY <1>4, <3>1 DEF InstanceFds
    <3>3. InstanceFds(c, t)' = {new.fd, new.rtcp}
          BY <1>4 DEF InstanceFds
    <3>4. \A fd \in Fds : fd \in Held(c)' <=> fd \in Kept(c) \/ fd \in {new.fd, new.rtcp}
          BY <1>1, <1>5, <1>14, <3>2, <3>3 DEF Held, Kept
    <3>5. Held(c)' \subseteq Fds /\ Held(c) \subseteq Fds
          BY DEF Held, Kept
    <3> QED BY <3>4, <3>5
  <2>2. \A d \in Conns \ {c} : Held(d)' = Held(d)
        BY <1>1, <1>4, <1>14, SameHeld
  <2> QED BY <1>1, <2>1, <2>2, SocketsStay
<1> QED BY <1>6, <1>8, <1>9, <1>10, <1>12, <1>13, <1>15, <1>16

(* While main is free no connection tries to bind sockets.                 *)
LEMMA FreeTries == MainIsFree => \A d \in Conns : Tried(d) = {} /\ Held(d) = Kept(d)
  BY HeldIsKept DEF MainIsFree, Tried

(* SETUP over TCP adds an instance with the descriptor of its connection.  *)
LEMMA SetupTcpKeeps ==
  ASSUME IInv, NEW c \in Conns, NEW t \in Tracks, NEW tcp \in BOOLEAN, NEW sent \in BOOLEAN,
         SetupTcp(c, t, tcp, sent)
  PROVE  IInv'
<1> USE DEF IInv
<1> DEFINE new == NewInstance(TRUE, mClientFd[c], NoFd)
<1>1. /\ MainIsFree /\ state[c] = "open" /\ t \notin SetUp(c)
      /\ Reply(c, sent) /\ AddRtpInstance(c, t, new)
      /\ mSuffix' = [mSuffix EXCEPT ![c] = FALSE]
      /\ mIsRtpOverTcp' = [mIsRtpOverTcp EXCEPT ![c] = TRUE]
      /\ UNCHANGED <<attempt, history, sockets>>
      BY DEF SetupTcp, Handle, CanSetup, SetUp
<1>2. mClientFd[c] \in Fds
      BY <1>1 DEF OwnFd
<1>3. /\ new \in Instances /\ ~new.mIsAlive /\ ~new.freed
      /\ new.fd = mClientFd[c] /\ new.rtcp = NoFd
      BY <1>2 DEF NewInstance, Instances
<1> HIDE DEF new
<1>4. Held(c) = Kept(c) \cup (Fds \cap {new.fd, new.rtcp})
  <2>1. mClientFd[c] \in Kept(c)
        BY <1>2 DEF Kept
  <2> QED BY <1>1, <1>3, <2>1, FreeTries, SessionAssumption
<1>5. mIsRtpOverTcp' \in [Conns -> BOOLEAN] /\ mSuffix' \in [Conns -> BOOLEAN]
      BY <1>1 DEF TypeOK
<1>6. /\ attempt' = NoAttempt /\ \A d \in Conns : Tried(d) = {}
      /\ \A d \in Conns : state[d] # "deleting"
      BY <1>1, FreeTries DEF MainIsFree
<1> QED BY <1>1, <1>3, <1>4, <1>5, <1>6, AddKeeps

(* SETUP over UDP begins without a socket.                                 *)
LEMMA SetupUdpKeeps ==
  ASSUME IInv, NEW c \in Conns, NEW t \in Tracks, SetupUdp(c, t)
  PROVE  IInv'
<1> USE DEF IInv
<1>1. /\ MainIsFree /\ state[c] = "open" /\ t \notin SetUp(c)
      /\ attempt' = [conn |-> c, track |-> t, i |-> 0,
                     rtpSockfd |-> NoFd, rtcpSockfd |-> NoFd, rtpBound |-> FALSE]
      /\ mSuffix' = [mSuffix EXCEPT ![c] = FALSE]
      /\ UNCHANGED <<state, mClientFd, rtp, mTracks, mIsRtpOverTcp, history, sender, sockets>>
      BY DEF SetupUdp, Handle, CanSetup, SetUp
<1>2. attempt' \in Attempts /\ attempt'.conn = c /\ attempt'.track = t
      BY <1>1, SessionAssumption DEF Attempts
<1>3. TypeOK'
      BY <1>1, <1>2 DEF TypeOK, history, sender
<1>4. \A d \in Conns : SetUp(d)' = SetUp(d) /\ Kept(d)' = Kept(d)
      BY <1>1, SameHeld
<1>5. \A d \in Conns : Tried(d)' \subseteq {NoFd}
      BY <1>1 DEF Tried
<1>6. \A d \in Conns : Held(d)' = Held(d)
      BY <1>1, <1>4, <1>5, FreeTries, SessionAssumption DEF Held
<1>7. OwnFd' /\ OfItsConn' /\ AliveIsPlayed' /\ ListedOnce' /\ ListedIsSetUp'
  <2>1. OwnFd'
        BY <1>1 DEF OwnFd
  <2>2. OfItsConn'
        BY <1>1, <1>4 DEF OfItsConn
  <2>3. AliveIsPlayed'
        BY <1>1, <1>4 DEF AliveIsPlayed, history
  <2> QED BY <1>1, <1>4, <2>1, <2>2, <2>3 DEF ListedOnce, ListedIsSetUp
<1>8. OneAtATime'
      BY <1>1, <1>2, <1>4 DEF OneAtATime, MainIsFree
<1>9. Fresh'
      BY <1>4, <1>5, HeldIsKept, SessionAssumption DEF Fresh
<1>10. SocketsOwned'
      BY <1>1, <1>6, SocketsStay
<1> QED BY <1>3, <1>7, <1>8, <1>9, <1>10

(* A step of createRtpRtcpOverUdp before its end.  It goes on or gives up; *)
(* it closes the sockets that it forgets, and those it adds were free.     *)
LEMMA AttemptKeeps ==
  ASSUME IInv, attempt # NoAttempt,
         \/ /\ attempt' = NoAttempt
            /\ state' = [state EXCEPT ![attempt.conn] = "closing"]
         \/ /\ attempt' \in Attempts /\ state' = state
            /\ attempt'.conn = attempt.conn /\ attempt'.track = attempt.track
            /\ attempt'.rtpSockfd = NoFd => attempt'.rtcpSockfd = NoFd,
         UNCHANGED <<mClientFd, rtp, mTracks, requests, sender>>,
         Tried(attempt.conn)' \cap sockets \subseteq Tried(attempt.conn),
         sockets' = (sockets \ Tried(attempt.conn)) \cup (Fds \cap Tried(attempt.conn)')
  PROVE  IInv'
<1> USE DEF IInv
<1>0. attempt \in Attempts /\ attempt.track \in Tracks /\ attempt.conn \in Conns
      BY DEF TypeOK, Attempts
<1>1. PICK c \in Conns : attempt.conn = c
      BY <1>0
<1>2. /\ state[c] = "open" /\ \A d \in Conns : state[d] # "deleting"
      /\ attempt.track \notin SetUp(c)
      BY <1>1 DEF OneAtATime
<1>3. \A d \in Conns : state'[d] = state[d] \/ (d = c /\ state'[d] = "closing")
      BY <1>1 DEF TypeOK
<1>4. TypeOK'
  <2>1. state' \in [Conns -> {"none", "open", "closing", "deleting", "deleted"}]
        BY <1>1 DEF TypeOK
  <2>2. sockets' \subseteq Fds
        BY DEF TypeOK
  <2> QED BY <2>1, <2>2 DEF TypeOK, requests, history, sender
<1>5. \A d \in Conns : SetUp(d)' = SetUp(d) /\ Kept(d)' = Kept(d)
      BY SameHeld
<1>6. OwnFd' /\ OfItsConn' /\ AliveIsPlayed' /\ ListedOnce' /\ ListedIsSetUp'
  <2>1. OwnFd'
        BY <1>3 DEF OwnFd
  <2>2. OfItsConn'
        BY <1>2, <1>3, <1>5 DEF OfItsConn
  <2>3. AliveIsPlayed'
        BY <1>5 DEF AliveIsPlayed, requests, history
  <2> QED BY <1>5, <2>1, <2>2, <2>3 DEF ListedOnce, ListedIsSetUp
<1>7. OneAtATime'
  <2>1. CASE attempt' = NoAttempt
        BY <2>1 DEF OneAtATime
  <2>2. CASE attempt' # NoAttempt
        BY <1>1, <1>2, <1>5, <2>2 DEF OneAtATime
  <2> QED BY <2>1, <2>2
<1>8. \A d \in Conns \ {c} : Tried(d) = {} /\ Tried(d)' = {}
      BY <1>1 DEF Tried
<1>9. Kept(c) \subseteq sockets /\ Held(c) = Kept(c) \cup (Fds \cap Tried(c))
      BY <1>1, <1>2 DEF SocketsOwned, Held
<1>10. /\ Tried(c)' \cap sockets \subseteq Tried(c)
       /\ sockets' = (sockets \ Tried(c)) \cup (Fds \cap Tried(c)')
  <2>1. Tried(attempt.conn)' = Tried(c)'
    <3>1. CASE attempt' = NoAttempt
          BY <3>1 DEF Tried
    <3>2. CASE attempt'.conn = attempt.conn
          BY <1>1, <3>2 DEF Tried
    <3> QED BY <3>1, <3>2
  <2> QED BY <1>1, <2>1
<1>11. Tried(c) \cap Kept(c) = {} /\ Tried(c)' \cap Kept(c) = {}
      BY <1>1, <1>9, <1>10 DEF Fresh
<1>12. Fresh'
      BY <1>5, <1>8, <1>11 DEF Fresh
<1>13. SocketsOwned'
  <2>1. Held(c)' = Kept(c) \cup (Fds \cap Tried(c)')
        BY <1>1, <1>5 DEF Held
  <2>2. \A d \in Conns \ {c} : Held(d)' = Held(d) /\ Held(d) \subseteq sockets
        BY <1>2, <1>5, <1>8 DEF Held, SocketsOwned
  <2> DEFINE S == Tried(c)' \ Tried(c)
  <2>3. \A d \in Conns \ {c} : S \cap Held(d) = {}
        BY <1>10, <2>2
  <2>4. /\ Held(c)' \subseteq Held(c) \cup S
        /\ sockets' \subseteq sockets \cup Held(c)'
        /\ sockets \cap sockets' \cap Held(c) \subseteq Held(c)'
        /\ sockets \ Held(c) \subseteq sockets'
        /\ Held(c)' \subseteq sockets'
    <3>1. sockets \subseteq Fds
          BY DEF TypeOK
    <3> QED BY <1>9, <1>10, <1>11, <2>1, <3>1
  <2> HIDE DEF S
  <2> QED BY <1>1, <1>3, <2>2, <2>3, <2>4, OneChanges
<1> QED BY <1>4, <1>6, <1>7, <1>12, <1>13

(* createUdpSock and bind, until the sockets are bound or given up.        *)
LEMMA CreatingKeeps ==
  ASSUME IInv, \/ CreateUdpSock \/ CreateFails \/ BindRtp \/ BindFails
  PROVE  IInv'
<1> USE DEF IInv
<1>1. attempt # NoAttempt /\ attempt \in Attempts
      BY DEF CreateUdpSock, CreateFails, BindRtp, BindFails, Creating, Binding, TypeOK
<1>2. /\ attempt.conn \in Conns /\ attempt.i \in 0..Tries - 1
      /\ attempt.rtpSockfd \in Fds \cup {NoFd} /\ attempt.rtcpSockfd \in Fds \cup {NoFd}
      BY <1>1 DEF Attempts
<1> DEFINE Old == {attempt.rtpSockfd, attempt.rtcpSockfd}
<1>3. Tried(attempt.conn) = Old
      BY <1>1 DEF Tried
<1>4. Fds \cap Old \subseteq sockets
      BY <1>1, <1>2, <1>3 DEF OneAtATime, SocketsOwned, Held
<1>5. NoFd \notin sockets /\ sockets \subseteq Fds /\ NoFd \notin Fds
      BY SessionAssumption DEF TypeOK
<1>6. ASSUME CreateUdpSock PROVE IInv'
  <2>1. PICK fd \in Fds \ sockets :
          /\ sockets' = sockets \cup {fd}
          /\ attempt' = IF attempt.rtpSockfd = NoFd
                          THEN [attempt EXCEPT !.rtpSockfd = fd]
                          ELSE [attempt EXCEPT !.rtcpSockfd = fd]
        BY <1>6 DEF CreateUdpSock
  <2>2. attempt.rtcpSockfd = NoFd /\ fd # NoFd
        BY <1>5, <1>6 DEF CreateUdpSock, Creating
  <2>3. /\ attempt' \in Attempts
        /\ attempt'.conn = attempt.conn /\ attempt'.track = attempt.track
        /\ attempt'.rtpSockfd = NoFd => attempt'.rtcpSockfd = NoFd
        /\ {attempt'.rtpSockfd, attempt'.rtcpSockfd} \ {NoFd} = (Old \ {NoFd}) \cup {fd}
        /\ attempt' # NoAttempt
    <3>1. CASE attempt.rtpSockfd = NoFd
      <4>1. attempt' = [attempt EXCEPT !.rtpSockfd = fd]
            BY <2>1, <3>1
      <4>2. /\ attempt' \in Attempts /\ attempt'.rtpSockfd = fd
            /\ attempt'.rtcpSockfd = attempt.rtcpSockfd
            /\ attempt'.conn = attempt.conn /\ attempt'.track = attempt.track
            BY <1>1, <4>1 DEF Attempts
      <4> QED BY <2>2, <3>1, <4>2, AttemptIsSome
    <3>2. CASE attempt.rtpSockfd # NoFd
      <4>1. attempt' = [attempt EXCEPT !.rtcpSockfd = fd]
            BY <2>1, <3>2
      <4>2. /\ attempt' \in Attempts /\ attempt'.rtcpSockfd = fd
            /\ attempt'.rtpSockfd = attempt.rtpSockfd
            /\ attempt'.conn = attempt.conn /\ attempt'.track = attempt.track
            BY <1>1, <4>1 DEF Attempts
      <4> QED BY <2>2, <3>2, <4>2, AttemptIsSome
    <3> QED BY <3>1, <3>2
  <2>4. Tried(attempt.conn)' = {attempt'.rtpSockfd, attempt'.rtcpSockfd}
        BY <2>3 DEF Tried
  <2>5. state' = state /\ UNCHANGED <<mClientFd, rtp, mTracks, requests, sender>>
        BY <1>6 DEF CreateUdpSock
  <2> HIDE DEF Old
  <2>6. /\ Tried(attempt.conn)' \cap sockets \subseteq Tried(attempt.conn)
        /\ sockets' = (sockets \ Tried(attempt.conn)) \cup (Fds \cap Tried(attempt.conn)')
        BY <1>3, <1>4, <1>5, <2>1, <2>3, <2>4
  <2> QED BY <1>1, <2>3, <2>5, <2>6, AttemptKeeps
<1>7. ASSUME GiveUp, sockets' = sockets \ Old,
             UNCHANGED <<mClientFd, rtp, mTracks, requests, sender>>
      PROVE  IInv'
  <2>1. Tried(attempt.conn)' = {}
        BY <1>7 DEF Tried, GiveUp
  <2> QED BY <1>1, <1>3, <1>7, <2>1, AttemptKeeps DEF GiveUp
<1>8. ASSUME CreateFails PROVE IInv'
  <2>1. sockets' = sockets \ Old
        BY <1>5, <1>8 DEF CreateFails, Creating
  <2> QED BY <1>7, <1>8, <2>1 DEF CreateFails
<1>9. ASSUME BindRtp PROVE IInv'
  <2>1. attempt' = [attempt EXCEPT !.rtpBound = TRUE] /\ attempt.rtcpSockfd # NoFd
        BY <1>9 DEF BindRtp, Binding
  <2>2. /\ attempt' \in Attempts
        /\ attempt'.conn = attempt.conn /\ attempt'.track = attempt.track
        /\ attempt'.rtpSockfd = attempt.rtpSockfd /\ attempt'.rtcpSockfd = attempt.rtcpSockfd
        BY <1>1, <2>1 DEF Attempts
  <2>3. Tried(attempt.conn)' = Old
        BY <2>2, AttemptIsSome DEF Tried
  <2>4. state' = state /\ sockets' = sockets
        /\ UNCHANGED <<mClientFd, rtp, mTracks, requests, sender>>
        BY <1>9 DEF BindRtp
  <2>5. attempt'.rtpSockfd = NoFd => attempt'.rtcpSockfd = NoFd
        BY <1>1, <2>2 DEF OneAtATime
  <2> HIDE DEF Old
  <2>6. sockets' = (sockets \ Tried(attempt.conn)) \cup (Fds \cap Tried(attempt.conn)')
        BY <1>3, <1>4, <1>5, <2>3, <2>4
  <2> QED BY <1>1, <1>3, <2>2, <2>3, <2>4, <2>5, <2>6, AttemptKeeps
<1>10. ASSUME BindFails PROVE IInv'
  <2>1. TryAgain /\ sockets' = sockets \ Old
        /\ UNCHANGED <<mClientFd, rtp, mTracks, requests, sender>>
        BY <1>10 DEF BindFails
  <2>2. CASE attempt.i + 1 < Tries
    <3>1. /\ attempt' = [attempt EXCEPT !.i = @ + 1, !.rtpSockfd = NoFd,
                                        !.rtcpSockfd = NoFd, !.rtpBound = FALSE]
          /\ state' = state
          BY <2>1, <2>2 DEF TryAgain
    <3>2. attempt.i + 1 \in 0..Tries - 1
          BY <1>2, <2>2, SessionAssumption
    <3>3. /\ attempt' \in Attempts
          /\ attempt'.conn = attempt.conn /\ attempt'.track = attempt.track
          /\ attempt'.rtpSockfd = NoFd /\ attempt'.rtcpSockfd = NoFd
          BY <1>1, <3>1, <3>2 DEF Attempts
    <3>4. Tried(attempt.conn)' = {NoFd}
          BY <3>3, AttemptIsSome DEF Tried
    <3> HIDE DEF Old
    <3>5. /\ Tried(attempt.conn)' \cap sockets \subseteq Tried(attempt.conn)
          /\ sockets' = (sockets \ Tried(attempt.conn)) \cup (Fds \cap Tried(attempt.conn)')
          BY <1>3, <1>5, <2>1, <3>4
    <3> QED BY <1>1, <2>1, <3>1, <3>3, <3>5, AttemptKeeps
  <2>3. CASE ~(attempt.i + 1 < Tries)
        BY <1>7, <2>1, <2>3 DEF TryAgain
  <2> QED BY <2>2, <2>3
<1> QED BY <1>6, <1>8, <1>9, <1>10

(* With both sockets bound, the instance takes them over.                  *)
LEMMA BindRtcpKeeps ==
  ASSUME IInv, NEW sent \in BOOLEAN, BindRtcp(sent)
  PROVE  IInv'
<1> USE DEF IInv
<1>1. attempt # NoAttempt /\ attempt.rtcpSockfd # NoFd /\ attempt \in Attempts
      BY DEF BindRtcp, Binding, TypeOK
<1>2. PICK c \in Conns, t \in Tracks : attempt.conn = c /\ attempt.track = t
      BY <1>1 DEF Attempts
<1> DEFINE new == NewInstance(FALSE, attempt.rtpSockfd, attempt.rtcpSockfd)
<1>3. /\ Reply(c, sent) /\ AddRtpInstance(c, t, new)
      /\ attempt' = NoAttempt
      /\ UNCHANGED <<requests, sockets>>
      BY <1>2 DEF BindRtcp
<1>4. /\ state[c] = "open" /\ \A d \in Conns : state[d] # "deleting"
      /\ t \notin SetUp(c) /\ attempt.rtpSockfd # NoFd
      BY <1>1, <1>2 DEF OneAtATime
<1>5. /\ new \in Instances /\ ~new.mIsAlive /\ ~new.freed /\ ~new.tcp
      /\ new.fd = attempt.rtpSockfd /\ new.rtcp = attempt.rtcpSockfd
      BY <1>1, <1>4 DEF NewInstance, Instances, Attempts
<1>6. /\ Tried(c) = {attempt.rtpSockfd, attempt.rtcpSockfd}
      /\ \A d \in Conns \ {c} : Tried(d) = {}
      BY <1>1, <1>2 DEF Tried
<1> HIDE DEF new
<1>7. Held(c) = Kept(c) \cup (Fds \cap {new.fd, new.rtcp})
      BY <1>5, <1>6 DEF Held
<1>8. mIsRtpOverTcp' \in [Conns -> BOOLEAN] /\ mSuffix' \in [Conns -> BOOLEAN]
      BY <1>3 DEF TypeOK, requests
<1>9. UNCHANGED <<history, sockets>>
      BY <1>3 DEF requests
<1> QED BY <1>3, <1>4, <1>5, <1>6, <1>7, <1>8, <1>9, AddKeeps

-----------------------------------------------------------------------------
SameSockets(i, j) == /\ i.tcp = j.tcp /\ i.fd = j.fd
                     /\ i.rtcp = j.rtcp /\ i.freed = j.freed

(* PLAY changes mIsAlive only, of instances that count as played from now. *)
LEMMA PlayKeeps ==
  ASSUME IInv, NEW c \in Conns, NEW names \in BOOLEAN, Play(c, names)
  PROVE  IInv'
<1> USE DEF IInv
<1> DEFINE woken(t) == IF t \in SetUp(c) THEN [rtp[c][t] EXCEPT !.mIsAlive = TRUE] ELSE rtp[c][t]
<1>1. /\ state[c] = "open" /\ state' = state /\ MainIsFree
      /\ mSuffix' = [mSuffix EXCEPT ![c] = names]
      /\ rtp' = [rtp EXCEPT ![c] = [t \in Tracks |-> woken(t)]]
      /\ played' = [played EXCEPT ![c] = SetUp(c)]
      /\ watching' = [watching EXCEPT ![c] = SetUp(c)]
      /\ UNCHANGED <<mClientFd, attempt, mTracks, mIsRtpOverTcp, sockets, sender>>
      BY DEF Play, Handle, Reply, Enlivened, TypeOK
<1>2. ASSUME NEW t \in Tracks
      PROVE  /\ woken(t) \in Instances \cup {NoInstance}
             /\ woken(t) = NoInstance <=> rtp[c][t] = NoInstance
             /\ t \in SetUp(c) => SameSockets(woken(t), rtp[c][t])
  <2>1. rtp[c][t] \in Instances \cup {NoInstance}
        BY DEF TypeOK
  <2>2. CASE t \in SetUp(c)
    <3>1. rtp[c][t] \in Instances
          BY <2>1, <2>2 DEF SetUp
    <3>2. /\ woken(t) \in Instances
          /\ SameSockets(woken(t), rtp[c][t])
          BY <2>2, <3>1 DEF Instances, SameSockets
    <3> QED BY <3>1, <3>2, InstanceIsSome
  <2>3. CASE t \notin SetUp(c)
        BY <2>1, <2>3
  <2> QED BY <2>2, <2>3
<1>3. /\ \A t \in Tracks : rtp'[c][t] = woken(t)
      /\ \A d \in Conns \ {c} : rtp'[d] = rtp[d]
      BY <1>1 DEF TypeOK
<1>4. rtp' \in [Conns -> [Tracks -> Instances \cup {NoInstance}]]
      BY <1>1, <1>2 DEF TypeOK
<1> HIDE DEF woken
<1>5. \A d \in Conns : SetUp(d)' = SetUp(d)
      BY <1>2, <1>3 DEF SetUp
<1>6. \A d \in Conns : \A t \in SetUp(d) : SameSockets(rtp'[d][t], rtp[d][t])
      BY <1>2, <1>3 DEF SetUp, SameSockets
<1>7. TypeOK'
  <2>1. SetUp(c) \in SUBSET Tracks
        BY DEF SetUp
  <2>2. /\ played' \in [Conns -> SUBSET Tracks] /\ watching' \in [Conns -> SUBSET Tracks]
        /\ mSuffix' \in [Conns -> BOOLEAN]
        BY <1>1, <2>1 DEF TypeOK
  <2> QED BY <1>1, <1>4, <2>2 DEF TypeOK, sender
<1>8. OwnFd' /\ OfItsConn'
      BY <1>1, <1>5, <1>6 DEF OwnFd, OfItsConn, SameSockets
<1>9. AliveIsPlayed'
  <2>1. /\ played'[c] = SetUp(c)
        /\ \A d \in Conns \ {c} : played'[d] = played[d]
        BY <1>1 DEF TypeOK
  <2> QED BY <1>3, <1>5, <2>1 DEF AliveIsPlayed
<1>10. ListedOnce'
  <2>1. mTracks' = mTracks
        BY <1>1
  <2>2. ASSUME NEW t \in Tracks, NEW d \in Conns, t \in SetUp(d)', ~rtp'[d][t].freed
        PROVE  Contains(mTracks[t], d)
        BY <1>5, <1>6, <2>2 DEF ListedOnce, SameSockets
  <2> QED BY <2>1, <2>2 DEF ListedOnce
<1>11. ListedIsSetUp'
      BY <1>1, <1>5 DEF ListedIsSetUp
<1>12. \A d \in Conns : Kept(d)' = Kept(d)
  <2> SUFFICES ASSUME NEW d \in Conns PROVE Kept(d)' = Kept(d)
      OBVIOUS
  <2>1. \A t \in SetUp(d) : InstanceFds(d, t)' = InstanceFds(d, t)
        BY <1>6 DEF InstanceFds, SameSockets
  <2> QED BY <1>1, <1>5, <2>1 DEF Kept
<1>13. \A d \in Conns : Tried(d) = {} /\ Tried(d)' = {}
      BY <1>1 DEF Tried, MainIsFree
<1>14. OneAtATime' /\ Fresh'
      BY <1>1, <1>13 DEF OneAtATime, Fresh, MainIsFree
<1>15. SocketsOwned'
  <2>1. \A d \in Conns : Held(d)' = Held(d)
        BY <1>12, <1>13 DEF Held
  <2> QED BY <1>1, <2>1, SocketsStay
<1> QED BY <1>7, <1>8, <1>9, <1>10, <1>11, <1>14, <1>15

-----------------------------------------------------------------------------
(* A destructor closes one descriptor of an instance, and the lists stay.  *)
LEMMA FreeKeeps ==
  ASSUME IInv, NEW c \in Conns, NEW t \in SetUp(c), state[c] = "deleting",
         NEW x \in Instances, x.freed, x.mIsAlive = rtp[c][t].mIsAlive,
         x.rtcp \in {rtp[c][t].rtcp, NoFd},
         NEW gone, InstanceFds(c, t) \subseteq {gone, x.rtcp, NoFd},
         rtp' = [rtp EXCEPT ![c][t] = x],
         sockets' = sockets \ {gone},
         gone \in InstanceFds(c, t),
         UNCHANGED <<state, mClientFd, attempt, mTracks, requests, sender>>
  PROVE  IInv'
<1> USE DEF IInv
<1>1. x # NoInstance /\ t \in Tracks /\ attempt = NoAttempt
      BY InstanceIsSome DEF SetUp, OneAtATime
<1>2. /\ rtp'[c][t] = x
      /\ \A u \in Tracks \ {t} : rtp'[c][u] = rtp[c][u]
      /\ \A d \in Conns \ {c} : rtp'[d] = rtp[d]
      /\ rtp' \in [Conns -> [Tracks -> Instances \cup {NoInstance}]]
      BY <1>1 DEF TypeOK
<1>3. \A d \in Conns : SetUp(d)' = SetUp(d)
      BY <1>1, <1>2 DEF SetUp
<1>4. \A d \in Conns : \A u \in SetUp(d) :
        \/ d = c /\ u = t
        \/ rtp'[d][u] = rtp[d][u]
      BY <1>2 DEF SetUp
<1>5. TypeOK'
      BY <1>2 DEF TypeOK, requests, history, sender
<1>6. OwnFd' /\ OneAtATime'
      BY <1>1 DEF OwnFd, OneAtATime
<1>7. OfItsConn'
      BY <1>2, <1>3, <1>4 DEF OfItsConn
<1>8. AliveIsPlayed'
      BY <1>2, <1>3, <1>4 DEF AliveIsPlayed, requests, history
<1>9. ListedOnce' /\ ListedIsSetUp'
      BY <1>2, <1>3, <1>4 DEF ListedOnce, ListedIsSetUp
<1>10. \A d \in Conns : /\ Tried(d) = {} /\ Tried(d)' = {}
                        /\ Held(d) = Kept(d) /\ Held(d)' = Kept(d)'
      BY <1>1 DEF Tried, Held
<1>11. Fresh'
      BY <1>10 DEF Fresh
<1>12. SocketsOwned'
  <2>1. \A d \in Conns \ {c} : Held(d)' = Held(d)
        BY <1>2, <1>10, SameHeld
  <2>2. \A u \in SetUp(c) \ {t} : InstanceFds(c, u)' = InstanceFds(c, u)
        BY <1>4 DEF InstanceFds
  <2>3. InstanceFds(c, t)' = {x.rtcp}
        BY <1>2 DEF InstanceFds
  <2>4. rtp[c][t].rtcp \in InstanceFds(c, t)
        BY DEF InstanceFds
  <2>5. Kept(c)' \subseteq Kept(c)
    <3> SUFFICES ASSUME NEW fd \in Fds, fd \in Kept(c)' PROVE fd \in Kept(c)
        BY DEF Kept
    <3>1. fd = mClientFd[c] \/ \E u \in SetUp(c) : fd \in InstanceFds(c, u)'
          BY <1>3 DEF Kept
    <3>2. fd # NoFd
          BY SessionAssumption
    <3> QED BY <2>2, <2>3, <2>4, <3>1, <3>2 DEF Kept
  <2>6. \A fd \in Kept(c) : fd = gone \/ fd \in Kept(c)'
    <3> SUFFICES ASSUME NEW fd \in Fds, fd \in Kept(c), fd # gone PROVE fd \in Kept(c)'
        BY DEF Kept
    <3>1. fd = mClientFd[c] \/ \E u \in SetUp(c) : fd \in InstanceFds(c, u)
          BY DEF Kept
    <3>2. fd # NoFd
          BY SessionAssumption
    <3>3. fd = mClientFd[c] \/ \E u \in SetUp(c) : fd \in InstanceFds(c, u)'
          BY <2>2, <2>3, <3>1, <3>2
    <3> QED BY <1>3, <3>3 DEF Kept
  <2>7. sockets \ Held(c) \subseteq sockets'
    <3>1. gone \in Fds => gone \in Kept(c)
          BY DEF Kept
    <3>2. sockets \subseteq Fds
          BY DEF TypeOK
    <3> QED BY <1>10, <3>1, <3>2
  <2>8. /\ Held(c)' \subseteq Held(c) /\ sockets' \subseteq sockets
        /\ sockets' \cap Held(c) \subseteq Held(c)'
        BY <1>10, <2>5, <2>6
  <2> QED BY <2>1, <2>7, <2>8, OneCloses
<1> QED BY <1>5, <1>6, <1>7, <1>8, <1>9, <1>11, <1>12

(* ~RtpInstance and the destructor of the RtcpInstance.                    *)
LEMMA DeleteInstanceKeeps ==
  ASSUME IInv, NEW c \in Conns, NEW t \in Tracks,
         DeleteRtpInstance(c, t) \/ DeleteRtcpInstance(c, t)
  PROVE  IInv'
<1> USE DEF IInv
<1> DEFINE old == rtp[c][t]
<1>1. /\ state[c] = "deleting" /\ t \in SetUp(c)
      /\ UNCHANGED <<state, mClientFd, attempt, requests, sender>>
      BY DEF DeleteRtpInstance, DeleteRtcpInstance
<1>2. old \in Instances
      BY <1>1 DEF TypeOK, SetUp
<1>3. ASSUME DeleteRtpInstance(c, t) PROVE IInv'
  <2> DEFINE x == [old EXCEPT !.freed = TRUE]
  <2>1. rtp' = [rtp EXCEPT ![c][t] = x] /\ sockets' = sockets \ {old.fd} /\ ~old.freed
        BY <1>3 DEF DeleteRtpInstance, TypeOK
  <2>2. mTracks' = mTracks
    <3>1. [u \in Tracks |-> RemoveRtpInstance(mTracks[u], c)] = mTracks
          BY NothingIsRemoved DEF TypeOK
    <3> QED BY <1>3, <3>1 DEF DeleteRtpInstance
  <2>3. x \in Instances /\ x.freed /\ x.mIsAlive = old.mIsAlive /\ x.rtcp = old.rtcp
        BY <1>2 DEF Instances
  <2>4. InstanceFds(c, t) = {old.fd, x.rtcp}
        BY <2>1, <2>3 DEF InstanceFds
  <2> HIDE DEF x
  <2> QED BY <1>1, <2>1, <2>2, <2>3, <2>4, FreeKeeps
<1>4. ASSUME DeleteRtcpInstance(c, t) PROVE IInv'
  <2> DEFINE x == [old EXCEPT !.rtcp = NoFd]
  <2>1. /\ rtp' = [rtp EXCEPT ![c][t] = x] /\ sockets' = sockets \ {old.rtcp}
        /\ old.freed /\ mTracks' = mTracks
        BY <1>4 DEF DeleteRtcpInstance, TypeOK
  <2>2. x \in Instances /\ x.freed /\ x.mIsAlive = old.mIsAlive /\ x.rtcp = NoFd
        BY <1>2, <2>1 DEF Instances
  <2>3. InstanceFds(c, t) = {old.rtcp}
        BY <2>1 DEF InstanceFds
  <2> HIDE DEF x
  <2> QED BY <1>1, <2>1, <2>2, <2>3, FreeKeeps
<1> QED BY <1>3, <1>4

(* ~TcpConnection closes what is left.                                     *)
LEMMA CloseClientKeeps == ASSUME IInv, NEW c \in Conns, CloseClient(c) PROVE IInv'
<1> USE DEF IInv
<1>1. /\ state[c] = "deleting" /\ state' = [state EXCEPT ![c] = "deleted"]
      /\ mClientFd' = [mClientFd EXCEPT ![c] = NoFd]
      /\ sockets' = sockets \ {mClientFd[c]}
      /\ \A t \in SetUp(c) : rtp[c][t].freed /\ rtp[c][t].rtcp = NoFd
      /\ UNCHANGED <<attempt, rtp, mTracks, requests, sender>>
      BY DEF CloseClient
<1>2. attempt = NoAttempt
      BY <1>1 DEF OneAtATime
<1>3. /\ mClientFd'[c] = NoFd /\ NoFd \notin Fds /\ state'[c] = "deleted"
      /\ \A d \in Conns \ {c} : mClientFd'[d] = mClientFd[d] /\ state'[d] = state[d]
      BY <1>1, SessionAssumption DEF TypeOK
<1>4. TypeOK'
  <2>1. /\ state' \in [Conns -> {"none", "open", "closing", "deleting", "deleted"}]
        /\ mClientFd' \in [Conns -> Fds \cup {NoFd}]
        BY <1>1 DEF TypeOK
  <2> QED BY <1>1, <2>1 DEF TypeOK, requests, history, sender
<1>5. \A d \in Conns : SetUp(d)' = SetUp(d) /\ Tried(d) = {} /\ Tried(d)' = {}
      BY <1>1, <1>2 DEF SetUp, Tried
<1>6. OwnFd' /\ OneAtATime' /\ Fresh'
      BY <1>1, <1>2, <1>3, <1>5 DEF OwnFd, OneAtATime, Fresh
<1>7. OfItsConn'
      BY <1>1, <1>3, <1>5 DEF OfItsConn
<1>8. AliveIsPlayed' /\ ListedOnce' /\ ListedIsSetUp'
      BY <1>1, <1>5 DEF AliveIsPlayed, requests, history, ListedOnce, ListedIsSetUp
<1>9. SocketsOwned'
  <2>1. \A d \in Conns \ {c} : Held(d)' = Held(d)
        BY <1>1, <1>3, <1>5, SameHeld
  <2>2. \A t \in SetUp(c) : InstanceFds(c, t) = {NoFd} /\ InstanceFds(c, t)' = {NoFd}
        BY <1>1 DEF InstanceFds
  <2>3. Held(c)' = {} /\ Held(c) = Fds \cap {mClientFd[c]}
    <3>1. \A fd \in Fds : fd \notin Kept(c)' /\ (fd \in Kept(c) <=> fd = mClientFd[c])
          BY <1>3, <1>5, <2>2 DEF Kept
    <3>2. Kept(c) \subseteq Fds /\ Kept(c)' \subseteq Fds
          BY DEF Kept
    <3> QED BY <1>5, <3>1, <3>2 DEF Held
  <2>4. sockets \subseteq Fds
        BY DEF TypeOK
  <2>5. /\ Held(c)' \subseteq Held(c) /\ sockets' \subseteq sockets
        /\ sockets' \cap Held(c) \subseteq Held(c)'
        /\ sockets \ Held(c) \subseteq sockets'
        BY <1>1, <2>3, <2>4
  <2> QED BY <1>3, <2>1, <2>3, <2>5, OneCloses
<1> QED BY <1>4, <1>6, <1>7, <1>8, <1>9

-----------------------------------------------------------------------------
(* The other requests, the loss of a connection and the begin of its       *)
(* deletion change none of what the invariant speaks of.                   *)
LEMMA ReplyKeeps ==
  ASSUME IInv, NEW c \in Conns,
         \/ HandleDisConnect(c) \/ Delete(c)
         \/ \E names \in BOOLEAN :
              \/ OptionsOrDescribe(c, names) \/ Teardown(c, names)
              \/ \E tcp \in BOOLEAN : Reject(c, names, tcp)
  PROVE  IInv'
<1> USE DEF IInv
<1>1. /\ UNCHANGED <<mClientFd, attempt, rtp, mTracks, played, sockets, sender>>
      /\ MainIsFree
      /\ \/ state' = state
         \/ state[c] = "open" /\ state' = [state EXCEPT ![c] = "closing"]
         \/ state[c] = "closing" /\ state' = [state EXCEPT ![c] = "deleting"]
      BY DEF HandleDisConnect, Delete, OptionsOrDescribe, Teardown, Reject, Handle, Reply,
             requests, history
<1>2. mSuffix' \in [Conns -> BOOLEAN]
      BY DEF HandleDisConnect, Delete, OptionsOrDescribe, Teardown, Reject, Handle, requests, TypeOK
<1>3. mIsRtpOverTcp' \in [Conns -> BOOLEAN]
  <2>1. \A tcp \in BOOLEAN :
          [mIsRtpOverTcp EXCEPT ![c] = @ \/ tcp] \in [Conns -> BOOLEAN]
        BY DEF TypeOK
  <2> QED BY <2>1 DEF HandleDisConnect, Delete, OptionsOrDescribe, Teardown, Reject, requests, TypeOK
<1>4. watching' \in [Conns -> SUBSET Tracks]
      BY DEF HandleDisConnect, Delete, OptionsOrDescribe, Teardown, Reject, requests, history, TypeOK
<1>5. \A d \in Conns : \/ state'[d] = state[d]
                       \/ state[d] = "open" /\ state'[d] = "closing"
                       \/ state[d] = "closing" /\ state'[d] = "deleting"
      BY <1>1 DEF TypeOK
<1>6. state' \in [Conns -> {"none", "open", "closing", "deleting", "deleted"}]
      BY <1>1 DEF TypeOK
<1>7. TypeOK'
      BY <1>1, <1>2, <1>3, <1>4, <1>6 DEF TypeOK, sender
<1> QED BY <1>1, <1>5, <1>7, QuietKeeps DEF MainIsFree

(* The timer thread changes its own position and what arrives.             *)
LEMMA SenderTypes ==
  ASSUME IInv, \/ \E t \in Tracks : StartSend(t)
               \/ EndSend
               \/ \E c \in Conns : SendToNext(c)
  PROVE  /\ UNCHANGED <<state, mClientFd, attempt, rtp, mTracks, requests, sockets>>
         /\ TypeOK'
<1> USE DEF IInv
<1>1. UNCHANGED <<state, mClientFd, attempt, rtp, mTracks, requests, sockets>>
      BY DEF StartSend, EndSend, SendToNext
<1>2. ASSUME NEW t \in Tracks, StartSend(t) PROVE TypeOK'
  <2>1. iter' \in [track : Tracks, pos : Nat \ {0}] /\ iter'.pos <= Len(mTracks[iter'.track]) + 1
        BY <1>2 DEF StartSend, TypeOK
  <2> QED BY <1>1, <1>2, <2>1 DEF TypeOK, requests, history, StartSend
<1>3. CASE EndSend
      BY <1>1, <1>3 DEF TypeOK, requests, history, EndSend
<1>4. ASSUME NEW c \in Conns, SendToNext(c) PROVE TypeOK'
  <2>1. iter # Idle /\ ~AtEnd /\ iter' = [iter EXCEPT !.pos = @ + 1]
        BY <1>4 DEF SendToNext, Sends, Skips
  <2>2. iter \in [track : Tracks, pos : Nat \ {0}]
        BY <2>1 DEF TypeOK
  <2>3. /\ iter' \in [track : Tracks, pos : Nat \ {0}]
        /\ iter'.track = iter.track /\ iter'.pos = iter.pos + 1
        BY <2>1, <2>2
  <2>4. Len(mTracks[iter.track]) \in Nat
        BY <2>2 DEF TypeOK
  <2>5. iter'.pos <= Len(mTracks[iter'.track]) + 1
        BY <2>1, <2>2, <2>3, <2>4 DEF AtEnd
  <2>6. wire' \in (Conns \X Tracks) \cup {Nowhere}
    <3>1. Receivers(c, iter.track) \subseteq Conns
          BY DEF Receivers
    <3> QED BY <1>4, <2>2, <3>1 DEF SendToNext, Sends, Skips, TypeOK
  <2> QED BY <1>1, <2>3, <2>5, <2>6 DEF TypeOK, requests, history
<1> QED BY <1>1, <1>2, <1>3, <1>4

(* Every step keeps the invariant.                                         *)
LEMMA Step == IInv /\ [Next]_vars => IInv'
<1> SUFFICES ASSUME IInv, [Next]_vars PROVE IInv'
    OBVIOUS
<1>1. ASSUME NEW c \in Conns, Request(c) PROVE IInv'
  <2>1. ASSUME NEW names \in BOOLEAN, Play(c, names) PROVE IInv'
        BY <2>1, PlayKeeps
  <2>2. ASSUME NEW t \in Tracks, NEW tcp \in BOOLEAN, NEW sent \in BOOLEAN,
               SetupTcp(c, t, tcp, sent)
        PROVE  IInv'
        BY <2>2, SetupTcpKeeps
  <2>3. ASSUME NEW t \in Tracks, SetupUdp(c, t) PROVE IInv'
        BY <2>3, SetupUdpKeeps
  <2>4. CASE \/ HandleDisConnect(c)
             \/ \E names \in BOOLEAN :
                  \/ OptionsOrDescribe(c, names) \/ Teardown(c, names)
                  \/ \E tcp \in BOOLEAN : Reject(c, names, tcp)
        BY <2>4, ReplyKeeps
  <2> QED BY <1>1, <2>1, <2>2, <2>3, <2>4 DEF Request
<1>2. ASSUME NEW c \in Conns, Destroy(c) PROVE IInv'
      BY <1>2, ReplyKeeps, DeleteInstanceKeeps, CloseClientKeeps DEF Destroy
<1>3. CASE CreateRtpRtcpOverUdp
      BY <1>3, CreatingKeeps, BindRtcpKeeps DEF CreateRtpRtcpOverUdp
<1>4. CASE \/ \E t \in Tracks : StartSend(t)
           \/ Timer
  <2>1. UNCHANGED <<state, mClientFd, attempt, rtp, mTracks, requests, sockets>> /\ TypeOK'
        BY <1>4, SenderTypes DEF Timer
  <2> QED BY <2>1, QuietKeeps DEF requests, history
<1>5. CASE UNCHANGED vars
  <2>1. TypeOK'
        BY <1>5 DEF vars, requests, history, sender, IInv, TypeOK
  <2> QED BY <1>5, <2>1, QuietKeeps DEF vars, requests, history
<1> QED BY <1>1, <1>2, <1>3, <1>4, <1>5, AcceptKeeps DEF Next

(* What is sent with an instance that was not deleted has one receiver, or *)
(* none when another instance of its connection has closed the socket.     *)
LEMMA SentRight == IInv /\ [Next]_vars =>
  \A c, d \in Conns, t \in Tracks :
    Sends(c) /\ Arrives(d, t) /\ ~rtp[c][t].freed => c = d /\ t \in played[c]
<1> SUFFICES ASSUME IInv, NEW c \in Conns, NEW d \in Conns, NEW t \in Tracks,
                    Sends(c), Arrives(d, t), ~rtp[c][t].freed
             PROVE  c = d /\ t \in played[c]
    OBVIOUS
<1> USE DEF IInv
<1>1. /\ iter.track = t /\ wire' = <<d, t>> /\ rtp[c][t].mIsAlive
      /\ iter \in [track : Tracks, pos : Nat \ {0}]
      /\ c = mTracks[t][iter.pos] /\ iter.pos <= Len(mTracks[t])
      /\ wire' \in IF Receivers(c, t) = {} THEN {Nowhere} ELSE Receivers(c, t) \X {t}
  <2>1. /\ iter # Idle /\ ~AtEnd /\ iter.track = t /\ wire' = <<d, t>>
        BY DEF Sends, Arrives
  <2>2. iter \in [track : Tracks, pos : Nat \ {0}] /\ Len(mTracks[t]) \in Nat
        BY <2>1 DEF TypeOK
  <2>3. iter.pos <= Len(mTracks[t])
        BY <2>1, <2>2 DEF AtEnd
  <2> QED BY <2>1, <2>2, <2>3 DEF Sends
<1>2. t \in SetUp(c)
      BY <1>1 DEF ListedIsSetUp, Contains
<1>3. rtp[c][t] \in Instances
      BY <1>2 DEF TypeOK, SetUp
<1>4. Receivers(c, t) \subseteq {c}
  <2>1. CASE rtp[c][t].tcp
    <3>1. rtp[c][t].fd = mClientFd[c] /\ mClientFd[c] \in Fds
          BY <1>2, <1>3, <2>1 DEF OfItsConn, Instances
    <3>2. \A e \in Conns : mClientFd[e] = rtp[c][t].fd <=> e = c
          BY <3>1, FdsDiffer
    <3> QED BY <2>1, <3>2 DEF Receivers
  <2>2. CASE ~rtp[c][t].tcp
        BY <2>2 DEF Receivers
  <2> QED BY <2>1, <2>2
<1>5. <<d, t>> # Nowhere
      BY DEF Nowhere
<1>6. <<d, t>> \in {c} \X {t}
      BY <1>1, <1>4, <1>5
<1> QED BY <1>1, <1>2, <1>6 DEF AliveIsPlayed

-----------------------------------------------------------------------------
(* The types; and, however often clients set up, play and leave, an        *)
(* instance is in the list of its track once: its client gets each packet  *)
(* once.                                                                   *)
THEOREM SessionListedOnce == Spec => []Inv
<1> QED BY Initial, Step, PTL DEF Spec, IInv, Inv

(* The open sockets are those of the connections and instances that exist, *)
(* whatever fails and whoever leaves, and no two connections share one.    *)
THEOREM NoSocketLost == Spec => []SocketsOwned
<1> QED BY Initial, Step, PTL DEF Spec, IInv

(* Whatever is sent with an instance that still exists goes to the client  *)
(* of its connection, and over a track that this client plays, although    *)
(* main answers requests while the timer thread walks the list.            *)
THEOREM SentToOwnClient == Spec => SentToItsClient
<1>1. IInv /\ [Next]_vars =>
        [\A c, d \in Conns, t \in Tracks :
           Sends(c) /\ Arrives(d, t) /\ ~rtp[c][t].freed => c = d /\ t \in played[c]]_vars
      BY SentRight
<1> QED BY Initial, Step, <1>1, PTL DEF Spec, SentToItsClient
=============================================================================
