-------------------------- MODULE RtspServerProofs --------------------------
(***************************************************************************)
(* Proofs about RtspServer, for any descriptors and any number of          *)
(* connections.                                                            *)
(***************************************************************************)
EXTENDS RtspServer, FiniteSetTheorems, TLAPS

(* Removing the front of a queue shifts the others; adding puts one last.  *)
LEMMA TailElems ==
  ASSUME NEW S, NEW q \in Seq(S), q # << >>
  PROVE  /\ Head(q) \in S
         /\ Head(q) = q[1]
         /\ 1 \in DOMAIN q
         /\ Tail(q) \in Seq(S)
         /\ \A i \in DOMAIN Tail(q) : /\ i \in Nat \ {0}
                                      /\ i + 1 \in DOMAIN q
                                      /\ Tail(q)[i] = q[i + 1]
         /\ \A i \in DOMAIN q : i # 1 => i - 1 \in DOMAIN Tail(q)
  OBVIOUS

LEMMA AppendElems ==
  ASSUME NEW S, NEW q \in Seq(S), NEW e \in S
  PROVE  /\ Append(q, e) \in Seq(S)
         /\ DOMAIN Append(q, e) = DOMAIN q \cup {Len(q) + 1}
         /\ Len(q) + 1 \notin DOMAIN q
         /\ \A i \in DOMAIN q : Append(q, e)[i] = q[i]
         /\ Append(q, e)[Len(q) + 1] = e
  OBVIOUS

(* The front element leaves a queue without duplicates, and only it.       *)
LEMMA PopFront ==
  ASSUME NEW S, NEW q \in Seq(S), q # << >>, IsInjective(q)
  PROVE  /\ Head(q) \in Range(q)
         /\ Range(Tail(q)) = Range(q) \ {Head(q)}
         /\ IsInjective(Tail(q))
<1>1. \A i \in DOMAIN q : \A j \in DOMAIN q : q[i] = q[j] => i = j
      BY DEF IsInjective
<1>2. /\ Head(q) = q[1]
      /\ 1 \in DOMAIN q
      /\ \A i \in DOMAIN Tail(q) : /\ i \in Nat \ {0}
                                   /\ i + 1 \in DOMAIN q
                                   /\ Tail(q)[i] = q[i + 1]
      /\ \A i \in DOMAIN q : i \in Nat /\ (i # 1 => i - 1 \in DOMAIN Tail(q))
      BY TailElems
<1>3. \A i, j \in DOMAIN Tail(q) : Tail(q)[i] = Tail(q)[j] => i = j
      BY <1>1, <1>2
<1>4. \A i \in DOMAIN Tail(q) : Tail(q)[i] \in Range(q) \ {Head(q)}
      BY <1>1, <1>2 DEF Range
<1>5. ASSUME NEW e \in Range(q) \ {Head(q)} PROVE e \in Range(Tail(q))
  <2>1. PICK i \in DOMAIN q : q[i] = e
        BY <1>5 DEF Range
  <2>2. i # 1 /\ i - 1 \in DOMAIN Tail(q) /\ Tail(q)[i - 1] = q[(i - 1) + 1]
        BY <1>2, <1>5, <2>1
  <2>3. (i - 1) + 1 = i
        BY <1>2
  <2> QED BY <2>1, <2>2, <2>3 DEF Range
<1>6. Head(q) \in Range(q)
      BY <1>2 DEF Range
<1>7. Range(Tail(q)) = Range(q) \ {Head(q)}
      BY <1>4, <1>5 DEF Range
<1> QED BY <1>3, <1>6, <1>7 DEF IsInjective

(* A new element joins the others at the back.                             *)
LEMMA PushBack ==
  ASSUME NEW S, NEW q \in Seq(S), NEW e \in S
  PROVE  /\ Range(Append(q, e)) = Range(q) \cup {e}
         /\ IsInjective(q) /\ e \notin Range(q) => IsInjective(Append(q, e))
<1> DEFINE last == Len(q) + 1
<1>1. /\ DOMAIN Append(q, e) = DOMAIN q \cup {last}
      /\ last \notin DOMAIN q
      /\ \A i \in DOMAIN q : Append(q, e)[i] = q[i]
      /\ Append(q, e)[last] = e
      BY AppendElems
<1> HIDE DEF last
<1>2. Range(Append(q, e)) = Range(q) \cup {e}
      BY <1>1 DEF Range
<1>3. ASSUME IsInjective(q), e \notin Range(q) PROVE IsInjective(Append(q, e))
  <2>1. \A i \in DOMAIN q : q[i] # e
        BY <1>3 DEF Range
  <2> QED BY <1>1, <1>3, <2>1 DEF IsInjective
<1> QED BY <1>2, <1>3

-----------------------------------------------------------------------------
LiveFds == {fdOf[c] : c \in Live}

(* The maps of the server and of the poller have the live connections,     *)
(* each under its own descriptor, and the poller the listening socket.     *)
Maps ==
  /\ \A c \in Live : fdOf[c] \in Fds \ {ListenFd}
  /\ mConnMap \in [LiveFds -> Conns]
  /\ mEventMap \in [LiveFds \cup {ListenFd} -> Conns \cup {Listener}]
  /\ \A c \in Live : mConnMap[fdOf[c]] = c /\ mEventMap[fdOf[c]] = c
  /\ mEventMap[ListenFd] = Listener

(* Listed descriptors are those of live connections, and none is listed    *)
(* twice; a trigger event is there as long as there are any.               *)
ListIsLive ==
  /\ Range(mDisConnList) \subseteq LiveFds
  /\ IsInjective(mDisConnList)
  /\ mTriggerEvents = 0 => mDisConnList = << >>

(* What is still to be dispatched is the listener and live connections,    *)
(* each once, that are not listed yet; between the phases nothing waits.   *)
ReadyIsLive ==
  /\ Range(mIOEvents) \subseteq Live \cup {Listener}
  /\ IsInjective(mIOEvents)
  /\ \A c \in Range(mIOEvents) \cap Live : fdOf[c] \notin Range(mDisConnList)
  /\ phase # "dispatch" => mIOEvents = << >>
  /\ phase = "select" => mDisConnList = << >>

(* Clients in the listen queue are counted.                                *)
Counted == created + waiting <= MaxConns

IInv == TypeOK /\ Maps /\ ListIsLive /\ ReadyIsLive /\ Counted

-----------------------------------------------------------------------------
(* The listener is no connection, and descriptors tell connections apart.  *)
LEMMA ConnNumbers == /\ Conns \subseteq Nat \ {0}
                     /\ Listener \notin Conns
                     /\ Live \subseteq Conns
  BY ServerAssumption DEF Conns, Listener, Live

LEMMA FdsDiffer ==
  ASSUME Maps, NEW c \in Live, NEW d \in Live, fdOf[c] = fdOf[d]
  PROVE  c = d
BY DEF Maps

(* Only the listening socket is registered.                                *)
LEMMA Initial == Init => IInv
<1> SUFFICES ASSUME Init PROVE IInv
    OBVIOUS
<1>1. Live = {} /\ LiveFds = {}
      BY ServerAssumption DEF Init, Live, LiveFds, Conns
<1>2. TypeOK
  <2>0. Cardinality({ListenFd}) = 1
        BY FS_Singleton
  <2>1. Cardinality(mReadSet) <= FdSetSize
        BY <2>0, ServerAssumption DEF Init
  <2>2. Range(mConnMap) \subseteq Conns /\ Range(mEventMap) \subseteq Conns \cup {Listener}
        BY DEF Init, Empty, Range
  <2> QED BY <2>1, <2>2, ServerAssumption DEF Init, TypeOK, Empty, NoFd
<1>3. Maps
      BY <1>1 DEF Init, Maps, Empty
<1>4. ListIsLive /\ ReadyIsLive
      BY <1>1 DEF Init, ListIsLive, ReadyIsLive, IsInjective, Range
<1>5. Counted
      BY ServerAssumption DEF Init, Counted
<1> QED BY <1>2, <1>3, <1>4, <1>5 DEF IInv

(* Taking sockets out of the fd_set leaves room.                           *)
LEMMA FewerRead ==
  ASSUME TypeOK, NEW S
  PROVE  Cardinality(mReadSet \ S) <= FdSetSize
<1>1. IsFiniteSet(mReadSet)
      BY ServerAssumption, FS_Subset DEF TypeOK
<1>2. /\ Cardinality(mReadSet \ S) <= Cardinality(mReadSet)
      /\ IsFiniteSet(mReadSet \ S)
      BY <1>1, FS_Subset
<1> QED BY <1>1, <1>2, ServerAssumption, FS_CardinalityType DEF TypeOK

-----------------------------------------------------------------------------
(* A step that leaves the connections and the maps alone keeps the parts   *)
(* of the invariant that speak of these only.                              *)
LEMMA ServerKept ==
  ASSUME UNCHANGED <<server, poller>>
  PROVE  /\ Live' = Live /\ LiveFds' = LiveFds
         /\ Maps => Maps'
BY DEF server, poller, Live, LiveFds, Maps

(* Clients, and select when it times out.                                  *)
LEMMA QuietKeeps ==
  ASSUME IInv, TypeOK', Counted',
         UNCHANGED <<mTriggerEvents, mDisConnList, server, poller, mIOEvents>>,
         phase' = phase \/ (phase = "select" /\ phase' = "trigger")
  PROVE  IInv'
<1>1. Live' = Live /\ LiveFds' = LiveFds /\ Maps'
      BY ServerKept DEF IInv
<1>2. ListIsLive'
      BY <1>1 DEF IInv, ListIsLive
<1>3. fdOf' = fdOf
      BY DEF server
<1>4. ReadyIsLive'
      BY <1>1, <1>3 DEF IInv, ReadyIsLive
<1> QED BY <1>1, <1>2, <1>4 DEF IInv

LEMMA ClientsKeep ==
  ASSUME IInv, Connect \/ SelectTimeout \/ \E c \in Conns : Send(c) \/ Close(c)
  PROVE  IInv'
<1>1. TypeOK'
  <2>1. CASE Connect
        BY <2>1, ServerAssumption DEF IInv, TypeOK, Connect, server, poller
  <2>2. CASE SelectTimeout
        BY <2>2 DEF IInv, TypeOK, SelectTimeout, server, poller, clients
  <2>3. CASE \E c \in Conns : Send(c)
        BY <2>3 DEF IInv, TypeOK, Send, server, poller
  <2>4. CASE \E c \in Conns : Close(c)
        BY <2>4 DEF IInv, TypeOK, Close, server, poller
  <2> QED BY <2>1, <2>2, <2>3, <2>4
<1>2. Counted'
  <2>1. CASE Connect
        BY <2>1, ServerAssumption DEF IInv, TypeOK, Counted, Connect, server
  <2>2. UNCHANGED <<created, waiting>> => Counted'
        BY DEF IInv, Counted
  <2> QED BY <2>1, <2>2 DEF SelectTimeout, Send, Close, server, clients
<1>3. /\ UNCHANGED <<mTriggerEvents, mDisConnList, server, poller, mIOEvents>>
      /\ phase' = phase \/ (phase = "select" /\ phase' = "trigger")
      BY DEF Connect, SelectTimeout, Send, Close
<1> QED BY <1>1, <1>2, <1>3, QuietKeeps

-----------------------------------------------------------------------------
(* The ready events are those of the listener and of live connections.     *)
LEMMA SelectKeeps ==
  ASSUME IInv, Select
  PROVE  IInv'
<1> PICK fds \in InOrder(ReadyFds) : mIOEvents' = [i \in DOMAIN fds |-> mEventMap[fds[i]]]
    BY DEF Select
<1> DEFINE n == Cardinality(ReadyFds)
<1>1. n \in Nat
  <2>1. IsFiniteSet(ReadyFds)
    <3>1. ReadyFds \subseteq Fds
          BY DEF IInv, TypeOK, ReadyFds
    <3> QED BY <3>1, ServerAssumption, FS_Subset
  <2> QED BY <2>1, FS_CardinalityType
<1>2. /\ fds \in [1..n -> ReadyFds]
      /\ \A i, j \in 1..n : i < j => fds[i] < fds[j]
      BY DEF InOrder
<1>3. ReadyFds \subseteq LiveFds \cup {ListenFd} /\ ReadyFds \subseteq Nat
      BY ServerAssumption DEF IInv, Maps, TypeOK, ReadyFds
<1> HIDE DEF n
<1>4. \A i, j \in 1..n : fds[i] = fds[j] => i = j
  <2> SUFFICES ASSUME NEW i \in 1..n, NEW j \in 1..n, i < j PROVE fds[i] # fds[j]
      BY <1>1
  <2>1. fds[i] < fds[j] /\ fds[i] \in ReadyFds /\ fds[j] \in ReadyFds
        BY <1>2
  <2>2. fds[i] \in Nat /\ fds[j] \in Nat
        BY <1>3, <2>1
  <2> QED BY <2>1, <2>2
<1>5. \A fd \in LiveFds : \E c \in Live : fdOf[c] = fd /\ mEventMap[fd] = c
      BY DEF IInv, Maps, LiveFds
<1>6. /\ \A fd \in LiveFds \cup {ListenFd} : mEventMap[fd] \in Live \cup {Listener}
      /\ \A fd, gd \in LiveFds \cup {ListenFd} : mEventMap[fd] = mEventMap[gd] => fd = gd
      BY <1>5, ConnNumbers DEF IInv, Maps
<1>7. DOMAIN mIOEvents' = 1..n /\ \A i \in 1..n : mIOEvents'[i] = mEventMap[fds[i]]
      BY <1>2
<1>8. mIOEvents' \in Seq(Conns \cup {Listener})
  <2>1. \A i \in 1..n : mEventMap[fds[i]] \in Conns \cup {Listener}
        BY <1>2, <1>3, <1>6, ConnNumbers
  <2>2. mIOEvents' = [i \in 1..n |-> mEventMap[fds[i]]]
        BY <1>2
  <2> QED BY <1>1, <2>1, <2>2
<1>9. Range(mIOEvents') \subseteq Live \cup {Listener} /\ IsInjective(mIOEvents')
  <2>1. \A i \in 1..n : fds[i] \in LiveFds \cup {ListenFd}
        BY <1>2, <1>3
  <2>2. \A i \in 1..n : mIOEvents'[i] \in Live \cup {Listener}
        BY <1>6, <1>7, <2>1
  <2>3. \A i, j \in 1..n : mIOEvents'[i] = mIOEvents'[j] => i = j
        BY <1>4, <1>6, <1>7, <2>1
  <2> QED BY <1>7, <2>2, <2>3 DEF Range, IsInjective
<1>10. UNCHANGED <<server, poller>> /\ Live' = Live /\ LiveFds' = LiveFds /\ Maps'
      BY ServerKept DEF IInv, Select
<1>11. TypeOK' /\ Counted'
      BY <1>8 DEF IInv, TypeOK, Counted, Select, server, poller, clients
<1>12. ListIsLive' /\ mDisConnList' = << >> /\ phase' = "dispatch"
      BY <1>10 DEF IInv, ListIsLive, ReadyIsLive, Select
<1>13. ReadyIsLive'
      BY <1>9, <1>10, <1>12 DEF ReadyIsLive, Range
<1> QED BY <1>10, <1>11, <1>12, <1>13 DEF IInv

(* Dispatching takes the first event off.                                  *)
LEMMA DispatchTakes ==
  ASSUME IInv, NEW e \in Conns \cup {Listener}, Dispatch(e)
  PROVE  /\ e \in Live \cup {Listener}
         /\ e \in Live => fdOf[e] \notin Range(mDisConnList)
         /\ mIOEvents' \in Seq(Conns \cup {Listener})
         /\ Range(mIOEvents') = Range(mIOEvents) \ {e}
         /\ IsInjective(mIOEvents')
         /\ phase' \in {"trigger", "dispatch"}
         /\ phase' # "dispatch" => mIOEvents' = << >>
<1>1. /\ e \in Range(mIOEvents)
      /\ Range(mIOEvents') = Range(mIOEvents) \ {e}
      /\ IsInjective(mIOEvents')
      BY PopFront DEF IInv, TypeOK, ReadyIsLive, Dispatch
<1>2. mIOEvents' \in Seq(Conns \cup {Listener})
      BY TailElems DEF IInv, TypeOK, Dispatch
<1>3. phase' \in {"trigger", "dispatch"} /\ (phase' # "dispatch" => mIOEvents' = << >>)
      BY DEF Dispatch, AfterDispatch
<1> QED BY <1>1, <1>2, <1>3 DEF IInv, ReadyIsLive

(* Reading, and accepting without success, change neither maps nor lists.  *)
LEMMA ReadKeeps ==
  ASSUME IInv, AcceptFails \/ \E c \in Conns : HandleRead(c)
  PROVE  IInv'
<1>1. PICK e \in Conns \cup {Listener} : Dispatch(e)
      BY DEF AcceptFails, HandleRead
<1>2. UNCHANGED <<mTriggerEvents, mDisConnList, server, poller>>
      BY DEF AcceptFails, HandleRead
<1>3. Live' = Live /\ LiveFds' = LiveFds /\ Maps'
      BY <1>2, ServerKept DEF IInv
<1>4. TypeOK' /\ Counted'
  <2>1. waiting' = waiting /\ input' \subseteq input /\ closed' = closed
        BY DEF AcceptFails, HandleRead, clients
  <2> QED BY <1>1, <1>2, <2>1, DispatchTakes DEF IInv, TypeOK, Counted, server, poller
<1>5. ListIsLive'
      BY <1>2, <1>3 DEF IInv, ListIsLive
<1>6. ReadyIsLive'
      BY <1>1, <1>2, <1>3, DispatchTakes DEF IInv, ReadyIsLive, server
<1> QED BY <1>3, <1>4, <1>5, <1>6 DEF IInv

(* A client that is given up was live and not listed.                      *)
LEMMA DisConnectKeeps ==
  ASSUME IInv, NEW c \in Conns, HandleDisConnect(c)
  PROVE  IInv'
<1>1. Dispatch(c) /\ UNCHANGED <<server, poller, waiting, closed>>
      BY DEF HandleDisConnect
<1>2. Live' = Live /\ LiveFds' = LiveFds /\ Maps' /\ fdOf' = fdOf
      BY <1>1, ServerKept DEF IInv, server
<1>3. c \in Live /\ fdOf[c] \in Fds /\ fdOf[c] \in LiveFds
      /\ fdOf[c] \notin Range(mDisConnList)
  <2>1. c \in Live \cup {Listener} /\ (c \in Live => fdOf[c] \notin Range(mDisConnList))
        BY <1>1, DispatchTakes
  <2>2. c \in Live
        BY <2>1, ConnNumbers
  <2>3. fdOf[c] \in Fds
        BY <2>2 DEF IInv, Maps
  <2>4. fdOf[c] \in LiveFds
        BY <2>2 DEF LiveFds
  <2> QED BY <2>1, <2>2, <2>3, <2>4
<1>4. /\ mDisConnList' = Append(mDisConnList, fdOf[c])
      /\ mTriggerEvents' = mTriggerEvents + 1
      BY DEF HandleDisConnect, Listed, AddTriggerEvent
<1>5. /\ mDisConnList' \in Seq(Fds)
      /\ Range(mDisConnList') = Range(mDisConnList) \cup {fdOf[c]}
      /\ IsInjective(mDisConnList')
  <2>1. mDisConnList \in Seq(Fds) /\ IsInjective(mDisConnList)
        BY DEF IInv, TypeOK, ListIsLive
  <2> QED BY <1>3, <1>4, <2>1, AppendElems, PushBack
<1>6. TypeOK' /\ Counted'
  <2>1. input' \subseteq input
        BY DEF HandleDisConnect
  <2>2. mTriggerEvents' \in Nat
        BY <1>4 DEF IInv, TypeOK
  <2> QED BY <1>1, <1>5, <2>1, <2>2, DispatchTakes DEF IInv, TypeOK, Counted, server, poller
<1>7. ListIsLive'
  <2>1. mTriggerEvents' # 0
        BY <1>4 DEF IInv, TypeOK
  <2> QED BY <1>2, <1>3, <1>5, <2>1 DEF IInv, ListIsLive
<1>8. ReadyIsLive'
  <2>1. /\ Range(mIOEvents') = Range(mIOEvents) \ {c}
        /\ IsInjective(mIOEvents')
        /\ phase' \in {"trigger", "dispatch"}
        /\ phase' # "dispatch" => mIOEvents' = << >>
        BY <1>1, DispatchTakes
  <2>2. \A d \in Live : fdOf[d] = fdOf[c] => d = c
        BY <1>3, FdsDiffer DEF IInv
  <2>3. \A d \in Range(mIOEvents') \cap Live' : fdOf'[d] \notin Range(mDisConnList')
        BY <1>2, <1>5, <2>1, <2>2 DEF IInv, ReadyIsLive
  <2> QED BY <1>2, <2>1, <2>3 DEF IInv, ReadyIsLive
<1> QED BY <1>2, <1>6, <1>7, <1>8 DEF IInv

-----------------------------------------------------------------------------
(* A new connection gets a number and a descriptor that nobody has.        *)
LEMMA AcceptKeeps ==
  ASSUME IInv, Accept
  PROVE  IInv'
<1> DEFINE c == created + 1
<1> PICK fd \in Fds \ UsedFds :
      /\ created' = c
      /\ fdOf' = [fdOf EXCEPT ![c] = fd]
      /\ mConnMap' = Insert(mConnMap, fd, c)
      /\ mEventMap' = Insert(mEventMap, fd, c)
      /\ mReadSet' = FdSet(mReadSet \ {fd}, fd)
    BY DEF Accept
<1>1. /\ Dispatch(Listener) /\ waiting > 0 /\ waiting' = waiting - 1
      /\ UNCHANGED <<mTriggerEvents, mDisConnList, deleted, input, closed>>
      BY DEF Accept
<1>2. c \in Conns /\ c \notin Live /\ c \notin deleted /\ Live' = Live \cup {c}
  <2>1. created \in Nat /\ c \in Conns /\ waiting \in Nat
        BY <1>1, ServerAssumption DEF IInv, TypeOK, Counted, Conns
  <2>2. deleted \subseteq 1..created
        BY DEF IInv, TypeOK
  <2>3. \A d \in Conns : d <= created' <=> d <= created \/ d = c
        BY <2>1 DEF Conns
  <2>4. ~(c <= created)
        BY <2>1
  <2> QED BY <1>1, <2>1, <2>2, <2>3, <2>4 DEF Live
<1> HIDE DEF c
<1>3. fdOf \in [Conns -> Fds \cup {NoFd}]
      BY DEF IInv, TypeOK
<1>4. fdOf'[c] = fd /\ \A d \in Live : fdOf'[d] = fdOf[d]
      BY <1>2, <1>3, ConnNumbers
<1>5. fd \in Fds \ {ListenFd} /\ fd \notin LiveFds
      BY DEF UsedFds, LiveFds
<1>6. LiveFds' = LiveFds \cup {fd}
      BY <1>2, <1>4 DEF LiveFds
<1>7. /\ mConnMap' = [x \in LiveFds \cup {fd} |-> IF x = fd THEN c ELSE mConnMap[x]]
      /\ mEventMap' = [x \in LiveFds \cup {ListenFd} \cup {fd} |->
                         IF x = fd THEN c ELSE mEventMap[x]]
  <2>1. DOMAIN mConnMap = LiveFds /\ DOMAIN mEventMap = LiveFds \cup {ListenFd}
        BY DEF IInv, Maps
  <2> QED BY <1>5, <2>1 DEF Insert
<1>8. Maps'
  <2>1. \A d \in Live' : fdOf'[d] \in Fds \ {ListenFd}
        BY <1>2, <1>4, <1>5 DEF IInv, Maps
  <2>2. /\ mConnMap' \in [LiveFds' -> Conns]
        /\ mEventMap' \in [LiveFds' \cup {ListenFd} -> Conns \cup {Listener}]
        BY <1>2, <1>6, <1>7 DEF IInv, Maps
  <2>3. \A d \in Live : fdOf[d] \in LiveFds /\ fdOf[d] # fd
        BY <1>5 DEF LiveFds
  <2>4. \A d \in Live' : mConnMap'[fdOf'[d]] = d /\ mEventMap'[fdOf'[d]] = d
    <3>1. mConnMap'[fd] = c /\ mEventMap'[fd] = c
          BY <1>7
    <3>2. \A d \in Live : mConnMap'[fdOf[d]] = d /\ mEventMap'[fdOf[d]] = d
          BY <1>7, <2>3 DEF IInv, Maps
    <3> QED BY <1>2, <1>4, <3>1, <3>2
  <2>5. mEventMap'[ListenFd] = Listener
        BY <1>5, <1>7 DEF IInv, Maps
  <2> QED BY <2>1, <2>2, <2>4, <2>5 DEF Maps
<1>9. TypeOK' /\ Counted'
  <2>1. mReadSet' \subseteq Fds /\ Cardinality(mReadSet') <= FdSetSize
    <3>1. Cardinality(mReadSet \ {fd}) <= FdSetSize
          BY FewerRead DEF IInv
    <3> QED BY <3>1 DEF FdSet, IInv, TypeOK
  <2>2. waiting' \in 0..Backlog /\ created' \in 0..MaxConns /\ created' + waiting' <= MaxConns
        BY <1>1, ServerAssumption DEF IInv, TypeOK, Counted, c
  <2>3. deleted' \subseteq 1..created'
    <3>1. 1..created \subseteq 1..created'
          BY <2>2 DEF c, IInv, TypeOK
    <3> QED BY <1>1, <3>1 DEF IInv, TypeOK
  <2>4. /\ DOMAIN mConnMap' \subseteq Fds /\ Range(mConnMap') \subseteq Conns
        /\ DOMAIN mEventMap' \subseteq Fds /\ Range(mEventMap') \subseteq Conns \cup {Listener}
    <3>1. LiveFds' \subseteq Fds /\ ListenFd \in Fds
          BY <1>8, ServerAssumption DEF Maps, LiveFds
    <3> QED BY <1>8, <3>1 DEF Maps, Range
  <2>5. fdOf' \in [Conns -> Fds \cup {NoFd}]
        BY <1>2, <1>3
  <2>6. phase' \in {"trigger", "select", "dispatch"} /\ mIOEvents' \in Seq(Conns \cup {Listener})
        BY <1>1, DispatchTakes
  <2> QED BY <1>1, <2>1, <2>2, <2>3, <2>4, <2>5, <2>6 DEF IInv, TypeOK, Counted
<1>10. ListIsLive'
      BY <1>1, <1>6 DEF IInv, ListIsLive
<1>11. ReadyIsLive'
  <2>1. /\ Range(mIOEvents') = Range(mIOEvents) \ {Listener}
        /\ IsInjective(mIOEvents')
        /\ phase' \in {"trigger", "dispatch"}
        /\ phase' # "dispatch" => mIOEvents' = << >>
        BY <1>1, DispatchTakes
  <2>2. c \notin Range(mIOEvents)
        BY <1>2, ConnNumbers DEF IInv, ReadyIsLive
  <2>3. \A d \in Range(mIOEvents') \cap Live' : fdOf'[d] \notin Range(mDisConnList')
        BY <1>1, <1>2, <1>4, <2>1, <2>2 DEF IInv, ReadyIsLive
  <2> QED BY <1>2, <2>1, <2>3 DEF IInv, ReadyIsLive
<1> QED BY <1>8, <1>9, <1>10, <1>11 DEF IInv

-----------------------------------------------------------------------------
(* The connections whose descriptors are listed are deleted, nobody else.  *)
LEMMA TriggerKeeps ==
  ASSUME IInv, HandleTriggerEvents
  PROVE  IInv'
<1>1. /\ phase = "trigger" /\ phase' = "select" /\ mIOEvents' = << >>
      /\ mIOEvents' = mIOEvents
      /\ mTriggerEvents' = 0
      /\ UNCHANGED <<fdOf, created, waiting, input, closed>>
      BY DEF HandleTriggerEvents, IInv, ReadyIsLive, clients
<1>2. Counted'
      BY <1>1 DEF IInv, Counted
<1>3. CASE mTriggerEvents = 0
  <2>1. mDisConnList' = << >> /\ mDisConnList' = mDisConnList /\ UNCHANGED <<server, poller>>
        BY <1>1, <1>3 DEF HandleTriggerEvents, IInv, ListIsLive, server
  <2>2. Live' = Live /\ LiveFds' = LiveFds /\ Maps'
        BY <2>1, ServerKept DEF IInv
  <2>3. TypeOK'
        BY <1>1, <2>1 DEF IInv, TypeOK, server, poller
  <2>4. ListIsLive' /\ ReadyIsLive'
        BY <1>1, <2>1, <2>2 DEF IInv, ListIsLive, ReadyIsLive, Range
  <2> QED BY <1>2, <2>2, <2>3, <2>4 DEF IInv
<1>4. CASE mTriggerEvents # 0
  <2> DEFINE fds  == Range(mDisConnList)
             Gone == {mConnMap[fd] : fd \in fds \cap DOMAIN mConnMap}
  <2>1. /\ mDisConnList' = << >>
        /\ deleted' = deleted \cup Gone
        /\ mConnMap' = [x \in DOMAIN mConnMap \ fds |-> mConnMap[x]]
        /\ mEventMap' = [x \in DOMAIN mEventMap \ fds |-> mEventMap[x]]
        /\ mReadSet' = mReadSet \ fds
        BY <1>4 DEF HandleTriggerEvents, Remaining, ConnsWithout, EventsWithout,
                    ReadSetWithout, Without
  <2>2. /\ fds \subseteq LiveFds /\ DOMAIN mConnMap = LiveFds
        /\ DOMAIN mEventMap = LiveFds \cup {ListenFd} /\ ListenFd \notin fds
        BY DEF IInv, ListIsLive, Maps, LiveFds
  <2>3. Gone = {c \in Live : fdOf[c] \in fds}
        BY <2>2 DEF IInv, Maps, LiveFds
  <2> HIDE DEF fds, Gone
  <2>4. Live' = {c \in Live : fdOf[c] \notin fds}
        BY <1>1, <2>1, <2>3 DEF Live
  <2>5. LiveFds' = LiveFds \ fds
        BY <1>1, <2>4 DEF LiveFds
  <2>6. Maps'
    <3>1. /\ mConnMap' \in [LiveFds' -> Conns]
          /\ mEventMap' \in [LiveFds' \cup {ListenFd} -> Conns \cup {Listener}]
          BY <2>1, <2>2, <2>5 DEF IInv, Maps
    <3>2. \A c \in Live' : fdOf'[c] \in LiveFds' /\ fdOf'[c] \in Fds \ {ListenFd}
          BY <1>1, <2>4, <2>5 DEF LiveFds, IInv, Maps
    <3>3. \A c \in Live' : mConnMap'[fdOf'[c]] = c /\ mEventMap'[fdOf'[c]] = c
          BY <1>1, <2>1, <2>2, <2>4, <2>5, <3>2 DEF IInv, Maps
    <3>4. mEventMap'[ListenFd] = Listener
          BY <2>1, <2>2 DEF IInv, Maps
    <3> QED BY <3>1, <3>2, <3>3, <3>4 DEF Maps
  <2>7. TypeOK'
    <3>1. mReadSet' \subseteq Fds /\ Cardinality(mReadSet') <= FdSetSize
      <4>1. Cardinality(mReadSet \ fds) <= FdSetSize
            BY FewerRead DEF IInv
      <4> QED BY <2>1, <4>1 DEF IInv, TypeOK
    <3>2. deleted' \subseteq 1..created'
      <4>1. Live \subseteq 1..created
            BY ServerAssumption DEF Live, Conns, IInv, TypeOK
      <4> QED BY <1>1, <2>1, <2>3, <4>1 DEF IInv, TypeOK
    <3>3. /\ DOMAIN mConnMap' \subseteq Fds /\ Range(mConnMap') \subseteq Conns
          /\ DOMAIN mEventMap' \subseteq Fds /\ Range(mEventMap') \subseteq Conns \cup {Listener}
      <4>1. LiveFds' \subseteq Fds /\ ListenFd \in Fds
            BY <2>6, ServerAssumption DEF Maps, LiveFds
      <4> QED BY <2>6, <4>1 DEF Maps, Range
    <3>4. /\ mDisConnList' \in Seq(Fds) /\ mIOEvents' \in Seq(Conns \cup {Listener})
          /\ mTriggerEvents' \in Nat /\ phase' \in {"trigger", "select", "dispatch"}
          BY <1>1, <2>1
    <3>5. /\ fdOf' \in [Conns -> Fds \cup {NoFd}] /\ created' \in 0..MaxConns
          /\ waiting' \in 0..Backlog /\ input' \subseteq Conns /\ closed' \subseteq Conns
          BY <1>1 DEF IInv, TypeOK
    <3> QED BY <3>1, <3>2, <3>3, <3>4, <3>5 DEF TypeOK
  <2>8. ListIsLive' /\ ReadyIsLive'
        BY <1>1, <2>1 DEF ListIsLive, ReadyIsLive, IsInjective, Range
  <2> QED BY <1>2, <2>6, <2>7, <2>8 DEF IInv
<1> QED BY <1>3, <1>4

-----------------------------------------------------------------------------
LEMMA Step == IInv /\ [Next]_vars => IInv'
<1> SUFFICES ASSUME IInv, [Next]_vars PROVE IInv'
    OBVIOUS
<1>1. CASE HandleTriggerEvents
      BY <1>1, TriggerKeeps
<1>2. CASE Select
      BY <1>2, SelectKeeps
<1>3. CASE Accept
      BY <1>3, AcceptKeeps
<1>4. CASE AcceptFails \/ \E c \in Conns : HandleRead(c)
      BY <1>4, ReadKeeps
<1>5. CASE \E c \in Conns : HandleDisConnect(c)
      BY <1>5, DisConnectKeeps
<1>6. CASE Connect \/ SelectTimeout \/ \E c \in Conns : Send(c) \/ Close(c)
      BY <1>6, ClientsKeep
<1>7. CASE UNCHANGED vars
  <2>1. UNCHANGED <<mTriggerEvents, mDisConnList, server, poller, mIOEvents>>
        /\ phase' = phase
        BY <1>7 DEF vars, server, poller
  <2>2. TypeOK' /\ Counted'
        BY <1>7 DEF vars, IInv, TypeOK, Counted
  <2> QED BY <2>1, <2>2, QuietKeeps
<1> QED BY <1>1, <1>2, <1>3, <1>4, <1>5, <1>6, <1>7 DEF Next, Loop

(* What the containers say is what the invariant says of them.             *)
LEMMA InvConsistent == IInv => Consistent
<1> SUFFICES ASSUME IInv PROVE Consistent
    OBVIOUS
<1>1. NoDeletedEvent
  <2>1. deleted \cap (Live \cup {Listener}) = {}
        BY ConnNumbers DEF IInv, TypeOK, Live, Listener
  <2>2. Range(mEventMap) \subseteq Live \cup {Listener}
        BY DEF IInv, Maps, LiveFds, Range
  <2> QED BY <2>1, <2>2 DEF IInv, ReadyIsLive, NoDeletedEvent
<1>2. CloseFindsConnection
      BY DEF IInv, Maps, ListIsLive, CloseFindsConnection
<1>3. MapsAgree
  <2>1. \A c, d \in Live : fdOf[c] = fdOf[d] => c = d
        BY FdsDiffer DEF IInv
  <2>2. ListenFd \notin LiveFds
        BY DEF IInv, Maps, LiveFds
  <2>3. \A fd \in LiveFds : /\ mEventMap[fd] = mConnMap[fd]
                            /\ mConnMap[fd] = CHOOSE c \in Live : fdOf[c] = fd
    <3> SUFFICES ASSUME NEW fd \in LiveFds
                 PROVE  /\ mEventMap[fd] = mConnMap[fd]
                        /\ mConnMap[fd] = CHOOSE c \in Live : fdOf[c] = fd
        OBVIOUS
    <3>1. PICK c \in Live : fdOf[c] = fd
          BY DEF LiveFds
    <3>2. \A d \in Live : fdOf[d] = fd <=> d = c
          BY <2>1, <3>1
    <3>3. (CHOOSE d \in Live : fdOf[d] = fd) = c
          BY <3>1, <3>2
    <3> QED BY <3>1, <3>3 DEF IInv, Maps
  <2>4. Without(mEventMap, {ListenFd}) = mConnMap
        BY <2>2, <2>3 DEF Without, IInv, Maps
  <2>5. mConnMap = [fd \in {fdOf[c] : c \in Live} |-> CHOOSE c \in Live : fdOf[c] = fd]
        BY <2>3 DEF LiveFds, IInv, Maps
  <2> QED BY <2>1, <2>4, <2>5 DEF MapsAgree
<1> QED BY <1>1, <1>2, <1>3 DEF Consistent

(* The types, among them that the fd_set never holds more sockets than fit.*)
THEOREM ServerTypeOK == Spec => []TypeOK
<1> QED BY Initial, Step, PTL DEF Spec, IInv

(* Deletion is put off, descriptors are reused, and the poller's raw       *)
(* pointers are collected before they are used: still no container ever    *)
(* names a deleted connection, a descriptor that nobody has, or one twice. *)
THEOREM ContainersConsistent == Spec => []Consistent
<1> QED BY Initial, Step, InvConsistent, PTL DEF Spec
=============================================================================
