----------------------------- MODULE RtspServer -----------------------------
(***************************************************************************)
(* The main thread of the server: EventScheduler::loop alternates between  *)
(* the trigger events and SelectPoller::handleEvent, whose callbacks       *)
(* accept connections (RtspServer), read from them (TcpConnection) and     *)
(* report disconnections, which a trigger event turns into deletions in    *)
(* the next round.  Clients connect, send and close at any time.           *)
(*                                                                         *)
(* A connection is a number: the RtspConnection object, its IOEvent and    *)
(* the client's end of the socket.  What a request does is abstract here;  *)
(* all that matters is whether handleReadBytes gives the connection up.    *)
(***************************************************************************)
EXTENDS Integers, FiniteSets, SequencesExt

CONSTANTS Fds,       \* descriptors the system hands out
          ListenFd,  \* mFd, the listening socket
          FdSetSize, \* FD_SETSIZE: sockets that fit into an fd_set
          Backlog,   \* argument of listen()
          MaxConns   \* bound of the connections over the whole run

ASSUME ServerAssumption == /\ Fds \subseteq Nat /\ IsFiniteSet(Fds)
                           /\ ListenFd \in Fds
                           /\ FdSetSize \in Nat \ {0}
                           /\ Backlog \in Nat \ {0}
                           /\ MaxConns \in Nat

VARIABLES
  phase,          \* where loop() is: "trigger", "select" or "dispatch"
  mTriggerEvents, \* entries of the vector; each is mCloseTriggerEvent
  mDisConnList,   \* descriptors to be closed
  mConnMap,       \* descriptor -> connection
  mEventMap,      \* descriptor -> connection of the registered IOEvent
  mReadSet,       \* the poller's fd_set
  mIOEvents,      \* ready IOEvents that are still to be dispatched
  fdOf,           \* [c]: the connection's descriptor, NoFd before accept
  deleted,        \* connections whose objects were deleted
  created,        \* number of connections accepted so far
  waiting,        \* clients in the listen queue
  input,          \* connections with unread bytes
  closed          \* connections that the client closed

vars == <<phase, mTriggerEvents, mDisConnList, mConnMap, mEventMap, mReadSet,
          mIOEvents, fdOf, deleted, created, waiting, input, closed>>
clients == <<waiting, input, closed>>
server  == <<mConnMap, fdOf, deleted, created>>
poller  == <<mEventMap, mReadSet>>

Conns    == 1..MaxConns
Listener == 0            \* mAcceptIOEvent
NoFd     == -1           \* of a connection that is still to come
Live     == {c \in Conns : c <= created /\ c \notin deleted}
Empty    == [fd \in {} |-> 0]

TypeOK == /\ phase \in {"trigger", "select", "dispatch"}
          /\ mTriggerEvents \in Nat
          /\ mDisConnList \in Seq(Fds)
          /\ DOMAIN mConnMap \subseteq Fds /\ Range(mConnMap) \subseteq Conns
          /\ DOMAIN mEventMap \subseteq Fds
          /\ Range(mEventMap) \subseteq Conns \cup {Listener}
          /\ mReadSet \subseteq Fds /\ Cardinality(mReadSet) <= FdSetSize
          /\ mIOEvents \in Seq(Conns \cup {Listener})
          /\ fdOf \in [Conns -> Fds \cup {NoFd}]
          /\ deleted \subseteq 1..created
          /\ created \in 0..MaxConns
          /\ waiting \in 0..Backlog
          /\ input \subseteq Conns /\ closed \subseteq Conns

(* After start(): the listening socket is registered.                      *)
Init == /\ phase = "trigger"
        /\ mTriggerEvents = 0
        /\ mDisConnList = << >>
        /\ mConnMap = Empty
        /\ mEventMap = [fd \in {ListenFd} |-> Listener]
        /\ mReadSet = {ListenFd}
        /\ mIOEvents = << >>
        /\ fdOf = [c \in Conns |-> NoFd]
        /\ deleted = {}
        /\ created = 0
        /\ waiting = 0
        /\ input = {}
        /\ closed = {}

-----------------------------------------------------------------------------
(* Clients.                                                                *)

Connect == /\ waiting < Backlog
           /\ created + waiting < MaxConns
           /\ waiting' = waiting + 1
           /\ UNCHANGED <<phase, mTriggerEvents, mDisConnList, server, poller,
                          mIOEvents, input, closed>>

Send(c) == /\ c \in Live \ closed
           /\ c \notin input
           /\ input' = input \cup {c}
           /\ UNCHANGED <<phase, mTriggerEvents, mDisConnList, server, poller,
                          mIOEvents, waiting, closed>>

Close(c) == /\ c \in Live \ closed
            /\ closed' = closed \cup {c}
            /\ UNCHANGED <<phase, mTriggerEvents, mDisConnList, server, poller,
                           mIOEvents, waiting, input>>

-----------------------------------------------------------------------------
(* handleTriggerEvents: the first of the (identical) trigger events runs   *)
(* handleCloseConnect for all of mDisConnList, the others find it empty.   *)

Without(f, S) == [x \in DOMAIN f \ S |-> f[x]]

(* What closing the connections of fds leaves: mDisConnList is cleared,    *)
(* mConnMap loses them, ~TcpConnection removes their events.               *)
Remaining == << >>

ConnsWithout(fds) == Without(mConnMap, fds)

KeepsEvents(fds) == mEventMap  \* mutant of EventsWithout
EventsWithout(fds) == Without(mEventMap, fds)

ReadSetWithout(fds) == mReadSet \ fds

HandleTriggerEvents ==
  LET fds == Range(mDisConnList) IN
  /\ phase = "trigger"
  /\ phase' = "select"
  /\ mTriggerEvents' = 0
  /\ IF mTriggerEvents = 0
       THEN UNCHANGED <<mDisConnList, mConnMap, poller, deleted>>
       ELSE /\ mDisConnList' = Remaining
            /\ deleted' = deleted \cup {mConnMap[fd] : fd \in fds \cap DOMAIN mConnMap}
            /\ mConnMap' = ConnsWithout(fds)
            /\ mEventMap' = EventsWithout(fds)
            /\ mReadSet' = ReadSetWithout(fds)
  /\ UNCHANGED <<mIOEvents, fdOf, created, clients>>

-----------------------------------------------------------------------------
(* SelectPoller::handleEvent.                                              *)

Readable(e) == IF e = Listener THEN waiting > 0 ELSE e \in input \cup closed

ReadyFds == {fd \in mReadSet \cap DOMAIN mEventMap : Readable(mEventMap[fd])}

(* select returns when a socket is ready; the ready events are collected   *)
(* in the order of the map, that of the descriptors.                       *)
InOrder(fds) == {s \in [1..Cardinality(fds) -> fds] :
                   \A i, j \in DOMAIN s : i < j => s[i] < s[j]}

Select ==
  /\ phase = "select"
  /\ ReadyFds # {}
  /\ \E fds \in InOrder(ReadyFds) :
       mIOEvents' = [i \in DOMAIN fds |-> mEventMap[fds[i]]]
  /\ phase' = "dispatch"
  /\ UNCHANGED <<mTriggerEvents, mDisConnList, server, poller, clients>>

(* select timed out.                                                       *)
SelectTimeout ==
  /\ phase = "select"
  /\ ReadyFds = {}
  /\ phase' = "trigger"
  /\ UNCHANGED <<mTriggerEvents, mDisConnList, server, poller, mIOEvents, clients>>

(* The next event of mIOEvents is dispatched.  After the last one loop()   *)
(* goes around.                                                            *)
AfterDispatch(rest) == IF rest = << >> THEN "trigger" ELSE "dispatch"

Dispatch(e) == /\ phase = "dispatch"
               /\ mIOEvents # << >>
               /\ Head(mIOEvents) = e
               /\ mIOEvents' = Tail(mIOEvents)
               /\ phase' = AfterDispatch(Tail(mIOEvents))

UsedFds == {ListenFd} \cup {fdOf[c] : c \in Live}

(* FD_SET of a socket that does not fit into the set is ignored.           *)
Unchecked(set, fd) == set \cup {fd}  \* mutant of FdSet
FdSet(set, fd) == IF Cardinality(set \cup {fd}) <= FdSetSize
                    THEN set \cup {fd} ELSE set

(* std::map::insert keeps an entry that is there.                          *)
Insert(map, fd, c) ==
  [x \in DOMAIN map \cup {fd} |-> IF x \in DOMAIN map THEN map[x] ELSE c]

(* handleAccept: a new connection registers its IOEvent with the poller.   *)
Accept ==
  /\ Dispatch(Listener)
  /\ waiting > 0
  /\ \E fd \in Fds \ UsedFds :
       LET c == created + 1 IN
       /\ created' = c
       /\ fdOf' = [fdOf EXCEPT ![c] = fd]
       /\ mConnMap' = Insert(mConnMap, fd, c)
       /\ mEventMap' = Insert(mEventMap, fd, c)
       /\ mReadSet' = FdSet(mReadSet \ {fd}, fd)
  /\ waiting' = waiting - 1
  /\ UNCHANGED <<mTriggerEvents, mDisConnList, deleted, input, closed>>

(* accept returned an error: there is no descriptor left.                  *)
AcceptFails ==
  /\ Dispatch(Listener)
  /\ waiting = 0 \/ Fds \subseteq UsedFds
  /\ UNCHANGED <<mTriggerEvents, mDisConnList, server, poller, clients>>

(* handleRead and handleReadBytes: all bytes are read, the request is      *)
(* answered.                                                               *)
HandleRead(c) ==
  /\ Dispatch(c)
  /\ c \in input
  /\ input' = input \ {c}
  /\ UNCHANGED <<mTriggerEvents, mDisConnList, server, poller, waiting, closed>>

(* handleDisConnect: the read failed (also when there was nothing to read),*)
(* or handleReadBytes could not parse or answer the request.  The server   *)
(* lists the descriptor and adds its trigger event.                        *)
ListsNothing(c) == mDisConnList  \* mutant of Listed
Listed(c) == Append(mDisConnList, fdOf[c])

AddTriggerEvent == mTriggerEvents + 1

HandleDisConnect(c) ==
  /\ Dispatch(c)
  /\ input' = input \ {c}
  /\ mDisConnList' = Listed(c)
  /\ mTriggerEvents' = AddTriggerEvent
  /\ UNCHANGED <<server, poller, waiting, closed>>

-----------------------------------------------------------------------------
Loop == \/ HandleTriggerEvents
        \/ Select
        \/ SelectTimeout
        \/ Accept
        \/ AcceptFails
        \/ \E c \in Conns : HandleRead(c) \/ HandleDisConnect(c)

Next == \/ Loop
        \/ Connect
        \/ \E c \in Conns : Send(c) \/ Close(c)

Spec == Init /\ [][Next]_vars

(* The main thread runs.  Clients do as they like.                         *)
FairSpec == Spec /\ WF_vars(Loop)

-----------------------------------------------------------------------------
(* Properties.                                                             *)

(* No event of a deleted connection is dispatched, or registered to be:    *)
(* the poller holds raw pointers, collects them before it dispatches the   *)
(* first, and descriptors are reused.                                      *)
NoDeletedEvent ==
  (Range(mIOEvents) \cup Range(mEventMap)) \cap deleted = {}

(* The assertion of handleCloseConnect (RtspServer.cpp:84): every entry of *)
(* mDisConnList has its connection, so none is listed twice.               *)
CloseFindsConnection ==
  /\ Range(mDisConnList) \subseteq DOMAIN mConnMap
  /\ IsInjective(mDisConnList)

(* The server, the poller and the connections agree about the descriptors, *)
(* and no two connections share one.                                       *)
MapsAgree ==
  /\ Without(mEventMap, {ListenFd}) = mConnMap
  /\ mConnMap = [fd \in {fdOf[c] : c \in Live} |->
                   CHOOSE c \in Live : fdOf[c] = fd]
  /\ \A c, d \in Live : fdOf[c] = fdOf[d] => c = d

(* What four containers say of the connections never disagrees.            *)
Consistent == NoDeletedEvent /\ CloseFindsConnection /\ MapsAgree

(* A client that closed its socket is forgotten: the connection is         *)
(* deleted, if its socket fitted into the fd_set.                          *)
Watched(c) == c \in Live /\ fdOf[c] \in mReadSet
ClosedIsDeleted ==
  \A c \in Conns : c \in closed /\ Watched(c) ~> c \in deleted
=============================================================================
