-------------------------- MODULE ThreadPoolProofs --------------------------
(***************************************************************************)
(* Proofs about ThreadPool, for every set of workers, callers and tasks.   *)
(***************************************************************************)
EXTENDS ThreadPool, TLAPS

(* Removing the front of a queue shifts the others; adding puts one last.  *)
LEMMA TailElems ==
  ASSUME NEW S, NEW q \in Seq(S), q # << >>
  PROVE  /\ Head(q) \in S
         /\ Head(q) = q[1]
         /\ 1 \in DOMAIN q
         /\ Tail(q) \in Seq(S)
         /\ \A i \in DOMAIN Tail(q) : /\ i \in Nat \ {0}
                                      /\ i + 1 \in DOMAIN q
                                      /\ Tail(q)[i] = q[i + 1]
         /\ \A i \in DOMAIN q : i # 1 => i - 1 \in DOMAIN Tail(q)
  OBVIOUS

LEMMA AppendElems ==
  ASSUME NEW S, NEW q \in Seq(S), NEW e \in S
  PROVE  /\ Append(q, e) \in Seq(S)
         /\ DOMAIN Append(q, e) = DOMAIN q \cup {Len(q) + 1}
         /\ Len(q) + 1 \notin DOMAIN q
         /\ \A i \in DOMAIN q : Append(q, e)[i] = q[i]
         /\ Append(q, e)[Len(q) + 1] = e
  OBVIOUS

-----------------------------------------------------------------------------
(* The pool's variables always have their types, and a worker has a task   *)
(* exactly while it handles one.                                           *)
Typed == /\ TypeOK
         /\ \A w \in Workers : task[w] # NoTask <=> pc[w] = "handle"

(* Only a worker that blocked in wait is in the wait set, and mQuit says   *)
(* that cancelThreads has begun.                                           *)
Blocked == /\ \A w \in waitSet : pc[w] = "waiting"
           /\ mQuit <=> canceller # "no"

(* What is queued was added, is queued once, and no worker took it yet.    *)
QueueOnce ==
  /\ \A i \in DOMAIN mTaskQueue : /\ mTaskQueue[i] \in added
                                  /\ started[mTaskQueue[i]] = 0
  /\ \A i, j \in DOMAIN mTaskQueue : mTaskQueue[i] = mTaskQueue[j] => i = j
  /\ \A t \in Tasks : started[t] > 0 => t \in added /\ started[t] = 1

(* Where a task added before mQuit can be, until it was handled.           *)
Accounted ==
  /\ \A t \in addedInTime :
       \/ t \in handled
       \/ \E i \in DOMAIN mTaskQueue : mTaskQueue[i] = t
       \/ \E w \in Workers : pc[w] = "handle" /\ task[w] = t
  /\ \A w \in Workers : pc[w] = "exited" =>
       mQuit /\ \A i \in DOMAIN mTaskQueue : mTaskQueue[i] \notin addedInTime
  /\ \A w \in joined : pc[w] = "exited"
  /\ canceller = "done" => joined = Workers

IInv == /\ Typed
        /\ Blocked
        /\ QueueIsWatched
        /\ NoSleeperAtJoin
        /\ QueueOnce
        /\ Accounted

-----------------------------------------------------------------------------
(* Types, initially and after every step.                                  *)
LEMMA TypeInitial == Init => Typed
<1> SUFFICES ASSUME Init PROVE Typed
    OBVIOUS
<1> USE DEF Init
<1>1. mTaskQueue \in Seq(Tasks)
      OBVIOUS
<1>2. pc \in [Workers -> WorkerSteps] /\ canceller \in CancelSteps
      BY DEF WorkerSteps, CancelSteps
<1>3. started \in [Tasks -> Nat]
      OBVIOUS
<1>4. \A w \in Workers : task[w] # NoTask <=> pc[w] = "handle"
      OBVIOUS
<1> QED BY <1>1, <1>2, <1>3, <1>4 DEF Typed, TypeOK

(* Only Pop and Handle touch task and a worker's "handle" together.        *)
LEMMA TypeStep == Typed /\ [Next]_vars => Typed'
<1> SUFFICES ASSUME Typed, [Next]_vars PROVE Typed'
    OBVIOUS
<1> USE PoolAssumption DEF Typed, TypeOK, WorkerSteps, CancelSteps, cancel, caller
<1>1. ASSUME NEW c \in Callers, NEW t \in Tasks, Push(c, t) PROVE Typed'
      BY <1>1, AppendElems DEF Push
<1>2. ASSUME NEW c \in Callers, NotifyOne(c) PROVE Typed'
      BY <1>2 DEF NotifyOne
<1>3. ASSUME NEW w \in Workers, Wait(w) PROVE Typed'
      BY <1>3 DEF Wait, Runs
<1>4. ASSUME NEW w \in Workers, SpuriousWakeup(w) PROVE Typed'
      BY <1>4 DEF SpuriousWakeup
<1>5. ASSUME NEW w \in Workers, Break(w) PROVE Typed'
      BY <1>5 DEF Break, Runs
<1>6. ASSUME NEW w \in Workers, Pop(w) PROVE Typed'
      BY <1>6, TailElems DEF Pop
<1>7. ASSUME NEW w \in Workers, Handle(w) PROVE Typed'
      BY <1>7 DEF Handle
<1>8. ASSUME NEW w \in Workers, Join(w) PROVE Typed'
      BY <1>8 DEF Join
<1>9. CASE Quit
      BY <1>9 DEF Quit
<1>10. CASE NotifyAll
      BY <1>10 DEF NotifyAll
<1>11. CASE UNCHANGED vars
      BY <1>11 DEF vars
<1> QED
    BY <1>1, <1>2, <1>3, <1>4, <1>5, <1>6, <1>7, <1>8, <1>9, <1>10, <1>11
    DEF Next, Loop

-----------------------------------------------------------------------------
(* Waiting, waking and joining.                                            *)
LEMMA WakeupStep ==
  Typed /\ Blocked /\ QueueIsWatched /\ NoSleeperAtJoin /\ [Next]_vars
    => Blocked' /\ QueueIsWatched' /\ NoSleeperAtJoin'
<1> DEFINE Wakeup == Blocked /\ QueueIsWatched /\ NoSleeperAtJoin
<1> SUFFICES ASSUME Typed, Wakeup, [Next]_vars PROVE Wakeup'
    OBVIOUS
<1> USE DEF Typed, TypeOK, Blocked, QueueIsWatched, NoSleeperAtJoin, CancelSteps,
            WorkerSteps, cancel, caller
<1>1. ASSUME NEW c \in Callers, NEW t \in Tasks, Push(c, t) PROVE Wakeup'
      BY <1>1 DEF Push
<1>2. ASSUME NEW c \in Callers, NotifyOne(c) PROVE Wakeup'
      BY <1>2, PoolAssumption DEF NotifyOne
<1>3. ASSUME NEW w \in Workers, Wait(w) PROVE Wakeup'
      BY <1>3 DEF Wait
<1>4. ASSUME NEW w \in Workers, SpuriousWakeup(w) PROVE Wakeup'
      BY <1>4 DEF SpuriousWakeup
<1>5. ASSUME NEW w \in Workers, Break(w) PROVE Wakeup'
      BY <1>5 DEF Break, Runs
<1>6. ASSUME NEW w \in Workers, Pop(w) PROVE Wakeup'
      BY <1>6 DEF Pop, Runs
<1>7. ASSUME NEW w \in Workers, Handle(w) PROVE Wakeup'
      BY <1>7 DEF Handle
<1>8. ASSUME NEW w \in Workers, Join(w) PROVE Wakeup'
      BY <1>8 DEF Join
<1>9. CASE Quit
      BY <1>9 DEF Quit
<1>10. CASE NotifyAll
      BY <1>10 DEF NotifyAll
<1>11. CASE UNCHANGED vars
      BY <1>11 DEF vars
<1> QED
    BY <1>1, <1>2, <1>3, <1>4, <1>5, <1>6, <1>7, <1>8, <1>9, <1>10, <1>11
    DEF Next, Loop

(* Only Push and Pop change the queue, what was added and what was taken.  *)
LEMMA QueueStep == Typed /\ QueueOnce /\ [Next]_vars => QueueOnce'
<1> SUFFICES ASSUME Typed, QueueOnce, [Next]_vars PROVE QueueOnce'
    OBVIOUS
<1> USE DEF Typed, TypeOK, QueueOnce, caller
<1>1. ASSUME NEW c \in Callers, NEW t \in Tasks, Push(c, t) PROVE QueueOnce'
  <2>1. started[t] = 0 /\ t \notin added
        BY <1>1 DEF Push
  <2> DEFINE last == Len(mTaskQueue) + 1
  <2>2. /\ mTaskQueue' = Append(mTaskQueue, t)
        /\ added' = added \cup {t}
        /\ started' = started
        BY <1>1 DEF Push
  <2>3. /\ DOMAIN mTaskQueue' = DOMAIN mTaskQueue \cup {last}
        /\ \A i \in DOMAIN mTaskQueue : mTaskQueue'[i] = mTaskQueue[i]
        /\ mTaskQueue'[last] = t
        BY <2>2, AppendElems
  <2> HIDE DEF last
  <2> QED BY <2>1, <2>2, <2>3
<1>2. ASSUME NEW w \in Workers, Pop(w) PROVE QueueOnce'
  <2> DEFINE t == Head(mTaskQueue)
  <2>0. mTaskQueue # << >> /\ t \in Tasks /\ t = mTaskQueue[1] /\ 1 \in DOMAIN mTaskQueue
        BY <1>2, TailElems DEF Pop
  <2>1. /\ t \in added
        /\ started[t] = 0
        /\ started' = [started EXCEPT ![t] = started[t] + 1]
        BY <1>2, <2>0 DEF Pop
  <2>2. /\ \A i \in DOMAIN mTaskQueue' : /\ i \in Nat \ {0}
                                          /\ i + 1 \in DOMAIN mTaskQueue
                                          /\ mTaskQueue'[i] = mTaskQueue[i + 1]
        /\ UNCHANGED added
        BY <1>2, <2>0, TailElems DEF Pop
  <2> HIDE DEF t
  <2>3. \A i \in DOMAIN mTaskQueue' : mTaskQueue'[i] # t
        BY <2>0, <2>2
  <2> QED BY <2>0, <2>1, <2>2, <2>3
<1>3. ASSUME UNCHANGED <<mTaskQueue, added, started>> PROVE QueueOnce'
      BY <1>3
<1> QED
    BY <1>1, <1>2, <1>3
    DEF Next, Loop, NotifyOne, Wait, SpuriousWakeup, Break, Handle, Join, Quit,
        NotifyAll, vars, caller, cancel

(* A task added before mQuit stays queued until a worker takes it, and the *)
(* worker does not stop before it handled it.                              *)
LEMMA AccountedStep ==
  Typed /\ Blocked /\ QueueOnce /\ Accounted /\ [Next]_vars => Accounted'
<1> SUFFICES ASSUME Typed, Blocked, QueueOnce, Accounted, [Next]_vars
             PROVE  Accounted'
    OBVIOUS
<1> USE DEF Typed, TypeOK, Accounted, cancel, caller
<1>1. ASSUME NEW c \in Callers, NEW t \in Tasks, Push(c, t) PROVE Accounted'
      BY <1>1, AppendElems DEF Push
<1>2. ASSUME NEW c \in Callers, NotifyOne(c) PROVE Accounted'
      BY <1>2 DEF NotifyOne
<1>3. ASSUME NEW w \in Workers, Wait(w) PROVE Accounted'
      BY <1>3 DEF Wait, Runs
<1>4. ASSUME NEW w \in Workers, SpuriousWakeup(w) PROVE Accounted'
      BY <1>4 DEF SpuriousWakeup
<1>5. ASSUME NEW w \in Workers, Break(w) PROVE Accounted'
      BY <1>5 DEF Break, Runs
<1>6. ASSUME NEW w \in Workers, Pop(w) PROVE Accounted'
  <2> DEFINE front == Head(mTaskQueue)
  <2>1. /\ mTaskQueue # << >>
        /\ front = mTaskQueue[1]
        /\ \A i \in DOMAIN mTaskQueue : i # 1 =>
             i - 1 \in DOMAIN mTaskQueue' /\ mTaskQueue'[i - 1] = mTaskQueue[i]
        /\ \A i \in DOMAIN mTaskQueue' :
             i + 1 \in DOMAIN mTaskQueue /\ mTaskQueue'[i] = mTaskQueue[i + 1]
        BY <1>6, TailElems DEF Pop
  <2>2. /\ pc' = [pc EXCEPT ![w] = "handle"]
        /\ task' = [task EXCEPT ![w] = front]
        /\ UNCHANGED <<addedInTime, handled, joined, canceller, mQuit>>
        /\ pc[w] \in {"lock", "waiting"}
        BY <1>6 DEF Pop, Runs
  <2> HIDE DEF front
  <2>3. \A t \in addedInTime' :
          \/ t \in handled'
          \/ \E i \in DOMAIN mTaskQueue' : mTaskQueue'[i] = t
          \/ \E v \in Workers : pc'[v] = "handle" /\ task'[v] = t
    <3> SUFFICES ASSUME NEW t \in addedInTime, t \notin handled
                 PROVE  \/ \E i \in DOMAIN mTaskQueue' : mTaskQueue'[i] = t
                        \/ \E v \in Workers : pc'[v] = "handle" /\ task'[v] = t
        BY <2>2
    <3>1. ASSUME NEW i \in DOMAIN mTaskQueue, mTaskQueue[i] = t, i # 1
          PROVE  \E j \in DOMAIN mTaskQueue' : mTaskQueue'[j] = t
          BY <3>1, <2>1
    <3>2. CASE mTaskQueue[1] = t
          BY <3>2, <2>1, <2>2
    <3>3. ASSUME NEW v \in Workers, pc[v] = "handle", task[v] = t
          PROVE  pc'[v] = "handle" /\ task'[v] = t
          BY <3>3, <2>2
    <3> QED BY <3>1, <3>2, <3>3
  <2>4. \A v \in Workers : pc'[v] = "exited" =>
          mQuit' /\ \A i \in DOMAIN mTaskQueue' : mTaskQueue'[i] \notin addedInTime'
        BY <2>1, <2>2
  <2> QED BY <2>2, <2>3, <2>4
<1>7. ASSUME NEW w \in Workers, Handle(w) PROVE Accounted'
      BY <1>7 DEF Handle
<1>8. ASSUME NEW w \in Workers, Join(w) PROVE Accounted'
      BY <1>8 DEF Join
<1>9. CASE Quit
      BY <1>9 DEF Quit
<1>10. CASE NotifyAll
      BY <1>10 DEF NotifyAll
<1>11. CASE UNCHANGED vars
      BY <1>11 DEF vars
<1> QED
    BY <1>1, <1>2, <1>3, <1>4, <1>5, <1>6, <1>7, <1>8, <1>9, <1>10, <1>11
    DEF Next, Loop

-----------------------------------------------------------------------------
(* The inductive invariant holds in every reachable state.                 *)
LEMMA Inductive == Spec => []IInv
<1>1. Init => IInv
  <2> SUFFICES ASSUME Init PROVE IInv
      OBVIOUS
  <2>1. Typed
        BY TypeInitial
  <2>2. Blocked /\ QueueIsWatched /\ NoSleeperAtJoin
        BY DEF Init, Blocked, QueueIsWatched, NoSleeperAtJoin
  <2>3. QueueOnce /\ Accounted
        BY DEF Init, QueueOnce, Accounted
  <2> QED BY <2>1, <2>2, <2>3 DEF IInv
<1>2. IInv /\ [Next]_vars => IInv'
      BY TypeStep, WakeupStep, QueueStep, AccountedStep DEF IInv
<1> QED BY <1>1, <1>2, PTL DEF Spec

(* Type correctness of the pool.                                           *)
THEOREM PoolTypeOK == Spec => []TypeOK
<1>1. IInv => TypeOK
      BY DEF IInv, Typed
<1> QED BY <1>1, Inductive, PTL

(* ThreadPool::addTask never leaves a task to workers that all sleep: the  *)
(* push under the mutex precedes the notification, and wait's predicate is *)
(* evaluated under the same mutex.  For the same reason no worker sleeps   *)
(* when cancelThreads begins to join them.                                 *)
THEOREM WakeupNotLost == Spec => []NoLostWakeup
<1>1. IInv => NoLostWakeup
      BY DEF IInv, NoLostWakeup
<1> QED BY <1>1, Inductive, PTL

(* No task is executed twice, by whatever workers.                         *)
THEOREM TakenAtMostOnce == Spec => []TakenOnce
<1>1. IInv => TakenOnce
      BY DEF IInv, Typed, TypeOK, QueueOnce, TakenOnce
<1> QED BY <1>1, Inductive, PTL

(* When cancelThreads returns, every task added before mQuit was set has   *)
(* been handled: all workers exited, so none of them holds such a task and *)
(* the queue has none.                                                     *)
THEOREM DrainedAtCancel == Spec => []DrainedWhenDone
<1>1. IInv => DrainedWhenDone
  <2> SUFFICES ASSUME IInv, canceller = "done", NEW t \in addedInTime
               PROVE  t \in handled
      BY DEF DrainedWhenDone
  <2>1. \A w \in Workers : pc[w] = "exited"
        BY DEF IInv, Accounted
  <2>2. PICK w \in Workers : TRUE
        BY PoolAssumption
  <2>3. \A i \in DOMAIN mTaskQueue : mTaskQueue[i] # t
        BY <2>1, <2>2 DEF IInv, Accounted
  <2> QED BY <2>1, <2>3 DEF IInv, Accounted
<1> QED BY <1>1, Inductive, PTL

-----------------------------------------------------------------------------
(* ThreadPool implements TaskService, the queue its callers rely on: Push, *)
(* Pop and Handle are Submit, Begin and End, all other steps are invisible.*)
THEOREM PoolImplementsService == Spec => ImplementsService
<1>1. Init => Service!Init
      BY DEF Init, Service!Init
<1>2. IInv /\ [Next]_vars => [Service!Next]_<<mTaskQueue, task>>
  <2> SUFFICES ASSUME IInv, [Next]_vars
               PROVE  Service!Next \/ UNCHANGED <<mTaskQueue, task>>
      OBVIOUS
  <2>1. ASSUME NEW c \in Callers, NEW t \in Tasks, Push(c, t)
        PROVE  Service!Submit(t)
        BY <2>1 DEF Push, Service!Submit
  <2>2. ASSUME NEW w \in Workers, Pop(w) PROVE Service!Begin(w)
    <3>1. task[w] = NoTask
          BY <2>2 DEF Pop, Runs, IInv, Typed
    <3> QED BY <2>2, <3>1 DEF Pop, Service!Begin
  <2>3. ASSUME NEW w \in Workers, Handle(w) PROVE Service!End(w)
        BY <2>3 DEF Handle, Service!End, IInv, Typed, cancel, caller
  <2>4. ASSUME UNCHANGED <<mTaskQueue, task>>
        PROVE  UNCHANGED <<mTaskQueue, task>>
        BY <2>4
  <2> QED
      BY <2>1, <2>2, <2>3, <2>4
      DEF Next, Loop, NotifyOne, Wait, SpuriousWakeup, Break, Join, Quit,
          NotifyAll, vars, caller, cancel, Service!Next
<1> QED BY <1>1, <1>2, Inductive, PTL DEF Spec, ImplementsService, Service!Spec
=============================================================================
