----------------------------- MODULE ThreadPool -----------------------------
(***************************************************************************)
(* ThreadPool: workers wait on one condition variable for tasks that other *)
(* threads add, and drain the queue when the pool is cancelled.            *)
(*                                                                         *)
(* No step of a critical section of ThreadPool::mMtx is visible outside    *)
(* it, so a critical section is one action.  The steps between critical    *)
(* sections are separate: notify_one follows the push after the mutex was  *)
(* released, a notified worker has to take the mutex again, and            *)
(* cancelThreads sets mQuit, notifies and joins one after the other.       *)
(***************************************************************************)
EXTENDS Integers, Sequences, FiniteSets

CONSTANTS Workers,  \* mThreads
          Callers,  \* threads that call addTask
          Tasks,    \* the tasks they add, each of them once
          NoTask

ASSUME PoolAssumption == /\ Workers # {}
                         /\ IsFiniteSet(Workers)
                         /\ NoTask \notin Tasks

VARIABLES
  mTaskQueue,  \* the queue
  mQuit,       \* set by cancelThreads
  waitSet,     \* workers blocked in mCon.wait
  pc,          \* [w]: where worker w is in loop
  task,        \* [w]: its local variable task
  notifying,   \* callers that pushed a task and have not yet notified
  canceller,   \* where cancelThreads is
  joined,      \* workers that cancelThreads has joined
  added,       \* tasks that were pushed
  addedInTime, \* those pushed before mQuit was set
  started,     \* [t]: how often a worker took task t
  handled      \* tasks whose handle() returned

vars == <<mTaskQueue, mQuit, waitSet, pc, task, notifying, canceller, joined,
          added, addedInTime, started, handled>>
caller == <<notifying, added, addedInTime>>
cancel == <<mQuit, canceller, joined>>

WorkerSteps == {"lock", "waiting", "handle", "exited"}
CancelSteps == {"no", "notify", "join", "done"}

TypeOK == /\ mTaskQueue \in Seq(Tasks)
          /\ mQuit \in BOOLEAN
          /\ waitSet \subseteq Workers
          /\ pc \in [Workers -> WorkerSteps]
          /\ task \in [Workers -> Tasks \cup {NoTask}]
          /\ notifying \subseteq Callers
          /\ canceller \in CancelSteps
          /\ joined \subseteq Workers
          /\ added \subseteq Tasks
          /\ addedInTime \subseteq added
          /\ started \in [Tasks -> Nat]
          /\ handled \subseteq Tasks

Init == /\ mTaskQueue = << >>
        /\ mQuit = FALSE
        /\ waitSet = {}
        /\ pc = [w \in Workers |-> "lock"]
        /\ task = [w \in Workers |-> NoTask]
        /\ notifying = {}
        /\ canceller = "no"
        /\ joined = {}
        /\ added = {}
        /\ addedInTime = {}
        /\ started = [t \in Tasks |-> 0]
        /\ handled = {}

-----------------------------------------------------------------------------
(* addTask.                                                                *)

Push(c, t) ==
  /\ c \notin notifying
  /\ t \notin added
  /\ mTaskQueue' = Append(mTaskQueue, t)
  /\ added' = added \cup {t}
  /\ addedInTime' = IF mQuit THEN addedInTime ELSE addedInTime \cup {t}
  /\ notifying' = notifying \cup {c}
  /\ UNCHANGED <<cancel, waitSet, pc, task, started, handled>>

NotifiesNobody(c) ==  \* mutant of NotifyOne
  /\ c \in notifying
  /\ notifying' = notifying \ {c}
  /\ UNCHANGED <<mTaskQueue, cancel, waitSet, pc, task, added, addedInTime,
                 started, handled>>

NotifyOne(c) ==
  /\ c \in notifying
  /\ notifying' = notifying \ {c}
  /\ IF waitSet = {} THEN UNCHANGED waitSet
     ELSE \E w \in waitSet : waitSet' = waitSet \ {w}
  /\ UNCHANGED <<mTaskQueue, cancel, pc, task, added, addedInTime, started,
                 handled>>

-----------------------------------------------------------------------------
(* loop: the critical section begins with the predicate of mCon.wait, also *)
(* after a wakeup, with or without a notification.                         *)
Runs(w) == pc[w] \in {"lock", "waiting"} /\ w \notin waitSet

WaitsForTasksOnly(w) ==  \* mutant of Wait: the predicate forgets mQuit
  /\ Runs(w)
  /\ mTaskQueue = << >>
  /\ pc' = [pc EXCEPT ![w] = "waiting"]
  /\ waitSet' = waitSet \cup {w}
  /\ UNCHANGED <<mTaskQueue, cancel, task, caller, started, handled>>

Wait(w) ==
  /\ Runs(w)
  /\ ~mQuit
  /\ mTaskQueue = << >>
  /\ pc' = [pc EXCEPT ![w] = "waiting"]
  /\ waitSet' = waitSet \cup {w}
  /\ UNCHANGED <<mTaskQueue, cancel, task, caller, started, handled>>

SpuriousWakeup(w) ==
  /\ w \in waitSet
  /\ waitSet' = waitSet \ {w}
  /\ UNCHANGED <<mTaskQueue, cancel, pc, task, caller, started, handled>>

BreaksAtOnce(w) ==  \* mutant of Break: the queue is not looked at
  /\ Runs(w)
  /\ mQuit
  /\ pc' = [pc EXCEPT ![w] = "exited"]
  /\ UNCHANGED <<mTaskQueue, cancel, waitSet, task, caller, started, handled>>

Break(w) ==
  /\ Runs(w)
  /\ mQuit
  /\ mTaskQueue = << >>
  /\ pc' = [pc EXCEPT ![w] = "exited"]
  /\ UNCHANGED <<mTaskQueue, cancel, waitSet, task, caller, started, handled>>

Take(w, i, rest) ==
  /\ Runs(w)
  /\ mTaskQueue # << >>
  /\ task' = [task EXCEPT ![w] = mTaskQueue[i]]
  /\ started' = [started EXCEPT ![mTaskQueue[i]] = @ + 1]
  /\ mTaskQueue' = rest
  /\ pc' = [pc EXCEPT ![w] = "handle"]
  /\ UNCHANGED <<cancel, waitSet, caller, handled>>

(* Mutants of Pop: the back instead of the front, and no front().          *)
TakesBack(w)  == Take(w, Len(mTaskQueue),
                      SubSeq(mTaskQueue, 1, Len(mTaskQueue) - 1))
OnlyPops(w)   == /\ Runs(w)
                 /\ mTaskQueue # << >>
                 /\ mTaskQueue' = Tail(mTaskQueue)
                 /\ pc' = [pc EXCEPT ![w] = "handle"]
                 /\ UNCHANGED <<cancel, waitSet, task, caller, started, handled>>

Pop(w) ==
  /\ Runs(w)
  /\ mTaskQueue # << >>
  /\ task' = [task EXCEPT ![w] = Head(mTaskQueue)]
  /\ started' = [started EXCEPT ![Head(mTaskQueue)] = @ + 1]
  /\ mTaskQueue' = Tail(mTaskQueue)
  /\ pc' = [pc EXCEPT ![w] = "handle"]
  /\ UNCHANGED <<cancel, waitSet, caller, handled>>

Handle(w) ==
  /\ pc[w] = "handle"
  /\ handled' = handled \cup {task[w]}
  /\ task' = [task EXCEPT ![w] = NoTask]
  /\ pc' = [pc EXCEPT ![w] = "lock"]
  /\ UNCHANGED <<mTaskQueue, cancel, waitSet, caller, started>>

-----------------------------------------------------------------------------
(* cancelThreads.                                                          *)

Quit ==
  /\ canceller = "no"
  /\ mQuit' = TRUE
  /\ canceller' = "notify"
  /\ UNCHANGED <<mTaskQueue, waitSet, pc, task, caller, joined, started,
                 handled>>

NotifyAll ==
  /\ canceller = "notify"
  /\ waitSet' = {}
  /\ canceller' = "join"
  /\ UNCHANGED <<mTaskQueue, mQuit, pc, task, caller, joined, started, handled>>

Join(w) ==
  /\ canceller = "join"
  /\ w \notin joined
  /\ pc[w] = "exited"
  /\ joined' = joined \cup {w}
  /\ canceller' = IF joined' = Workers THEN "done" ELSE "join"
  /\ UNCHANGED <<mTaskQueue, mQuit, waitSet, pc, task, caller, started, handled>>

-----------------------------------------------------------------------------
Loop(w) == Wait(w) \/ Break(w) \/ Pop(w) \/ Handle(w)

Next == \/ \E c \in Callers : (\E t \in Tasks : Push(c, t)) \/ NotifyOne(c)
        \/ \E w \in Workers : Loop(w) \/ SpuriousWakeup(w) \/ Join(w)
        \/ Quit
        \/ NotifyAll

Spec == Init /\ [][Next]_vars

(* Every thread runs.  A caller may stop calling addTask, but finishes a   *)
(* call it began; nothing makes a wakeup spurious.                         *)
Fairness == /\ \A w \in Workers : WF_vars(Loop(w)) /\ WF_vars(Join(w))
            /\ \A c \in Callers : WF_vars(NotifyOne(c))
            /\ WF_vars(NotifyAll)

FairSpec == Spec /\ Fairness

-----------------------------------------------------------------------------
(* Properties.                                                             *)

(* The pool is a TaskService: Begin and End of a task are Pop and Handle.  *)
Service == INSTANCE TaskService WITH running <- task
ImplementsService == Service!Spec

(* A worker is awake while a task is queued, or a caller has yet to notify.*)
QueueIsWatched ==
  mTaskQueue # << >> /\ ~mQuit =>
    notifying # {} \/ \E w \in Workers : w \notin waitSet

(* No worker waits on the condition variable once everyone who will notify *)
(* has notified.                                                           *)
NoSleeperAtJoin == canceller \in {"join", "done"} => waitSet = {}

(* No wakeup is lost: a queued task is never left to sleeping workers, and *)
(* no worker sleeps when cancelThreads joins it, for ever.                 *)
NoLostWakeup == QueueIsWatched /\ NoSleeperAtJoin

(* A task is taken at most once, and a task that was taken is no longer    *)
(* queued.                                                                 *)
TakenOnce ==
  \A t \in Tasks : /\ started[t] <= 1
                   /\ started[t] = 1 => \A i \in DOMAIN mTaskQueue :
                                           mTaskQueue[i] # t

(* The worker may not quit at once, the tasks of the queue must be handled *)
(* first (ThreadPool.cpp:58): when cancelThreads returns, every task that  *)
(* was added before mQuit was set has been handled.                        *)
DrainedWhenDone == canceller = "done" => addedInTime \subseteq handled

(* While the pool runs, every added task is eventually handled.            *)
EveryTaskHandled ==
  \A t \in Tasks : t \in addedInTime ~> t \in handled

(* cancelThreads returns.                                                  *)
CancelReturns == canceller = "notify" ~> canceller = "done"
=============================================================================
