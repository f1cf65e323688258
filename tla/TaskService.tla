---------------------------- MODULE TaskService ----------------------------
(***************************************************************************)
(* What ThreadPool promises the threads that call addTask: tasks are taken *)
(* in the order they were added, each by one worker, and a worker runs one *)
(* task at a time.  Mutexes, the condition variable and quitting are left  *)
(* out; ThreadPool.tla has them and implements this module.                *)
(***************************************************************************)
EXTENDS Sequences

CONSTANTS Workers, \* the pool's threads
          Tasks,   \* the Task objects that callers may add
          NoTask   \* a worker that runs no task

VARIABLES mTaskQueue, \* tasks not yet taken by a worker
          running     \* running[w]: the task worker w executes, or NoTask

TypeOK == /\ mTaskQueue \in Seq(Tasks)
          /\ running \in [Workers -> Tasks \cup {NoTask}]

Init == /\ mTaskQueue = << >>
        /\ running = [w \in Workers |-> NoTask]

(* addTask: the critical section pushes a copy of the task.                *)
Submit(t) == /\ mTaskQueue' = Append(mTaskQueue, t)
             /\ UNCHANGED running

(* loop: a worker leaves its critical section with the front task.         *)
Begin(w) == /\ running[w] = NoTask
            /\ mTaskQueue # << >>
            /\ running' = [running EXCEPT ![w] = Head(mTaskQueue)]
            /\ mTaskQueue' = Tail(mTaskQueue)

(* loop: task.handle() returned and the worker is back at the loop's head. *)
End(w) == /\ running[w] # NoTask
          /\ running' = [running EXCEPT ![w] = NoTask]
          /\ UNCHANGED mTaskQueue

Next == \/ \E t \in Tasks : Submit(t)
        \/ \E w \in Workers : Begin(w) \/ End(w)

Spec == Init /\ [][Next]_<<mTaskQueue, running>>
=============================================================================
