--------------------------- MODULE FramePipeline ---------------------------
(***************************************************************************)
(* The path of a media frame through the streaming server: a MediaSource   *)
(* keeps FrameNum frame buffers in two queues.  Pool workers run           *)
(* handleTask, which reads the source's file into the frame at the front   *)
(* of mFrameInputQueue and moves it to mFrameOutputQueue; the timer thread *)
(* runs Sink::handleTimeout, which takes a frame from the output queue,    *)
(* sends it, and puts it back with a task that refills it.                 *)
(*                                                                         *)
(* One mutex per source (MediaSource::mMtx) is modelled explicitly because *)
(* it is held across file reads and across addTask; the pool's own mutex   *)
(* guards only the steps of TaskService, each of which is atomic here.     *)
(***************************************************************************)
EXTENDS Integers, Sequences, FiniteSets, Functions

CONSTANTS NumSources,  \* MediaSource objects that main() creates
          FrameNum,    \* DEFAULT_FRAME_NUM
          Workers,     \* threads of the pool
          Timer,       \* the thread that runs the timer callbacks
          Free,        \* the owner of a mutex nobody holds
          H264Sources, \* the sources that read H.264; the others read AAC
          File         \* File[s]: the units of s's file, in file order

None    == 0
Sources == 1..NumSources
Frames  == 1..FrameNum

(* "nal": a NAL unit or ADTS frame that is sent; "aud": a NAL unit that    *)
(* handleTask skips; "bad": a place where the reader returns -1.           *)
UnitKinds == {"nal", "aud", "bad"}

ASSUME PipelineAssumption ==
         /\ NumSources \in Nat
         /\ FrameNum \in Nat
         /\ IsFiniteSet(Workers)
         /\ Free \notin Workers \cup {Timer}
         /\ Timer \notin Workers
         /\ H264Sources \subseteq Sources
         /\ File \in [Sources -> Seq(UnitKinds)]

VARIABLES
  mFrameInputQueue,   \* [s]: frames waiting to be filled
  mFrameOutputQueue,  \* [s]: frames filled and waiting to be sent
  mBuf,               \* [s][f]: which unit of the file frame f holds
  pos,                \* [s]: the unit at the file position of s
  mMtx,               \* [s]: the thread that owns MediaSource::mMtx
  mTaskQueue,         \* the pool's queue; a task is named by its source
  running,            \* [w]: the source whose task worker w executes
  booted,             \* [s]: tasks that the constructor of s has added
  sink,               \* the timer thread: its step, source and frame
  lastSent            \* [s]: the unit that was sent last, None at first

vars == <<mFrameInputQueue, mFrameOutputQueue, mBuf, pos, mMtx, mTaskQueue,
          running, booted, sink, lastSent>>
queues == <<mFrameInputQueue, mFrameOutputQueue>>
pool   == <<mTaskQueue, running>>

Pool == INSTANCE TaskService WITH Tasks <- Sources, NoTask <- None

SinkSteps == {"idle", "get", "send", "put", "add"}

TypeOK ==
  /\ mFrameInputQueue  \in [Sources -> Seq(Frames)]
  /\ mFrameOutputQueue \in [Sources -> Seq(Frames)]
  /\ mBuf \in [Sources -> [Frames -> Nat]]
  /\ pos \in [Sources -> Nat]
  /\ mMtx \in [Sources -> Workers \cup {Timer, Free}]
  /\ Pool!TypeOK
  /\ booted \in [Sources -> 0..FrameNum]
  /\ sink \in [step : SinkSteps, src : Sources \cup {None},
               frame : Frames \cup {None}]
  /\ lastSent \in [Sources -> Nat]

Init ==
  /\ mFrameInputQueue  = [s \in Sources |-> [i \in 1..FrameNum |-> i]]
  /\ mFrameOutputQueue = [s \in Sources |-> << >>]
  /\ mBuf = [s \in Sources |-> [f \in Frames |-> None]]
  /\ pos = [s \in Sources |-> 1]
  /\ mMtx = [s \in Sources |-> Free]
  /\ Pool!Init
  /\ booted = [s \in Sources |-> 0]
  /\ sink = [step |-> "idle", src |-> None, frame |-> None]
  /\ lastSent = [s \in Sources |-> None]

-----------------------------------------------------------------------------
(* The main thread constructs the sources one after the other; each        *)
(* constructor adds FrameNum tasks, while the workers already run.         *)
OneTooMany(s) ==  \* mutant of AddBootTask: off by one
  /\ booted[s] <= FrameNum
  /\ booted' = [booted EXCEPT ![s] = @ + 1]
  /\ Pool!Submit(s)
  /\ UNCHANGED <<queues, mBuf, pos, mMtx, sink, lastSent>>

AddBootTask(s) ==
  /\ booted[s] < FrameNum
  /\ \A r \in 1..(s - 1) : booted[r] = FrameNum
  /\ booted' = [booted EXCEPT ![s] = @ + 1]
  /\ Pool!Submit(s)
  /\ UNCHANGED <<queues, mBuf, pos, mMtx, sink, lastSent>>

-----------------------------------------------------------------------------
(* The file readers, getFrameFromH264File and getFrameFromAACFile.         *)

(* A position outside the file is a missing file, or a reader that lost    *)
(* the ADTS headers.                                                       *)
UnitAt(s, p) == IF p \in DOMAIN File[s] THEN File[s][p] ELSE "bad"

(* Both readers go back to the beginning at the end of the file.           *)
RewindsEarly(s, p) ==  \* mutant of NextUnit
  IF p + 1 >= Len(File[s]) THEN 1 ELSE p + 1
NextUnit(s, p) == IF p = Len(File[s]) THEN 1 ELSE p + 1

(* After -1 the H.264 reader has gone back to the beginning; the AAC       *)
(* reader stays where the bad header ended, on a frame or between frames   *)
(* (0), or at the end of the file, from which it starts again.             *)
PosAfterError(s, p) ==
  IF s \in H264Sources THEN {1} ELSE {0, 1} \cup (p + 1)..Len(File[s])

-----------------------------------------------------------------------------
(* A pool worker runs handleTask for the source of its task.               *)

TakeTask(w) ==
  /\ Pool!Begin(w)
  /\ UNCHANGED <<queues, mBuf, pos, mMtx, booted, sink, lastSent>>

Holds(w) == running[w] # None /\ mMtx[running[w]] = w

LockSource(w) ==
  /\ running[w] # None
  /\ mMtx[running[w]] = Free
  /\ mMtx' = [mMtx EXCEPT ![running[w]] = w]
  /\ UNCHANGED <<queues, mBuf, pos, pool, booted, sink, lastSent>>

(* handleTask returns: the lock_guard releases the mutex, the task ends.   *)
ReturnFromTask(w) ==
  /\ Pool!End(w)
  /\ mMtx' = [mMtx EXCEPT ![running[w]] = Free]
  /\ UNCHANGED <<booted, sink, lastSent>>

(* One call of the reader, for the frame at the front of the input queue.  *)
ReadUnit(w, kind) ==
  /\ Holds(w)
  /\ mFrameInputQueue[running[w]] # << >>
  /\ UnitAt(running[w], pos[running[w]]) = kind

(* The loop of H264FileMediaSource::handleTask reads on after an AUD.      *)
SkipAud(w) ==
  LET s == running[w] IN
  /\ ReadUnit(w, "aud")
  /\ pos' = [pos EXCEPT ![s] = NextUnit(s, @)]
  /\ mBuf' = [mBuf EXCEPT ![s][Head(mFrameInputQueue[s])] = pos[s]]
  /\ UNCHANGED <<queues, mMtx, pool, booted, sink, lastSent>>

(* The task ends without a frame: the input queue is empty, or the reader  *)
(* returned -1 and the frame stays where it is.                            *)
FailTask(w) ==
  LET s == running[w]
      noFrame == mFrameInputQueue[s] = << >> IN
  /\ Holds(w)
  /\ noFrame \/ UnitAt(s, pos[s]) = "bad"
  /\ \E p \in IF noFrame THEN {pos[s]} ELSE PosAfterError(s, pos[s]) :
       pos' = [pos EXCEPT ![s] = p]
  /\ ReturnFromTask(w)
  /\ UNCHANGED <<queues, mBuf>>

KeepsFront(w) ==  \* mutant of FillFrame: no pop
  LET s == running[w] IN
  /\ ReadUnit(w, "nal")
  /\ pos' = [pos EXCEPT ![s] = NextUnit(s, @)]
  /\ mBuf' = [mBuf EXCEPT ![s][Head(mFrameInputQueue[s])] = pos[s]]
  /\ mFrameOutputQueue' = [mFrameOutputQueue EXCEPT
                             ![s] = Append(@, Head(mFrameInputQueue[s]))]
  /\ ReturnFromTask(w)
  /\ UNCHANGED mFrameInputQueue

(* A frame was read: it moves from the input to the output queue.          *)
FillFrame(w) ==
  LET s == running[w] IN
  /\ ReadUnit(w, "nal")
  /\ pos' = [pos EXCEPT ![s] = NextUnit(s, @)]
  /\ mBuf' = [mBuf EXCEPT ![s][Head(mFrameInputQueue[s])] = pos[s]]
  /\ mFrameOutputQueue' = [mFrameOutputQueue EXCEPT
                             ![s] = Append(@, Head(mFrameInputQueue[s]))]
  /\ mFrameInputQueue' = [mFrameInputQueue EXCEPT ![s] = Tail(@)]
  /\ ReturnFromTask(w)

-----------------------------------------------------------------------------
(* The timer thread: Sink::handleTimeout.  loop() starts this thread after *)
(* main() has built every source.                                          *)

Timeout(s) ==
  /\ \A r \in Sources : booted[r] = FrameNum
  /\ sink.step = "idle"
  /\ sink' = [step |-> "get", src |-> s, frame |-> None]
  /\ UNCHANGED <<queues, mBuf, pos, mMtx, pool, booted, lastSent>>

AddsWithoutFrame ==  \* mutant of GetFrameFromOutputQueue: no early return
  LET s == sink.src IN
  /\ sink.step = "get"
  /\ mMtx[s] = Free
  /\ mFrameOutputQueue[s] = << >>
  /\ mMtx' = [mMtx EXCEPT ![s] = Timer]
  /\ sink' = [sink EXCEPT !.step = "add"]
  /\ UNCHANGED <<queues, mBuf, pos, pool, booted, lastSent>>

GetFrameFromOutputQueue ==
  LET s == sink.src IN
  /\ sink.step = "get"
  /\ mMtx[s] = Free
  /\ IF mFrameOutputQueue[s] = << >>
       THEN /\ sink' = [sink EXCEPT !.step = "idle"]
            /\ UNCHANGED mFrameOutputQueue
       ELSE /\ sink' = [sink EXCEPT !.step = "send",
                                    !.frame = Head(mFrameOutputQueue[s])]
            /\ mFrameOutputQueue' = [mFrameOutputQueue EXCEPT ![s] = Tail(@)]
  /\ UNCHANGED <<mFrameInputQueue, mBuf, pos, mMtx, pool, booted, lastSent>>

(* sendFrame reads the frame's buffer without a lock.                      *)
SendFrame ==
  /\ sink.step = "send"
  /\ lastSent' = [lastSent EXCEPT ![sink.src] = mBuf[sink.src][sink.frame]]
  /\ sink' = [sink EXCEPT !.step = "put"]
  /\ UNCHANGED <<queues, mBuf, pos, mMtx, pool, booted>>

(* putFrameToInputQueue: the push, and then addTask, under the mutex.      *)
PutFrameToInputQueue ==
  LET s == sink.src IN
  /\ sink.step = "put"
  /\ mMtx[s] = Free
  /\ mMtx' = [mMtx EXCEPT ![s] = Timer]
  /\ mFrameInputQueue' = [mFrameInputQueue EXCEPT ![s] = Append(@, sink.frame)]
  /\ sink' = [sink EXCEPT !.step = "add", !.frame = None]
  /\ UNCHANGED <<mFrameOutputQueue, mBuf, pos, pool, booted, lastSent>>

AddsNoTask ==  \* mutant of AddTask
  /\ sink.step = "add"
  /\ mMtx' = [mMtx EXCEPT ![sink.src] = Free]
  /\ sink' = [sink EXCEPT !.step = "idle"]
  /\ UNCHANGED <<queues, mBuf, pos, pool, booted, lastSent>>

AddTask ==
  /\ sink.step = "add"
  /\ Pool!Submit(sink.src)
  /\ mMtx' = [mMtx EXCEPT ![sink.src] = Free]
  /\ sink' = [sink EXCEPT !.step = "idle"]
  /\ UNCHANGED <<queues, mBuf, pos, booted, lastSent>>

-----------------------------------------------------------------------------
HandleTask(w) == \/ LockSource(w)
                 \/ SkipAud(w)
                 \/ FailTask(w)
                 \/ FillFrame(w)

HandleTimeout == \/ GetFrameFromOutputQueue
                 \/ SendFrame
                 \/ PutFrameToInputQueue
                 \/ AddTask

Next == \/ \E w \in Workers : TakeTask(w) \/ HandleTask(w)
        \/ \E s \in Sources : AddBootTask(s) \/ Timeout(s)
        \/ HandleTimeout

Spec == Init /\ [][Next]_vars

(* Every thread is scheduled.  A mutex that is free again and again is     *)
(* given to each thread that waits for it; the timer thread serves each    *)
(* sink's timer again and again (TimerManager.tla).                        *)
Fairness == /\ \A w \in Workers : /\ WF_vars(TakeTask(w))
                                  /\ SF_vars(LockSource(w))
                                  /\ WF_vars(HandleTask(w))
            /\ \A s \in Sources : WF_vars(AddBootTask(s)) /\ SF_vars(Timeout(s))
            /\ SF_vars(HandleTimeout)

FairSpec == Spec /\ Fairness

-----------------------------------------------------------------------------
(* Properties.                                                             *)

HeldBySink(s) == IF sink.src = s /\ sink.frame # None THEN {sink.frame} ELSE {}

(* The two queues recycle a fixed set of buffers (MediaSource.cpp:3-8): at *)
(* every moment each frame is in one queue, once, or held by the timer     *)
(* thread.  A frame in two places would be filled while it is being sent;  *)
(* a frame in none is lost to the pipeline for good.                       *)
Conserved(s) ==
  LET in == mFrameInputQueue[s]  out == mFrameOutputQueue[s] IN
  /\ Range(in) \cup Range(out) \cup HeldBySink(s) = Frames
  /\ IsInjective(in) /\ IsInjective(out)
  /\ Range(in) \cap Range(out) = {}
  /\ HeldBySink(s) \cap (Range(in) \cup Range(out)) = {}
FrameConservation == \A s \in Sources : Conserved(s)

(* Tasks that are queued, running or still to be added for source s.       *)
PendingTasks(s) ==
  Cardinality({i \in DOMAIN mTaskQueue : mTaskQueue[i] = s})
  + Cardinality({w \in Workers : running[w] = s})
  + (FrameNum - booted[s])
  + (IF sink.step = "add" /\ sink.src = s THEN 1 ELSE 0)

(* putFrameToInputQueue pushes the frame before its task, under the mutex, *)
(* so there is never a task without a frame: the early return of           *)
(* handleTask on an empty queue is not taken, however tasks of several     *)
(* workers, constructors and the timer thread interleave.                  *)
NoTaskWithoutFrame ==
  \A s \in Sources : PendingTasks(s) <= Len(mFrameInputQueue[s])

(* A frame that is filled keeps its content until it was sent: no worker   *)
(* writes into a frame of the output queue or in the hands of sendFrame.   *)
Filled(s) == Range(mFrameOutputQueue[s]) \cup
             (IF sink.step = "send" THEN HeldBySink(s) ELSE {})
FilledFrameKept ==
  [][\A s \in Sources : \A f \in Filled(s) : mBuf'[s][f] = mBuf[s][f]]_vars

(* Frames leave in the order of the file: each unit sent is the first      *)
(* sendable one after the unit sent before it, around the end of the file; *)
(* only a read error starts over at the first one (H.264).                 *)
Sendable(s)  == {p \in DOMAIN File[s] : File[s][p] = "nal"}
FirstUnit(s) == CHOOSE p \in Sendable(s) : \A q \in Sendable(s) : p <= q
UnitAfter(s, p) ==
  IF \E q \in Sendable(s) : q > p
    THEN CHOOSE q \in Sendable(s) :
           q > p /\ \A r \in Sendable(s) : r > p => q <= r
    ELSE FirstUnit(s)
SentInFileOrder ==
  [][sink.step = "send" /\ sink'.step = "put" =>
       \/ lastSent'[sink.src] = UnitAfter(sink.src, lastSent[sink.src])
       \/ /\ "bad" \in Range(File[sink.src])
          /\ sink.src \in H264Sources
               => lastSent'[sink.src] = FirstUnit(sink.src)]_vars

(* The task that putFrameToInputQueue adds fills the frame it was added    *)
(* for (MediaSource.cpp:30): a frame does not stay in the input queue.     *)
(* The code breaks this when a file cannot be read.                        *)
InputFrameFilled ==
  \A s \in Sources, f \in Frames :
    f \in Range(mFrameInputQueue[s]) ~> f \in Range(mFrameOutputQueue[s])

(* A stream never stops: the sink of a source whose file can be read sends *)
(* again and again, also when the tasks of other sources, which share the  *)
(* workers and the timer thread, fail.                                     *)
Intact(s) == "bad" \notin Range(File[s])
StreamNeverStops ==
  \A s \in Sources : Intact(s) => []<>(sink.step = "put" /\ sink.src = s)
=============================================================================
