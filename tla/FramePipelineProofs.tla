------------------------ MODULE FramePipelineProofs ------------------------
(***************************************************************************)
(* Proofs about FramePipeline, for any number of sources, frames and       *)
(* workers and for any files.                                              *)
(***************************************************************************)
EXTENDS FramePipeline, SequenceTheorems, FiniteSetTheorems,
        FunctionTheorems, WellFoundedInduction, TLAPS

(* Removing the front of a queue shifts the others; adding puts one last.  *)
LEMMA TailElems ==
  ASSUME NEW S, NEW q \in Seq(S), q # << >>
  PROVE  /\ Head(q) \in S
         /\ Head(q) = q[1]
         /\ 1 \in DOMAIN q
         /\ Tail(q) \in Seq(S)
         /\ \A i \in DOMAIN Tail(q) : /\ i \in Nat \ {0}
                                      /\ i + 1 \in DOMAIN q
                                      /\ Tail(q)[i] = q[i + 1]
         /\ \A i \in DOMAIN q : i # 1 => i - 1 \in DOMAIN Tail(q)
  OBVIOUS

LEMMA AppendElems ==
  ASSUME NEW S, NEW q \in Seq(S), NEW e \in S
  PROVE  /\ Append(q, e) \in Seq(S)
         /\ DOMAIN Append(q, e) = DOMAIN q \cup {Len(q) + 1}
         /\ Len(q) + 1 \notin DOMAIN q
         /\ \A i \in DOMAIN q : Append(q, e)[i] = q[i]
         /\ Append(q, e)[Len(q) + 1] = e
  OBVIOUS

(* The front element leaves a queue without duplicates, and only it.       *)
LEMMA PopFront ==
  ASSUME NEW S, NEW q \in Seq(S), q # << >>, IsInjective(q)
  PROVE  /\ Head(q) \in Range(q)
         /\ Range(Tail(q)) = Range(q) \ {Head(q)}
         /\ IsInjective(Tail(q))
<1>1. \A i \in DOMAIN q : \A j \in DOMAIN q : q[i] = q[j] => i = j
      BY DEF IsInjective
<1>2. /\ Head(q) = q[1]
      /\ 1 \in DOMAIN q
      /\ \A i \in DOMAIN Tail(q) : /\ i \in Nat \ {0}
                                   /\ i + 1 \in DOMAIN q
                                   /\ Tail(q)[i] = q[i + 1]
      /\ \A i \in DOMAIN q : i \in Nat /\ (i # 1 => i - 1 \in DOMAIN Tail(q))
      BY TailElems
<1>3. \A i, j \in DOMAIN Tail(q) : Tail(q)[i] = Tail(q)[j] => i = j
      BY <1>1, <1>2
<1>4. \A i \in DOMAIN Tail(q) : Tail(q)[i] \in Range(q) \ {Head(q)}
      BY <1>1, <1>2 DEF Range
<1>5. ASSUME NEW e \in Range(q) \ {Head(q)} PROVE e \in Range(Tail(q))
  <2>1. PICK i \in DOMAIN q : q[i] = e
        BY <1>5 DEF Range
  <2>2. i # 1 /\ i - 1 \in DOMAIN Tail(q) /\ Tail(q)[i - 1] = q[(i - 1) + 1]
        BY <1>2, <1>5, <2>1
  <2>3. (i - 1) + 1 = i
        BY <1>2
  <2> QED BY <2>1, <2>2, <2>3 DEF Range
<1>6. Head(q) \in Range(q)
      BY <1>2 DEF Range
<1>7. Range(Tail(q)) = Range(q) \ {Head(q)}
      BY <1>4, <1>5 DEF Range
<1> QED BY <1>3, <1>6, <1>7 DEF IsInjective

(* A new element joins the others at the back.                             *)
LEMMA PushBack ==
  ASSUME NEW S, NEW q \in Seq(S), NEW e \in S
  PROVE  /\ Range(Append(q, e)) = Range(q) \cup {e}
         /\ IsInjective(q) /\ e \notin Range(q) => IsInjective(Append(q, e))
<1> DEFINE last == Len(q) + 1
<1>1. /\ DOMAIN Append(q, e) = DOMAIN q \cup {last}
      /\ last \notin DOMAIN q
      /\ \A i \in DOMAIN q : Append(q, e)[i] = q[i]
      /\ Append(q, e)[last] = e
      BY AppendElems
<1> HIDE DEF last
<1>2. Range(Append(q, e)) = Range(q) \cup {e}
      BY <1>1 DEF Range
<1>3. ASSUME IsInjective(q), e \notin Range(q) PROVE IsInjective(Append(q, e))
  <2>1. \A i \in DOMAIN q : q[i] # e
        BY <1>3 DEF Range
  <2> QED BY <1>1, <1>3, <2>1 DEF IsInjective
<1> QED BY <1>2, <1>3

(* Positions of an element in a queue, of which there are finitely many.   *)
Positions(q, e) == {i \in DOMAIN q : q[i] = e}

LEMMA FinitePositions ==
  ASSUME NEW S, NEW q \in Seq(S), NEW e
  PROVE  IsFiniteSet(Positions(q, e)) /\ Cardinality(Positions(q, e)) \in Nat
<1>1. Positions(q, e) \in SUBSET (1..Len(q)) /\ Len(q) \in Nat
      BY DEF Positions
<1>2. IsFiniteSet(1..Len(q))
      BY <1>1, FS_Interval
<1> QED BY <1>1, <1>2, FS_Subset, FS_CardinalityType

(* A push adds one to the count of the element that is pushed, and a pop   *)
(* takes one from the count of the front.                                  *)
LEMMA PushCounts ==
  ASSUME NEW S, NEW q \in Seq(S), NEW x \in S, NEW e
  PROVE  Cardinality(Positions(Append(q, x), e)) =
           Cardinality(Positions(q, e)) + (IF x = e THEN 1 ELSE 0)
<1> DEFINE last == Len(q) + 1
<1>1. /\ DOMAIN Append(q, x) = DOMAIN q \cup {last}
      /\ last \notin DOMAIN q
      /\ \A i \in DOMAIN q : Append(q, x)[i] = q[i]
      /\ Append(q, x)[last] = x
      BY AppendElems
<1> HIDE DEF last
<1>2. last \notin Positions(q, e)
      BY <1>1 DEF Positions
<1>3. /\ IsFiniteSet(Positions(q, e)) /\ Cardinality(Positions(q, e)) \in Nat
      BY FinitePositions
<1>4. CASE x = e
  <2>1. Positions(Append(q, x), e) = Positions(q, e) \cup {last}
        BY <1>1, <1>4 DEF Positions
  <2> QED BY <1>2, <1>3, <1>4, <2>1, FS_AddElement
<1>5. CASE x # e
  <2>1. Positions(Append(q, x), e) = Positions(q, e)
        BY <1>1, <1>5 DEF Positions
  <2> QED BY <1>3, <1>5, <2>1
<1> QED BY <1>4, <1>5

LEMMA PopCounts ==
  ASSUME NEW S, NEW q \in Seq(S), q # << >>, NEW e
  PROVE  Cardinality(Positions(q, e)) =
           Cardinality(Positions(Tail(q), e)) + (IF Head(q) = e THEN 1 ELSE 0)
<1> DEFINE rest  == Positions(q, e) \ {1}
           shift == [i \in Positions(Tail(q), e) |-> i + 1]
<1>1. /\ Head(q) = q[1]
      /\ 1 \in DOMAIN q
      /\ Tail(q) \in Seq(S)
      /\ \A i \in DOMAIN Tail(q) : /\ i \in Nat \ {0}
                                   /\ i + 1 \in DOMAIN q
                                   /\ Tail(q)[i] = q[i + 1]
      /\ \A i \in DOMAIN q : i \in Nat /\ (i # 1 => i - 1 \in DOMAIN Tail(q))
      BY TailElems
<1>2. /\ IsFiniteSet(Positions(q, e)) /\ Cardinality(Positions(q, e)) \in Nat
      /\ IsFiniteSet(Positions(Tail(q), e))
      BY <1>1, FinitePositions
<1>3. shift \in Bijection(Positions(Tail(q), e), rest)
  <2>1. shift \in [Positions(Tail(q), e) -> rest]
        BY <1>1 DEF Positions
  <2>2. \A i, j \in Positions(Tail(q), e) : shift[i] = shift[j] => i = j
        BY <1>1 DEF Positions
  <2>3. ASSUME NEW k \in rest PROVE \E i \in Positions(Tail(q), e) : shift[i] = k
    <3>1. /\ k - 1 \in DOMAIN Tail(q) /\ (k - 1) + 1 = k /\ q[k] = e
          BY <1>1 DEF Positions
    <3>2. k - 1 \in Positions(Tail(q), e)
          BY <1>1, <3>1 DEF Positions
    <3> QED BY <3>1, <3>2
  <2> QED BY <2>1, <2>2, <2>3, Fun_IsBij
<1> HIDE DEF shift
<1>4. Cardinality(rest) = Cardinality(Positions(Tail(q), e))
      BY <1>2, <1>3, FS_Bijection DEF ExistsBijection
<1>5. Cardinality(rest) = IF 1 \in Positions(q, e) THEN Cardinality(Positions(q, e)) - 1
                                                   ELSE Cardinality(Positions(q, e))
      BY <1>2, FS_RemoveElement
<1>6. 1 \in Positions(q, e) <=> Head(q) = e
      BY <1>1 DEF Positions
<1> HIDE DEF rest
<1> QED BY <1>2, <1>4, <1>5, <1>6

-----------------------------------------------------------------------------
(* The timer thread works for a source while it is not idle, and has a     *)
(* frame in its hands between taking it and putting it back.               *)
SinkBusy == /\ sink.step # "idle" => sink.src \in Sources
            /\ sink.frame # None <=> sink.step \in {"send", "put"}

Placed == TypeOK /\ SinkBusy /\ FrameConservation

-----------------------------------------------------------------------------
(* The queues are full of empty frames at first.                           *)
LEMMA Initial == Init => Placed
<1> SUFFICES ASSUME Init PROVE Placed
    OBVIOUS
<1> USE PipelineAssumption DEF Init, Sources, Frames, None
<1>1. TypeOK
  <2>1. [i \in 1..FrameNum |-> i] \in Seq(Frames)
        OBVIOUS
  <2>2. Pool!TypeOK
        BY DEF Pool!Init, Pool!TypeOK
  <2>3. /\ sink \in [step : SinkSteps, src : Sources \cup {None},
                     frame : Frames \cup {None}]
        BY DEF SinkSteps
  <2> QED BY <2>1, <2>2, <2>3 DEF TypeOK
<1>2. SinkBusy
      BY DEF SinkBusy
<1>3. FrameConservation
      BY DEF FrameConservation, Conserved, HeldBySink, Range, IsInjective
<1> QED BY <1>1, <1>2, <1>3 DEF Placed

(* The readers' next positions are numbers.                                *)
LEMMA NextUnitType ==
  ASSUME NEW s \in Sources, NEW p \in Nat
  PROVE  NextUnit(s, p) \in Nat
  BY DEF NextUnit

LEMMA PosAfterErrorType ==
  ASSUME NEW s \in Sources, NEW p \in Nat
  PROVE  PosAfterError(s, p) \subseteq Nat
<1>1. File[s] \in Seq(UnitKinds)
      BY PipelineAssumption
<1> QED BY <1>1 DEF PosAfterError

(* Every step keeps the types.                                             *)
LEMMA TypeStep == TypeOK /\ SinkBusy /\ [Next]_vars => TypeOK' /\ SinkBusy'
<1> DEFINE Typed == TypeOK /\ SinkBusy
<1> SUFFICES ASSUME Typed, [Next]_vars PROVE Typed'
    OBVIOUS
<1> USE PipelineAssumption DEF TypeOK, SinkBusy, queues, pool, Pool!TypeOK, SinkSteps
<1>0. None \notin Sources /\ None \notin Frames
      BY DEF None, Sources, Frames
<1>1. ASSUME NEW s \in Sources, AddBootTask(s) PROVE Typed'
  <2>1. mTaskQueue' \in Seq(Sources)
        BY <1>1, AppendElems DEF AddBootTask, Pool!Submit
  <2>2. booted' \in [Sources -> 0..FrameNum]
    <3>1. /\ booted \in [Sources -> 0..FrameNum]
          /\ booted[s] < FrameNum
          /\ booted' = [booted EXCEPT ![s] = @ + 1]
          BY <1>1 DEF AddBootTask
    <3>2. booted[s] + 1 \in 0..FrameNum
          BY <3>1
    <3> QED BY <3>1, <3>2
  <2> QED BY <1>1, <2>1, <2>2 DEF AddBootTask, Pool!Submit
<1>2. ASSUME NEW w \in Workers, TakeTask(w) PROVE Typed'
      BY <1>2, TailElems DEF TakeTask, Pool!Begin
<1>3. ASSUME NEW w \in Workers, LockSource(w) PROVE Typed'
      BY <1>3 DEF LockSource
<1>4. ASSUME NEW w \in Workers, SkipAud(w) PROVE Typed'
  <2> DEFINE s == running[w]
  <2>1. s \in Sources /\ UnitAt(s, pos[s]) = "aud"
        BY <1>4 DEF SkipAud, ReadUnit, Holds
  <2>2. pos' \in [Sources -> Nat]
        BY <1>4, <2>1, NextUnitType DEF SkipAud
  <2>3. mBuf' \in [Sources -> [Frames -> Nat]]
        BY <1>4 DEF SkipAud
  <2> QED BY <1>4, <2>2, <2>3 DEF SkipAud
<1>5. ASSUME NEW w \in Workers, FailTask(w) PROVE Typed'
  <2>1. running' \in [Workers -> Sources \cup {None}]
        BY <1>5 DEF FailTask, ReturnFromTask, Pool!End
  <2>2. pos' \in [Sources -> Nat]
        BY <1>5, PosAfterErrorType DEF FailTask, Holds
  <2> QED BY <1>5, <2>1, <2>2 DEF FailTask, ReturnFromTask, Pool!End
<1>6. ASSUME NEW w \in Workers, FillFrame(w) PROVE Typed'
  <2> DEFINE s == running[w]
  <2>1. s \in Sources /\ UnitAt(s, pos[s]) = "nal" /\ mFrameInputQueue[s] # << >>
        BY <1>6 DEF FillFrame, ReadUnit, Holds
  <2>2. /\ Head(mFrameInputQueue[s]) \in Frames
        /\ Tail(mFrameInputQueue[s]) \in Seq(Frames)
        BY <2>1, TailElems
  <2>3. Append(mFrameOutputQueue[s], Head(mFrameInputQueue[s])) \in Seq(Frames)
        BY <2>1, <2>2, AppendElems
  <2>4. /\ mFrameInputQueue' \in [Sources -> Seq(Frames)]
        /\ mFrameOutputQueue' \in [Sources -> Seq(Frames)]
        BY <1>6, <2>2, <2>3 DEF FillFrame
  <2>5. pos' \in [Sources -> Nat]
        BY <1>6, <2>1, NextUnitType DEF FillFrame
  <2>6. mBuf' \in [Sources -> [Frames -> Nat]]
        BY <1>6 DEF FillFrame
  <2>7. running' \in [Workers -> Sources \cup {None}]
        BY <1>6 DEF FillFrame, ReturnFromTask, Pool!End
  <2> QED
      BY <1>6, <2>4, <2>5, <2>6, <2>7 DEF FillFrame, ReturnFromTask, Pool!End
<1>7. ASSUME NEW s \in Sources, Timeout(s) PROVE Typed'
      BY <1>7 DEF Timeout
<1>8. CASE GetFrameFromOutputQueue
  <2>1. sink.src \in Sources /\ sink.frame = None
        BY <1>8 DEF GetFrameFromOutputQueue
  <2>2. CASE mFrameOutputQueue[sink.src] = << >>
        BY <1>8, <2>1, <2>2 DEF GetFrameFromOutputQueue
  <2>3. CASE mFrameOutputQueue[sink.src] # << >>
    <3>1. /\ Head(mFrameOutputQueue[sink.src]) \in Frames
          /\ Tail(mFrameOutputQueue[sink.src]) \in Seq(Frames)
          BY <2>1, <2>3, TailElems
    <3>2. mFrameOutputQueue' \in [Sources -> Seq(Frames)]
          BY <1>8, <2>3, <3>1 DEF GetFrameFromOutputQueue
    <3>3. /\ sink' \in [step : SinkSteps, src : Sources \cup {None},
                       frame : Frames \cup {None}]
          /\ sink'.src = sink.src /\ sink'.step = "send" /\ sink'.frame \in Frames
      <4>1. sink' = [step |-> "send", src |-> sink.src,
                     frame |-> Head(mFrameOutputQueue[sink.src])]
            BY <1>8, <2>3 DEF GetFrameFromOutputQueue
      <4> QED BY <4>1, <2>1, <3>1
    <3> QED BY <1>0, <1>8, <2>1, <3>2, <3>3 DEF GetFrameFromOutputQueue
  <2> QED BY <2>2, <2>3
<1>9. CASE SendFrame
  <2>1. sink.src \in Sources /\ sink.frame \in Frames
        BY <1>9 DEF SendFrame
  <2>2. lastSent' \in [Sources -> Nat]
        BY <1>9, <2>1 DEF SendFrame
  <2> QED BY <1>9, <2>1, <2>2 DEF SendFrame
<1>10. CASE PutFrameToInputQueue
      BY <1>0, <1>10, AppendElems DEF PutFrameToInputQueue
<1>11. CASE AddTask
      BY <1>11, AppendElems DEF AddTask, Pool!Submit
<1>12. CASE UNCHANGED vars
      BY <1>12 DEF vars
<1> QED
    BY <1>1, <1>2, <1>3, <1>4, <1>5, <1>6, <1>7, <1>8, <1>9, <1>10, <1>11, <1>12
    DEF Next, HandleTask, HandleTimeout

-----------------------------------------------------------------------------
(* A step moves at most one frame: from the front of the input queue to    *)
(* the back of the output queue, from there to the sink, and from the sink *)
(* to the back of the input queue.                                         *)
LEMMA ConservationStep ==
  TypeOK /\ SinkBusy /\ FrameConservation /\ [Next]_vars => FrameConservation'
<1> SUFFICES ASSUME TypeOK, SinkBusy, FrameConservation, [Next]_vars,
                    NEW r \in Sources
             PROVE  Conserved(r)'
    BY DEF FrameConservation
<1> USE DEF TypeOK, SinkBusy, queues, HeldBySink, Conserved
<1>0. Conserved(r) /\ None \notin Sources /\ None \notin Frames
      BY DEF FrameConservation, None, Sources, Frames
<1>1. ASSUME UNCHANGED queues,
             \/ sink'.src = sink.src /\ sink'.frame = sink.frame
             \/ sink'.frame = None /\ sink.frame = None
      PROVE  Conserved(r)'
      BY <1>0, <1>1
<1>2. ASSUME NEW w \in Workers, FillFrame(w) PROVE Conserved(r)'
  <2> DEFINE s == running[w]
             in == mFrameInputQueue[s]
             out == mFrameOutputQueue[s]
             f == Head(in)
  <2>1. s \in Sources /\ in # << >> /\ in \in Seq(Frames) /\ out \in Seq(Frames)
        BY <1>2 DEF FillFrame, ReadUnit, Holds, Pool!TypeOK
  <2>2. /\ mFrameInputQueue' = [mFrameInputQueue EXCEPT ![s] = Tail(in)]
        /\ mFrameOutputQueue' = [mFrameOutputQueue EXCEPT ![s] = Append(out, f)]
        /\ UNCHANGED sink
        BY <1>2 DEF FillFrame, ReturnFromTask
  <2>3. CASE r # s
        BY <1>0, <2>2, <2>3
  <2>4. CASE r = s
    <3>0. IsInjective(in) /\ f \in Frames
          BY <1>0, <2>1, <2>4, TailElems
    <3>1. /\ f \in Range(in)
          /\ Range(Tail(in)) = Range(in) \ {f}
          /\ IsInjective(Tail(in))
          BY <2>1, <3>0, PopFront
    <3>2. /\ Range(Append(out, f)) = Range(out) \cup {f}
          /\ IsInjective(Append(out, f))
          BY <1>0, <2>1, <2>4, <3>0, <3>1, PushBack
    <3>3. mFrameInputQueue'[r] = Tail(in) /\ mFrameOutputQueue'[r] = Append(out, f)
          BY <2>1, <2>2, <2>4
    <3> HIDE DEF f
    <3> QED BY <1>0, <2>2, <2>4, <3>0, <3>1, <3>2, <3>3
  <2> QED BY <2>3, <2>4
<1>3. CASE GetFrameFromOutputQueue
  <2> DEFINE s == sink.src
             out == mFrameOutputQueue[s]
             f == Head(out)
  <2>1. CASE out = << >>
        BY <1>1, <1>3, <2>1 DEF GetFrameFromOutputQueue
  <2>2. CASE out # << >>
    <3>1. s \in Sources /\ sink.frame = None /\ UNCHANGED mFrameInputQueue
          BY <1>3 DEF GetFrameFromOutputQueue
    <3>2. f \in Frames
          BY <2>2, <3>1, TailElems
    <3>3. /\ mFrameOutputQueue' = [mFrameOutputQueue EXCEPT ![s] = Tail(out)]
          /\ sink'.src = s /\ sink'.frame = f
          BY <1>3, <2>2 DEF GetFrameFromOutputQueue
    <3>4. CASE r # s
          BY <1>0, <3>1, <3>3, <3>4
    <3>5. CASE r = s
      <4>1. /\ f \in Range(out)
            /\ Range(Tail(out)) = Range(out) \ {f}
            /\ IsInjective(Tail(out))
            BY <1>0, <2>2, <3>1, <3>5, PopFront
      <4>2. mFrameOutputQueue'[r] = Tail(out)
            BY <3>1, <3>3, <3>5
      <4> HIDE DEF f
      <4> QED BY <1>0, <3>1, <3>2, <3>3, <3>5, <4>1, <4>2
    <3> QED BY <3>4, <3>5
  <2> QED BY <2>1, <2>2
<1>4. CASE PutFrameToInputQueue
  <2> DEFINE s == sink.src
             in == mFrameInputQueue[s]
             f == sink.frame
  <2>1. /\ s \in Sources /\ f \in Frames
        /\ mFrameInputQueue' = [mFrameInputQueue EXCEPT ![s] = Append(in, f)]
        /\ sink'.src = s /\ sink'.frame = None
        /\ UNCHANGED mFrameOutputQueue
        BY <1>0, <1>4 DEF PutFrameToInputQueue
  <2>2. CASE r # s
        BY <1>0, <2>1, <2>2
  <2>3. CASE r = s
    <3>1. f \notin Range(in)
          BY <1>0, <2>1, <2>3
    <3>2. /\ Range(Append(in, f)) = Range(in) \cup {f}
          /\ IsInjective(Append(in, f))
          BY <1>0, <2>1, <2>3, <3>1, PushBack
    <3>3. mFrameInputQueue'[r] = Append(in, f)
          BY <2>1, <2>3
    <3> QED BY <1>0, <2>1, <2>3, <3>2, <3>3
  <2> QED BY <2>2, <2>3
<1>5. ASSUME NEW s \in Sources, Timeout(s) PROVE Conserved(r)'
      BY <1>1, <1>5 DEF Timeout
<1>6. CASE SendFrame \/ AddTask
  <2>1. UNCHANGED queues /\ sink'.src = sink.src /\ sink'.frame = sink.frame
        BY <1>6 DEF SendFrame, AddTask
  <2> QED BY <1>1, <2>1
<1>7. ASSUME UNCHANGED <<queues, sink>> PROVE Conserved(r)'
      BY <1>0, <1>7
<1>8. ASSUME NEW s \in Sources, AddBootTask(s) PROVE Conserved(r)'
      BY <1>7, <1>8 DEF AddBootTask
<1>9. ASSUME NEW w \in Workers, TakeTask(w) \/ LockSource(w) \/ SkipAud(w) \/ FailTask(w)
      PROVE  Conserved(r)'
      BY <1>7, <1>9 DEF TakeTask, LockSource, SkipAud, FailTask, ReturnFromTask
<1>10. CASE UNCHANGED vars
       BY <1>7, <1>10 DEF vars
<1> QED
    BY <1>2, <1>3, <1>4, <1>5, <1>6, <1>8, <1>9, <1>10
    DEF Next, HandleTask, HandleTimeout

-----------------------------------------------------------------------------
(* Tasks of a source are counted where they are: in the queue, in the      *)
(* hands of the workers, still to be added by the constructor or by the    *)
(* timer thread.                                                           *)
Running(s)  == {w \in Workers : running[w] = s}
InQueue(s)  == Cardinality(Positions(mTaskQueue, s))
InHands(s)  == Cardinality(Running(s))
ToBoot(s)   == FrameNum - booted[s]
ToRefill(s) == IF sink.step = "add" /\ sink.src = s THEN 1 ELSE 0

LEMMA Counts ==
  ASSUME TypeOK, NEW s \in Sources
  PROVE  /\ PendingTasks(s) = InQueue(s) + InHands(s) + ToBoot(s) + ToRefill(s)
         /\ InQueue(s) \in Nat /\ InHands(s) \in Nat
         /\ ToBoot(s) \in Nat /\ ToRefill(s) \in {0, 1}
         /\ IsFiniteSet(Running(s))
<1>1. InQueue(s) \in Nat
      BY FinitePositions DEF InQueue, TypeOK, Pool!TypeOK
<1>2. IsFiniteSet(Running(s))
      BY PipelineAssumption, FS_Subset DEF Running
<1>3. InHands(s) \in Nat
      BY <1>2, FS_CardinalityType DEF InHands
<1>4. ToBoot(s) \in Nat /\ ToRefill(s) \in {0, 1}
      BY PipelineAssumption DEF ToBoot, ToRefill, TypeOK
<1> QED BY <1>1, <1>2, <1>3, <1>4
        DEF PendingTasks, InQueue, InHands, ToBoot, ToRefill, Positions, Running

(* A worker that returns from a task of a source gives that task up.       *)
LEMMA EndCounts ==
  ASSUME TypeOK, NEW w \in Workers, Pool!End(w), NEW s \in Sources
  PROVE  /\ InQueue(s)' = InQueue(s)
         /\ InHands(s)' = IF running[w] = s THEN InHands(s) - 1 ELSE InHands(s)
<1>1. running' = [running EXCEPT ![w] = None] /\ UNCHANGED mTaskQueue /\ None # s
      BY DEF Pool!End, None, Sources
<1>2. Running(s)' = IF running[w] = s THEN Running(s) \ {w} ELSE Running(s)
      BY <1>1 DEF Running, TypeOK, Pool!TypeOK
<1>3. w \in Running(s) <=> running[w] = s
      BY DEF Running
<1> QED BY <1>1, <1>2, <1>3, Counts, FS_RemoveElement DEF InQueue, InHands

(* Every task that comes has its frame in the input queue already, and a   *)
(* frame that leaves the input queue takes a task along.                   *)
LEMMA TasksStep ==
  TypeOK /\ SinkBusy /\ NoTaskWithoutFrame /\ [Next]_vars => NoTaskWithoutFrame'
<1> SUFFICES ASSUME TypeOK, SinkBusy, NoTaskWithoutFrame, [Next]_vars, TypeOK',
                    NEW r \in Sources
             PROVE  (PendingTasks(r) <= Len(mFrameInputQueue[r]))'
    BY TypeStep DEF NoTaskWithoutFrame
<1> DEFINE in  == mFrameInputQueue[r]
           in1 == mFrameInputQueue'[r]
<1>0. /\ InQueue(r) + InHands(r) + ToBoot(r) + ToRefill(r) <= Len(in)
      /\ InQueue(r) \in Nat /\ InHands(r) \in Nat
      /\ ToBoot(r) \in Nat /\ ToRefill(r) \in {0, 1}
      /\ IsFiniteSet(Running(r))
  <2>1. PendingTasks(r) <= Len(in)
        BY DEF NoTaskWithoutFrame
  <2> QED BY <2>1, Counts
<1>1. PendingTasks(r)' = InQueue(r)' + InHands(r)' + ToBoot(r)' + ToRefill(r)'
      BY DEF PendingTasks, InQueue, InHands, ToBoot, ToRefill, Positions, Running
<1>2. /\ mTaskQueue \in Seq(Sources) /\ running \in [Workers -> Sources \cup {None}]
      /\ in \in Seq(Frames)
      BY DEF TypeOK, Pool!TypeOK
<1>3. Len(in) \in Nat /\ r \in Nat \ {0} /\ None = 0
      BY <1>2, PipelineAssumption DEF Sources, None
<1>4. SUFFICES InQueue(r)' + InHands(r)' + ToBoot(r)' + ToRefill(r)' <= Len(in1)
      BY <1>1
<1> HIDE DEF in, in1
<1> DEFINE Fewer == InQueue(r)' + InHands(r)' + ToBoot(r)' + ToRefill(r)' <= Len(in1)
<1>5. ASSUME UNCHANGED <<mTaskQueue, running, booted, mFrameInputQueue>>,
             ToRefill(r)' = ToRefill(r)
      PROVE  Fewer
      BY <1>0, <1>5 DEF InQueue, InHands, ToBoot, Positions, Running, in, in1
<1>6. ASSUME NEW s \in Sources, AddBootTask(s) PROVE Fewer
  <2>1. InQueue(r)' = InQueue(r) + (IF s = r THEN 1 ELSE 0)
        BY <1>2, <1>6, PushCounts DEF AddBootTask, Pool!Submit, InQueue
  <2>2. ToBoot(r)' = ToBoot(r) - (IF s = r THEN 1 ELSE 0)
    <3>1. /\ booted \in [Sources -> 0..FrameNum]
          /\ booted' = [booted EXCEPT ![s] = booted[s] + 1]
          BY <1>6 DEF AddBootTask, TypeOK
    <3>2. booted[r] \in Nat /\ booted'[r] = booted[r] + (IF s = r THEN 1 ELSE 0)
          BY <3>1
    <3> QED BY <3>2, PipelineAssumption DEF ToBoot
  <2>3. UNCHANGED <<running, mFrameInputQueue, sink>>
        BY <1>6 DEF AddBootTask, Pool!Submit, queues
  <2>4. InHands(r)' = InHands(r) /\ ToRefill(r)' = ToRefill(r) /\ in1 = in
        BY <2>3 DEF InHands, ToRefill, Running, in, in1
  <2> QED BY <1>0, <2>1, <2>2, <2>4
<1>7. ASSUME NEW w \in Workers, TakeTask(w) PROVE Fewer
  <2>1. /\ running[w] = None /\ mTaskQueue # << >>
        /\ running' = [running EXCEPT ![w] = Head(mTaskQueue)]
        /\ mTaskQueue' = Tail(mTaskQueue)
        BY <1>7 DEF TakeTask, Pool!Begin
  <2>2. InQueue(r) = InQueue(r)' + (IF Head(mTaskQueue) = r THEN 1 ELSE 0)
        BY <1>2, <2>1, PopCounts DEF InQueue
  <2>3. Running(r)' = IF Head(mTaskQueue) = r THEN Running(r) \cup {w} ELSE Running(r)
        BY <1>2, <1>3, <2>1 DEF Running
  <2>4. w \notin Running(r)
        BY <1>3, <2>1 DEF Running
  <2>5. InHands(r)' = InHands(r) + (IF Head(mTaskQueue) = r THEN 1 ELSE 0)
    <3>1. Cardinality(Running(r) \cup {w}) = Cardinality(Running(r)) + 1
          BY <1>0, <2>4, FS_AddElement
    <3>2. CASE Head(mTaskQueue) = r
          BY <2>3, <3>1, <3>2 DEF InHands
    <3>3. CASE Head(mTaskQueue) # r
          BY <1>0, <2>3, <3>3 DEF InHands
    <3> QED BY <3>2, <3>3
  <2>6. UNCHANGED <<booted, mFrameInputQueue, sink>>
        BY <1>7 DEF TakeTask, queues
  <2>7. ToBoot(r)' = ToBoot(r) /\ ToRefill(r)' = ToRefill(r) /\ in1 = in
        BY <2>6 DEF ToBoot, ToRefill, in, in1
  <2>8. InQueue(r)' \in Nat
    <3>1. mTaskQueue' \in Seq(Sources)
          BY DEF TypeOK, Pool!TypeOK
    <3> QED BY <3>1, FinitePositions DEF InQueue
  <2> QED BY <1>0, <2>2, <2>5, <2>7, <2>8
<1>8. ASSUME NEW w \in Workers, FailTask(w) PROVE Fewer
  <2>1. Pool!End(w) /\ UNCHANGED <<booted, mFrameInputQueue, sink>>
        BY <1>8 DEF FailTask, ReturnFromTask, queues
  <2>2. ToBoot(r)' = ToBoot(r) /\ ToRefill(r)' = ToRefill(r) /\ in1 = in
        BY <2>1 DEF ToBoot, ToRefill, in, in1
  <2>3. /\ InQueue(r)' = InQueue(r)
        /\ InHands(r)' = IF running[w] = r THEN InHands(r) - 1 ELSE InHands(r)
        BY <2>1, EndCounts
  <2> QED BY <1>0, <1>3, <2>2, <2>3
<1>9. ASSUME NEW w \in Workers, FillFrame(w) PROVE Fewer
  <2>1. Pool!End(w) /\ UNCHANGED <<booted, sink>>
        BY <1>9 DEF FillFrame, ReturnFromTask
  <2>2. /\ InQueue(r)' = InQueue(r)
        /\ InHands(r)' = IF running[w] = r THEN InHands(r) - 1 ELSE InHands(r)
        BY <2>1, EndCounts
  <2>3. ToBoot(r)' = ToBoot(r) /\ ToRefill(r)' = ToRefill(r)
        BY <2>1 DEF ToBoot, ToRefill
  <2>4. /\ running[w] = r => in # << >>
        /\ in1 = IF running[w] = r THEN Tail(in) ELSE in
        BY <1>9 DEF FillFrame, ReadUnit, Holds, TypeOK, in, in1
  <2>5. Len(in1) = IF running[w] = r THEN Len(in) - 1 ELSE Len(in)
        BY <1>2, <2>4, HeadTailProperties
  <2> QED BY <1>0, <1>3, <2>2, <2>3, <2>5
<1>10. CASE PutFrameToInputQueue
  <2>1. /\ sink.step = "put" /\ sink'.step = "add"
        /\ sink'.src = sink.src /\ sink.frame \in Frames
        BY <1>10 DEF PutFrameToInputQueue, TypeOK, SinkBusy
  <2>2. ToRefill(r) = 0 /\ ToRefill(r)' = IF sink.src = r THEN 1 ELSE 0
        BY <2>1 DEF ToRefill
  <2>3. UNCHANGED <<mTaskQueue, running, booted>>
        BY <1>10 DEF PutFrameToInputQueue, pool
  <2>4. InQueue(r)' = InQueue(r) /\ InHands(r)' = InHands(r) /\ ToBoot(r)' = ToBoot(r)
        BY <2>3 DEF InQueue, InHands, ToBoot, Positions, Running
  <2>5. in1 = IF sink.src = r THEN Append(in, sink.frame) ELSE in
        BY <1>10 DEF PutFrameToInputQueue, TypeOK, in, in1
  <2>6. Len(in1) = IF sink.src = r THEN Len(in) + 1 ELSE Len(in)
        BY <1>2, <2>1, <2>5, AppendProperties
  <2> QED BY <1>0, <1>3, <2>2, <2>4, <2>6
<1>11. CASE AddTask
  <2>1. /\ sink.step = "add" /\ sink'.step = "idle" /\ sink.src \in Sources
        BY <1>11 DEF AddTask, TypeOK, SinkBusy
  <2>2. ToRefill(r)' = 0 /\ ToRefill(r) = IF sink.src = r THEN 1 ELSE 0
        BY <2>1 DEF ToRefill
  <2>3. /\ mTaskQueue' = Append(mTaskQueue, sink.src)
        /\ UNCHANGED <<running, booted, mFrameInputQueue>>
        BY <1>11 DEF AddTask, Pool!Submit, queues
  <2>4. InQueue(r)' = InQueue(r) + (IF sink.src = r THEN 1 ELSE 0)
        BY <1>2, <2>1, <2>3, PushCounts DEF InQueue
  <2>5. InHands(r)' = InHands(r) /\ ToBoot(r)' = ToBoot(r) /\ in1 = in
        BY <2>3 DEF InHands, ToBoot, Running, in, in1
  <2> QED BY <1>0, <1>3, <2>2, <2>4, <2>5
<1>12. ASSUME NEW w \in Workers, LockSource(w) \/ SkipAud(w) PROVE Fewer
       BY <1>5, <1>12 DEF LockSource, SkipAud, queues, pool, ToRefill
<1>13. ASSUME NEW s \in Sources, Timeout(s) PROVE Fewer
  <2>1. /\ UNCHANGED <<mTaskQueue, running, booted, mFrameInputQueue>>
        /\ sink.step = "idle" /\ sink'.step = "get"
        BY <1>13 DEF Timeout, queues, pool
  <2> QED BY <1>5, <2>1 DEF ToRefill
<1>14. CASE GetFrameFromOutputQueue \/ SendFrame
  <2>1. /\ UNCHANGED <<mTaskQueue, running, booted, mFrameInputQueue>>
        /\ sink.step \in {"get", "send"} /\ sink'.step # "add"
        BY <1>14 DEF GetFrameFromOutputQueue, SendFrame, queues, pool, TypeOK
  <2> QED BY <1>5, <2>1 DEF ToRefill
<1>15. CASE UNCHANGED vars
       BY <1>5, <1>15 DEF vars, ToRefill
<1> QED
    BY <1>6, <1>7, <1>8, <1>9, <1>10, <1>11, <1>12, <1>13, <1>14, <1>15
    DEF Next, HandleTask, HandleTimeout

-----------------------------------------------------------------------------
(* The units of a file around its end: the first sendable one at or behind *)
(* a position is the one that a reader that skips the others finds.        *)
LEMMA FirstAbove ==
  ASSUME NEW T \in SUBSET Nat, NEW p \in Int, \E q \in T : q > p
  PROVE  \E q \in T : q > p /\ \A r \in T : r > p => q <= r
<1> DEFINE U == {q \in T : q > p}
<1>1. U \subseteq Nat /\ U # {}
      OBVIOUS
<1>2. PICK q \in U : \A r \in U : ~(<<r, q>> \in OpToRel(<, Nat))
      BY <1>1, NatLessThanWellFounded, WFMin
<1>3. \A r \in U : ~(r < q)
      BY <1>1, <1>2 DEF OpToRel
<1> QED BY <1>3

LEMMA SendableType ==
  ASSUME NEW s \in Sources
  PROVE  /\ Sendable(s) \in SUBSET Nat
         /\ Sendable(s) \subseteq 1..Len(File[s])
         /\ File[s] \in Seq(UnitKinds)
         /\ Len(File[s]) \in Nat
<1>1. File[s] \in Seq(UnitKinds)
      BY PipelineAssumption
<1> QED BY <1>1 DEF Sendable

LEMMA FirstSendable ==
  ASSUME NEW s \in Sources, NEW p \in Int, \E q \in Sendable(s) : q > p
  PROVE  \E q \in Sendable(s) : q > p /\ \A r \in Sendable(s) : r > p => q <= r
<1>1. Sendable(s) \in SUBSET Nat
      BY SendableType
<1> HIDE DEF Sendable
<1> QED BY <1>1, FirstAbove

(* UnitAfter is the first sendable unit behind a position, if there is one.*)
LEMMA UnitAfterIs ==
  ASSUME NEW s \in Sources, NEW p \in Int, NEW q \in Sendable(s), q > p,
         \A r \in Sendable(s) : r > p => q <= r
  PROVE  UnitAfter(s, p) = q
<1> DEFINE Least(t) == t > p /\ \A r \in Sendable(s) : r > p => t <= r
<1>1. \A t \in Sendable(s) : Least(t) => t = q
      BY SendableType
<1>2. Least(CHOOSE t \in Sendable(s) : Least(t))
      /\ (CHOOSE t \in Sendable(s) : Least(t)) \in Sendable(s)
      OBVIOUS
<1> QED BY <1>1, <1>2 DEF UnitAfter

LEMMA FirstUnitIs ==
  ASSUME NEW s \in Sources, NEW q \in Sendable(s), \A r \in Sendable(s) : q <= r
  PROVE  FirstUnit(s) = q
<1> DEFINE Least(t) == \A r \in Sendable(s) : t <= r
<1>1. \A t \in Sendable(s) : Least(t) => t = q
      BY SendableType
<1>2. Least(CHOOSE t \in Sendable(s) : Least(t))
      /\ (CHOOSE t \in Sendable(s) : Least(t)) \in Sendable(s)
      OBVIOUS
<1> QED BY <1>1, <1>2 DEF FirstUnit

LEMMA UnitAfterNone ==
  ASSUME NEW s \in Sources, NEW p \in Int, \A q \in Sendable(s) : ~(q > p)
  PROVE  UnitAfter(s, p) = FirstUnit(s)
  BY DEF UnitAfter

(* From the beginning of the file, the first sendable unit is next.        *)
LEMMA FromTheBeginning ==
  ASSUME NEW s \in Sources
  PROVE  UnitAfter(s, 0) = FirstUnit(s)
<1>1. CASE Sendable(s) = {}
      BY <1>1, UnitAfterNone
<1>2. CASE Sendable(s) # {}
  <2>1. \A q \in Sendable(s) : q > 0
        BY SendableType
  <2>2. PICK q \in Sendable(s) : q > 0 /\ \A r \in Sendable(s) : r > 0 => q <= r
        BY <1>2, <2>1, FirstSendable
  <2>3. UnitAfter(s, 0) = q
        BY <2>2, UnitAfterIs
  <2>4. FirstUnit(s) = q
        BY <2>1, <2>2, FirstUnitIs
  <2> QED BY <2>3, <2>4
<1> QED BY <1>1, <1>2

(* Going on in the file, or around its end, leads to the unit after.       *)
LEMMA GoingOn ==
  ASSUME NEW s \in Sources, NEW p \in DOMAIN File[s]
  PROVE  UnitAfter(s, NextUnit(s, p) - 1) = UnitAfter(s, p)
<1>1. p \in 1..Len(File[s]) /\ Len(File[s]) \in Nat
      BY SendableType
<1>2. CASE p = Len(File[s])
  <2>1. \A q \in Sendable(s) : ~(q > p)
        BY <1>1, <1>2, SendableType
  <2>2. NextUnit(s, p) - 1 = 0
        BY <1>2 DEF NextUnit
  <2> QED BY <1>1, <2>1, <2>2, UnitAfterNone, FromTheBeginning
<1>3. CASE p # Len(File[s])
  <2>1. NextUnit(s, p) - 1 = p
        BY <1>1, <1>3 DEF NextUnit
  <2> QED BY <2>1
<1> QED BY <1>2, <1>3

(* A sendable unit is the next one at its place; another one is not.       *)
LEMMA AtSendable ==
  ASSUME NEW s \in Sources, NEW p \in Sendable(s)
  PROVE  UnitAfter(s, p - 1) = p
<1>1. p \in Int /\ p - 1 \in Int /\ p > p - 1
      BY SendableType
<1>2. \A r \in Sendable(s) : r > p - 1 => p <= r
      BY SendableType
<1> QED BY <1>1, <1>2, UnitAfterIs

LEMMA AtOther ==
  ASSUME NEW s \in Sources, NEW p \in Nat, p \notin Sendable(s)
  PROVE  UnitAfter(s, p - 1) = UnitAfter(s, p)
<1>1. \A q \in Sendable(s) : q > p <=> q > p - 1
      BY SendableType
<1>2. CASE \A q \in Sendable(s) : ~(q > p)
  <2>1. \A q \in Sendable(s) : ~(q > p - 1)
        BY <1>1, <1>2
  <2> QED BY <1>2, <2>1, UnitAfterNone
<1>3. CASE \E q \in Sendable(s) : q > p
  <2>1. PICK q \in Sendable(s) : q > p /\ \A r \in Sendable(s) : r > p => q <= r
        BY <1>3, FirstSendable
  <2>2. UnitAfter(s, p) = q
        BY <2>1, UnitAfterIs
  <2>3. q > p - 1 /\ \A r \in Sendable(s) : r > p - 1 => q <= r
        BY <1>1, <2>1
  <2> QED BY <2>2, <2>3, UnitAfterIs
<1> QED BY <1>2, <1>3

-----------------------------------------------------------------------------
(* What may be sent after unit u: the next sendable unit; after a read     *)
(* error H.264 starts over at the first one and AAC anywhere.              *)
Follows(s, u, v) ==
  \/ v = UnitAfter(s, u)
  \/ /\ "bad" \in Range(File[s])
     /\ s \in H264Sources => v = FirstUnit(s)

(* The units on their way: 0 is the one that is being sent, or else was    *)
(* sent last; the others are in the output queue.                          *)
Sending(s) == sink.step = "send" /\ sink.src = s
Foremost(s)   == IF Sending(s) THEN mBuf[s][sink.frame] ELSE lastSent[s]
Content(s) ==
  [i \in 0..Len(mFrameOutputQueue[s]) |->
     IF i = 0 THEN Foremost(s) ELSE mBuf[s][mFrameOutputQueue[s][i]]]

(* A reader of an intact file, and the H.264 reader, stay in the file.     *)
InFile(s) == \/ pos[s] \in DOMAIN File[s]
             \/ File[s] = << >>
             \/ "bad" \in Range(File[s]) /\ s \notin H264Sources

(* The units on their way follow each other, and the unit that the reader  *)
(* finds next follows the last of them.                                    *)
InOrder(s) ==
  /\ Sending(s) => Follows(s, lastSent[s], Foremost(s))
  /\ \A i \in DOMAIN mFrameOutputQueue[s] :
       Follows(s, Content(s)[i - 1], Content(s)[i])
  /\ Follows(s, Content(s)[Len(mFrameOutputQueue[s])], UnitAfter(s, pos[s] - 1))
  /\ InFile(s)
AllInOrder == \A s \in Sources : InOrder(s)

LEMMA OrderInitial == Init => AllInOrder
<1> SUFFICES ASSUME Init, NEW s \in Sources PROVE InOrder(s)
    BY DEF AllInOrder
<1>1. /\ mFrameOutputQueue[s] = << >> /\ pos[s] = 1 /\ lastSent[s] = 0
      /\ ~Sending(s)
      BY DEF Init, Sending, None
<1>2. Content(s)[0] = 0
      BY <1>1 DEF Content, Foremost
<1>3. InFile(s)
      BY <1>1, SendableType DEF InFile
<1> QED BY <1>1, <1>2, <1>3 DEF InOrder, Follows

(* The order of the next state, spelled out.                               *)
LEMMA OrderNext ==
  ASSUME NEW s \in Sources,
         Sending(s)' => Follows(s, lastSent'[s], Foremost(s)'),
         \A i \in DOMAIN mFrameOutputQueue'[s] :
           Follows(s, Content(s)'[i - 1], Content(s)'[i]),
         Follows(s, Content(s)'[Len(mFrameOutputQueue'[s])],
                 UnitAfter(s, pos'[s] - 1)),
         InFile(s)'
  PROVE  InOrder(s)'
  BY DEF InOrder, Follows, UnitAfter, FirstUnit, Sendable

(* A step that touches neither the queue nor the frames in it keeps the    *)
(* order, if the reader's next unit stays the same or may follow anything. *)
LEMMA OrderKept ==
  ASSUME TypeOK, TypeOK', NEW s \in Sources, InOrder(s),
         mFrameOutputQueue'[s] = mFrameOutputQueue[s],
         \A i \in DOMAIN mFrameOutputQueue[s] :
           mBuf'[s][mFrameOutputQueue[s][i]] = mBuf[s][mFrameOutputQueue[s][i]],
         Foremost(s)' = Foremost(s),
         Sending(s)' => Sending(s) /\ UNCHANGED lastSent,
         \/ UnitAfter(s, pos'[s] - 1) = UnitAfter(s, pos[s] - 1)
         \/ \A u : Follows(s, u, UnitAfter(s, pos'[s] - 1)),
         InFile(s)'
  PROVE  InOrder(s)'
<1> DEFINE out == mFrameOutputQueue[s]
<1>1. out \in Seq(Frames) /\ Len(out) \in Nat /\ DOMAIN out = 1..Len(out)
      BY DEF TypeOK
<1>2. \A i \in 0..Len(out) : Content(s)'[i] = Content(s)[i]
      BY <1>1 DEF Content
<1>3. \A i \in DOMAIN out : i \in 0..Len(out) /\ i - 1 \in 0..Len(out)
      BY <1>1
<1>4. Len(out) \in 0..Len(out)
      BY <1>1
<1>5. /\ \A i \in DOMAIN out' : Follows(s, Content(s)'[i - 1], Content(s)'[i])
      BY <1>2, <1>3 DEF InOrder
<1>6. Follows(s, Content(s)'[Len(out)], UnitAfter(s, pos'[s] - 1))
      BY <1>2, <1>4 DEF InOrder
<1>7. Sending(s)' => Follows(s, lastSent'[s], Foremost(s)')
      BY DEF InOrder
<1> QED BY <1>5, <1>6, <1>7, OrderNext


(* The frame at the front of an input queue is not on its way.             *)
LEMMA FrontIsElsewhere ==
  ASSUME TypeOK, SinkBusy, FrameConservation, NEW s \in Sources,
         mFrameInputQueue[s] # << >>
  PROVE  /\ Head(mFrameInputQueue[s]) \in Frames
         /\ \A i \in DOMAIN mFrameOutputQueue[s] :
              mFrameOutputQueue[s][i] # Head(mFrameInputQueue[s])
         /\ Sending(s) => sink.frame # Head(mFrameInputQueue[s])
<1> DEFINE in == mFrameInputQueue[s]
           f  == Head(in)
<1>1. in \in Seq(Frames) /\ f \in Frames
      BY TailElems DEF TypeOK
<1>2. f \in Range(in)
      BY <1>1, TailElems DEF Range
<1> HIDE DEF f, in
<1>3. /\ Range(in) \cap Range(mFrameOutputQueue[s]) = {}
      /\ HeldBySink(s) \cap Range(in) = {}
      BY DEF FrameConservation, Conserved, in
<1>4. \A i \in DOMAIN mFrameOutputQueue[s] : mFrameOutputQueue[s][i] # f
      BY <1>2, <1>3 DEF Range
<1>5. Sending(s) => sink.frame \in HeldBySink(s)
      BY DEF Sending, HeldBySink, SinkBusy
<1> QED BY <1>1, <1>2, <1>3, <1>4, <1>5 DEF f, in

(* The reader's next unit after a unit that is skipped.                    *)
LEMMA SkipKeepsOrder ==
  ASSUME TypeOK, TypeOK', SinkBusy, FrameConservation,
         NEW w \in Workers, SkipAud(w), NEW s \in Sources, InOrder(s)
  PROVE  InOrder(s)'
<1> DEFINE r == running[w]
           f == Head(mFrameInputQueue[r])
<1>1. /\ r \in Sources
      /\ mFrameInputQueue[r] # << >>
      /\ UnitAt(r, pos[r]) = "aud"
      /\ pos' = [pos EXCEPT ![r] = NextUnit(r, pos[r])]
      /\ mBuf' = [mBuf EXCEPT ![r][f] = pos[r]]
      /\ UNCHANGED <<mFrameOutputQueue, sink, lastSent>>
      BY DEF SkipAud, ReadUnit, Holds, TypeOK, Pool!TypeOK, queues
<1>2. CASE s # r
  <2>1. mBuf'[s] = mBuf[s] /\ pos'[s] = pos[s]
        BY <1>1, <1>2 DEF TypeOK
  <2> QED BY <1>1, <2>1, OrderKept DEF Foremost, Sending, InOrder, InFile
<1>3. CASE s = r
  <2>1. /\ f \in Frames
        /\ \A i \in DOMAIN mFrameOutputQueue[s] : mFrameOutputQueue[s][i] # f
        /\ Sending(s) => sink.frame # f
        BY <1>1, <1>3, FrontIsElsewhere
  <2>2. pos[s] \in Nat /\ pos'[s] = NextUnit(s, pos[s]) /\ pos[s] \in DOMAIN File[s]
        BY <1>1, <1>3 DEF TypeOK, UnitAt
  <2>3. pos[s] \notin Sendable(s)
        BY <1>1, <1>3, <2>2 DEF UnitAt, Sendable
  <2>4. UnitAfter(s, pos'[s] - 1) = UnitAfter(s, pos[s] - 1)
        BY <2>2, <2>3, GoingOn, AtOther
  <2>5. pos'[s] \in DOMAIN File[s]
        BY <2>2, SendableType DEF NextUnit
  <2>6. /\ \A i \in DOMAIN mFrameOutputQueue[s] :
             mBuf'[s][mFrameOutputQueue[s][i]] = mBuf[s][mFrameOutputQueue[s][i]]
        /\ Sending(s) => mBuf'[s][sink.frame] = mBuf[s][sink.frame]
    <3>1. \A g \in Frames : g # f => mBuf'[s][g] = mBuf[s][g]
      <4> HIDE DEF f, r
      <4> QED BY <1>1, <1>3, <2>1 DEF TypeOK
    <3>2. /\ \A i \in DOMAIN mFrameOutputQueue[s] : mFrameOutputQueue[s][i] \in Frames
          /\ Sending(s) => sink.frame \in Frames
          BY DEF TypeOK, Sending, SinkBusy
    <3> QED BY <2>1, <3>1, <3>2
  <2> QED BY <1>1, <2>4, <2>5, <2>6, OrderKept DEF Foremost, Sending, InFile
<1> QED BY <1>2, <1>3

(* A unit that was read goes to the end of those that are on their way.    *)
LEMMA FillKeepsOrder ==
  ASSUME TypeOK, TypeOK', SinkBusy, FrameConservation,
         NEW w \in Workers, FillFrame(w), NEW s \in Sources, InOrder(s)
  PROVE  InOrder(s)'
<1> DEFINE r   == running[w]
           f   == Head(mFrameInputQueue[r])
           out == mFrameOutputQueue[s]
<1>1. /\ r \in Sources
      /\ mFrameInputQueue[r] # << >>
      /\ UnitAt(r, pos[r]) = "nal"
      /\ pos' = [pos EXCEPT ![r] = NextUnit(r, pos[r])]
      /\ mBuf' = [mBuf EXCEPT ![r][f] = pos[r]]
      /\ mFrameOutputQueue' = [mFrameOutputQueue EXCEPT ![r] = Append(mFrameOutputQueue[r], f)]
      /\ UNCHANGED <<sink, lastSent>>
      BY DEF FillFrame, ReturnFromTask, ReadUnit, Holds, TypeOK, Pool!TypeOK
<1>2. CASE s # r
  <2>1. mBuf'[s] = mBuf[s] /\ pos'[s] = pos[s] /\ mFrameOutputQueue'[s] = out
        BY <1>1, <1>2 DEF TypeOK
  <2> QED BY <1>1, <2>1, OrderKept DEF Foremost, Sending, InOrder, InFile
<1>3. CASE s = r
  <2>1. /\ f \in Frames
        /\ \A i \in DOMAIN out : out[i] # f
        /\ Sending(s) => sink.frame # f
        BY <1>1, <1>3, FrontIsElsewhere
  <2>2. pos[s] \in Nat /\ pos'[s] = NextUnit(s, pos[s]) /\ pos[s] \in DOMAIN File[s]
        BY <1>1, <1>3 DEF TypeOK, UnitAt
  <2>3. pos[s] \in Sendable(s)
        BY <1>1, <1>3, <2>2 DEF UnitAt, Sendable
  <2>4. /\ UnitAfter(s, pos'[s] - 1) = UnitAfter(s, pos[s])
        /\ UnitAfter(s, pos[s] - 1) = pos[s]
        BY <2>2, <2>3, GoingOn, AtSendable
  <2>5. pos'[s] \in DOMAIN File[s]
        BY <2>2, SendableType DEF NextUnit
  <2>6. /\ out \in Seq(Frames) /\ Len(out) \in Nat /\ DOMAIN out = 1..Len(out)
        BY DEF TypeOK
  <2>7. /\ mFrameOutputQueue'[s] = Append(out, f)
        /\ mBuf'[s][f] = pos[s]
        /\ \A g \in Frames : g # f => mBuf'[s][g] = mBuf[s][g]
    <3> HIDE DEF f, r
    <3> QED BY <1>1, <1>3, <2>1 DEF TypeOK
  <2> HIDE DEF f, r
  <2>8. /\ \A i \in DOMAIN out : mFrameOutputQueue'[s][i] = out[i]
        /\ DOMAIN (mFrameOutputQueue'[s]) = 1..(Len(out) + 1)
        /\ mFrameOutputQueue'[s][Len(out) + 1] = f
        /\ Len(mFrameOutputQueue'[s]) = Len(out) + 1
        BY <2>1, <2>6, <2>7, AppendProperties
  <2>9. Foremost(s)' = Foremost(s)
    <3>1. Sending(s)' = Sending(s) /\ (Sending(s) => sink.frame \in Frames)
          BY <1>1 DEF Sending, TypeOK, SinkBusy
    <3> QED BY <1>1, <2>1, <2>7, <3>1 DEF Foremost
  <2>10. \A i \in 0..Len(out) : Content(s)'[i] = Content(s)[i]
    <3>1. \A i \in DOMAIN out : out[i] \in Frames
          BY <2>6
    <3> SUFFICES ASSUME NEW i \in 0..Len(out) PROVE Content(s)'[i] = Content(s)[i]
        OBVIOUS
    <3>2. CASE i = 0
      <4>1. 0 \in 0..Len(out) /\ 0 \in 0..(Len(out) + 1)
            BY <2>6
      <4> QED BY <2>8, <2>9, <3>2, <4>1 DEF Content
    <3>3. CASE i # 0
      <4>1. i \in DOMAIN out /\ i \in 0..(Len(out) + 1)
            BY <2>6, <3>3
      <4>2. mBuf'[s][mFrameOutputQueue'[s][i]] = mBuf[s][out[i]]
            BY <2>1, <2>7, <2>8, <3>1, <4>1
      <4> QED BY <2>8, <3>3, <4>1, <4>2 DEF Content
    <3> QED BY <3>2, <3>3
  <2>11. Content(s)'[Len(out) + 1] = pos[s]
        BY <2>6, <2>7, <2>8 DEF Content
  <2>12. Sending(s)' => Follows(s, lastSent'[s], Foremost(s)')
        BY <1>1, <2>9 DEF InOrder, Sending
  <2>13. ASSUME NEW i \in 1..(Len(out) + 1)
         PROVE  Follows(s, Content(s)'[i - 1], Content(s)'[i])
    <3>1. CASE i = Len(out) + 1
      <4>1. Follows(s, Content(s)[Len(out)], pos[s])
            BY <2>4 DEF InOrder
      <4>2. i - 1 = Len(out) /\ Len(out) \in 0..Len(out)
            BY <2>6, <3>1
      <4> QED BY <2>10, <2>11, <3>1, <4>1, <4>2
    <3>2. CASE i # Len(out) + 1
      <4>1. i \in DOMAIN out /\ i \in 0..Len(out) /\ i - 1 \in 0..Len(out)
            BY <2>6, <3>2
      <4> QED BY <2>10, <4>1 DEF InOrder
    <3> QED BY <3>1, <3>2
  <2>14. Follows(s, Content(s)'[Len(out) + 1], UnitAfter(s, pos'[s] - 1))
        BY <2>4, <2>11 DEF Follows
  <2>15. InFile(s)'
         BY <2>5 DEF InFile
  <2> QED BY <2>8, <2>12, <2>13, <2>14, <2>15, OrderNext
<1> QED BY <1>2, <1>3


(* After a failed read H.264 starts over and AAC may go on anywhere; a     *)
(* file in which no reader fails, or which is empty, has no failed reads.  *)
LEMMA FailKeepsOrder ==
  ASSUME TypeOK, TypeOK', NEW w \in Workers, FailTask(w),
         NEW s \in Sources, InOrder(s)
  PROVE  InOrder(s)'
<1> DEFINE r == running[w]
<1>1. /\ r \in Sources
      /\ UNCHANGED <<mFrameOutputQueue, mBuf, sink, lastSent>>
      /\ \/ pos' = [pos EXCEPT ![r] = pos[r]]
         \/ /\ UnitAt(r, pos[r]) = "bad"
            /\ \E p \in PosAfterError(r, pos[r]) : pos' = [pos EXCEPT ![r] = p]
      BY DEF FailTask, ReturnFromTask, Holds, TypeOK, Pool!TypeOK, queues
<1>2. Foremost(s)' = Foremost(s) /\ (Sending(s)' => Sending(s))
      BY <1>1 DEF Foremost, Sending
<1>3. CASE pos'[s] = pos[s]
  <2>1. InFile(s)'
        BY <1>3 DEF InOrder, InFile
  <2> QED BY <1>1, <1>2, <1>3, <2>1, OrderKept
<1>4. CASE pos'[s] # pos[s]
  <2>1. s = r /\ UnitAt(s, pos[s]) = "bad" /\ pos'[s] \in PosAfterError(s, pos[s])
        BY <1>1, <1>4 DEF TypeOK
  <2>2. \/ "bad" \in Range(File[s])
        \/ File[s] = << >>
        BY <2>1 DEF UnitAt, Range, InOrder, InFile
  <2>3. InFile(s)' /\ \A u : Follows(s, u, UnitAfter(s, pos'[s] - 1))
    <3>1. CASE File[s] = << >>
      <4>1. \A p \in Int : UnitAfter(s, p) = FirstUnit(s)
            BY <3>1 DEF Sendable, UnitAfter
      <4>2. InFile(s)'
            BY <3>1 DEF InFile
      <4>3. pos'[s] - 1 \in Int
            BY DEF TypeOK
      <4>4. \A u : UnitAfter(s, u) = FirstUnit(s)
            BY <3>1 DEF Sendable, UnitAfter
      <4> QED BY <4>1, <4>2, <4>3, <4>4 DEF Follows
    <3>2. CASE File[s] # << >> /\ s \in H264Sources
      <4>1. pos'[s] = 1 /\ 1 - 1 = 0
            BY <2>1, <3>2 DEF PosAfterError
      <4>2. 1 \in DOMAIN File[s]
            BY <3>2, SendableType
      <4>3. InFile(s)'
            BY <4>1, <4>2 DEF InFile
      <4>4. UnitAfter(s, pos'[s] - 1) = FirstUnit(s)
            BY <4>1, FromTheBeginning
      <4> QED BY <2>2, <3>2, <4>3, <4>4 DEF Follows
    <3>3. CASE File[s] # << >> /\ s \notin H264Sources
          BY <2>2, <3>3 DEF InFile, Follows
    <3> QED BY <3>1, <3>2, <3>3
  <2> QED BY <1>1, <1>2, <2>3, OrderKept
<1> QED BY <1>3, <1>4

(* The timer thread takes the first of the queue to send it.               *)
LEMMA TakeKeepsOrder ==
  ASSUME TypeOK, TypeOK', SinkBusy, GetFrameFromOutputQueue,
         NEW s \in Sources, InOrder(s)
  PROVE  InOrder(s)'
<1> DEFINE out == mFrameOutputQueue[s]
<1>1. /\ sink.step = "get" /\ sink.src \in Sources /\ ~Sending(s)
      /\ UNCHANGED <<mBuf, pos, lastSent>>
      BY DEF GetFrameFromOutputQueue, SinkBusy, Sending
<1>2. InFile(s)'
      BY <1>1 DEF InOrder, InFile
<1>3. CASE sink.src # s \/ out = << >>
  <2>1. mFrameOutputQueue'[s] = out /\ ~Sending(s)'
    <3>1. CASE sink.src # s
          BY <1>1, <3>1 DEF GetFrameFromOutputQueue, TypeOK, Sending
    <3>2. CASE sink.src = s
          BY <1>1, <1>3, <3>2 DEF GetFrameFromOutputQueue, TypeOK, Sending
    <3> QED BY <3>1, <3>2
  <2> QED BY <1>1, <1>2, <2>1, OrderKept DEF Foremost
<1>4. CASE sink.src = s /\ out # << >>
  <2>1. /\ mFrameOutputQueue'[s] = Tail(out)
        /\ sink'.step = "send" /\ sink'.src = s /\ sink'.frame = Head(out)
        BY <1>1, <1>4 DEF GetFrameFromOutputQueue, TypeOK
  <2>2. /\ out \in Seq(Frames) /\ Len(out) \in Nat \ {0} /\ DOMAIN out = 1..Len(out)
        BY <1>4 DEF TypeOK
  <2>3. /\ Head(out) = out[1]
        /\ DOMAIN Tail(out) = 1..(Len(out) - 1)
        /\ Len(Tail(out)) = Len(out) - 1
        /\ \A i \in 1..(Len(out) - 1) : Tail(out)[i] = out[i + 1]
        BY <1>4, <2>2
  <2>4. Sending(s)' /\ Foremost(s)' = mBuf[s][out[1]]
        BY <1>1, <2>1, <2>3 DEF Sending, Foremost
  <2>5. \A i \in 0..(Len(out) - 1) : Content(s)'[i] = Content(s)[i + 1]
        BY <1>1, <2>1, <2>2, <2>3, <2>4 DEF Content
  <2>6. Content(s)[0] = lastSent[s] /\ Content(s)[1] = Foremost(s)'
        BY <1>1, <2>2, <2>4 DEF Content, Foremost
  <2>7. Follows(s, lastSent'[s], Foremost(s)')
    <3>1. 1 \in DOMAIN out /\ 1 - 1 = 0
          BY <2>2
    <3>2. Follows(s, Content(s)[1 - 1], Content(s)[1])
          BY <3>1 DEF InOrder
    <3> QED BY <1>1, <2>6, <3>1, <3>2
  <2>8. ASSUME NEW i \in DOMAIN mFrameOutputQueue'[s]
        PROVE  Follows(s, Content(s)'[i - 1], Content(s)'[i])
    <3>1. /\ i + 1 \in DOMAIN out /\ (i + 1) - 1 = (i - 1) + 1
          /\ i \in 0..(Len(out) - 1) /\ i - 1 \in 0..(Len(out) - 1)
          BY <2>1, <2>2, <2>3, <2>8
    <3>2. Follows(s, Content(s)[(i + 1) - 1], Content(s)[i + 1])
          BY <3>1 DEF InOrder
    <3> QED BY <2>5, <3>1, <3>2
  <2>9. Follows(s, Content(s)'[Len(mFrameOutputQueue'[s])], UnitAfter(s, pos'[s] - 1))
    <3>1. /\ Len(mFrameOutputQueue'[s]) \in 0..(Len(out) - 1)
          /\ Len(mFrameOutputQueue'[s]) + 1 = Len(out)
          BY <2>1, <2>2, <2>3
    <3> QED BY <1>1, <2>5, <3>1 DEF InOrder
  <2> QED BY <1>2, <2>7, <2>8, <2>9, OrderNext
<1> QED BY <1>3, <1>4

(* Sending makes the unit that is being sent the last one that was sent.   *)
LEMMA SendKeepsOrder ==
  ASSUME TypeOK, TypeOK', SinkBusy, SendFrame, NEW s \in Sources, InOrder(s)
  PROVE  InOrder(s)'
<1>1. /\ sink.step = "send" /\ sink'.step = "put" /\ sink.src \in Sources
      /\ lastSent' = [lastSent EXCEPT ![sink.src] = mBuf[sink.src][sink.frame]]
      /\ UNCHANGED <<mFrameOutputQueue, mBuf, pos>>
      BY DEF SendFrame, SinkBusy, queues
<1>2. Foremost(s)' = Foremost(s) /\ ~Sending(s)'
      BY <1>1 DEF Foremost, Sending, TypeOK
<1>3. InFile(s)'
      BY <1>1 DEF InOrder, InFile
<1> QED BY <1>1, <1>2, <1>3, OrderKept

(* Every step keeps the order.                                             *)
LEMMA OrderStep ==
  TypeOK /\ SinkBusy /\ FrameConservation /\ AllInOrder /\ [Next]_vars => AllInOrder'
<1> SUFFICES ASSUME TypeOK, SinkBusy, FrameConservation, AllInOrder, [Next]_vars,
                    TypeOK', NEW s \in Sources
             PROVE  InOrder(s)'
    BY TypeStep DEF AllInOrder
<1>1. InOrder(s)
      BY DEF AllInOrder
<1>2. ASSUME UNCHANGED <<mFrameOutputQueue, mBuf, pos, lastSent>>,
             Sending(s)' <=> Sending(s), Sending(s) => UNCHANGED sink
      PROVE  InOrder(s)'
  <2>1. Foremost(s)' = Foremost(s) /\ InFile(s)'
        BY <1>1, <1>2 DEF Foremost, InOrder, InFile
  <2> QED BY <1>1, <1>2, <2>1, OrderKept
<1>3. ASSUME NEW w \in Workers, TakeTask(w) \/ LockSource(w) PROVE InOrder(s)'
      BY <1>2, <1>3 DEF TakeTask, LockSource, queues, Sending
<1>4. ASSUME NEW r \in Sources, AddBootTask(r) \/ Timeout(r) PROVE InOrder(s)'
      BY <1>2, <1>4 DEF AddBootTask, Timeout, queues, Sending
<1>5. CASE PutFrameToInputQueue \/ AddTask
      BY <1>2, <1>5 DEF PutFrameToInputQueue, AddTask, queues, Sending, TypeOK
<1>6. CASE UNCHANGED vars
      BY <1>2, <1>6 DEF vars, Sending
<1> QED
    BY <1>1, <1>3, <1>4, <1>5, <1>6, SkipKeepsOrder, FailKeepsOrder, FillKeepsOrder,
       TakeKeepsOrder, SendKeepsOrder
    DEF Next, HandleTask, HandleTimeout

-----------------------------------------------------------------------------
(* No task without a frame at first: each of the FrameNum frames is empty  *)
(* and each of the FrameNum tasks is still to be added.                    *)
LEMMA TasksInitial == Init => NoTaskWithoutFrame
<1> SUFFICES ASSUME Init, NEW s \in Sources
             PROVE  PendingTasks(s) <= Len(mFrameInputQueue[s])
    BY DEF NoTaskWithoutFrame
<1>1. TypeOK
      BY Initial DEF Placed
<1>2. InQueue(s) = 0
  <2>1. Positions(mTaskQueue, s) = {}
        BY DEF Init, Pool!Init, Positions
  <2> QED BY <2>1, FS_EmptySet DEF InQueue
<1>3. InHands(s) = 0
  <2>1. Running(s) = {}
        BY PipelineAssumption DEF Init, Pool!Init, Running, Sources, None
  <2> QED BY <2>1, FS_EmptySet DEF InHands
<1>4. ToBoot(s) = FrameNum /\ ToRefill(s) = 0
      BY PipelineAssumption DEF Init, ToBoot, ToRefill
<1>5. Len(mFrameInputQueue[s]) = FrameNum
      BY PipelineAssumption DEF Init
<1> QED BY <1>1, <1>2, <1>3, <1>4, <1>5, Counts, PipelineAssumption

(* The inductive invariant: frames are where they belong, each task has    *)
(* its frame, and the units on their way are in the order of the file.     *)
IInv == Placed /\ NoTaskWithoutFrame /\ AllInOrder

(* The inductive invariant holds in every reachable state.                 *)
LEMMA Inductive == Spec => []IInv
<1>1. IInv /\ [Next]_vars => IInv'
      BY TypeStep, ConservationStep, TasksStep, OrderStep DEF IInv, Placed
<1>2. Init => IInv
      BY Initial, TasksInitial, OrderInitial DEF IInv
<1> QED BY <1>1, <1>2, PTL DEF Spec

(* Type correctness of the pipeline.                                       *)
THEOREM PipelineTypeOK == Spec => []TypeOK
<1>1. IInv => TypeOK
      BY DEF IInv, Placed
<1> QED BY <1>1, Inductive, PTL

(* MediaSource's buffers are recycled and never lost or shared: each frame *)
(* is in exactly one of the input queue, the output queue and the sink's   *)
(* hands, whatever the workers, the timer thread and the files do.         *)
THEOREM FramesConserved == Spec => []FrameConservation
<1>1. IInv => FrameConservation
      BY DEF IInv, Placed
<1> QED BY <1>1, Inductive, PTL

(* A frame that was filled keeps its content until it was sent: workers    *)
(* write only into the front of an input queue, which is in no other place.*)
THEOREM FilledKept == Spec => FilledFrameKept
<1> DEFINE Kept == \A s \in Sources : \A f \in Filled(s) : mBuf'[s][f] = mBuf[s][f]
<1>1. IInv /\ [Next]_vars => [Kept]_vars
  <2> SUFFICES ASSUME IInv, [Next]_vars, NEW s \in Sources, NEW f \in Filled(s)
               PROVE  mBuf'[s][f] = mBuf[s][f]
      OBVIOUS
  <2>1. f \in Frames /\ f \notin Range(mFrameInputQueue[s])
        BY DEF IInv, Placed, FrameConservation, Conserved, Filled
  <2>2. ASSUME NEW w \in Workers, SkipAud(w) \/ FillFrame(w)
        PROVE  mBuf'[s][f] = mBuf[s][f]
    <3> DEFINE r == running[w]
               front == Head(mFrameInputQueue[r])
    <3>1. /\ r \in Sources /\ mFrameInputQueue[r] \in Seq(Frames)
          /\ mFrameInputQueue[r] # << >>
          /\ mBuf' = [mBuf EXCEPT ![r][front] = pos[r]]
          BY <2>2 DEF SkipAud, FillFrame, ReadUnit, Holds, IInv, Placed, TypeOK, Pool!TypeOK
    <3>2. front \in Range(mFrameInputQueue[r])
          BY <3>1, TailElems DEF Range
    <3>3. mBuf \in [Sources -> [Frames -> Nat]]
          BY DEF IInv, Placed, TypeOK
    <3> HIDE DEF front
    <3> QED BY <2>1, <3>1, <3>2, <3>3
  <2>3. ASSUME UNCHANGED mBuf PROVE mBuf'[s][f] = mBuf[s][f]
        BY <2>3
  <2> QED
      BY <2>2, <2>3
      DEF Next, HandleTask, HandleTimeout, AddBootTask, TakeTask, LockSource,
          FailTask, Timeout, GetFrameFromOutputQueue, SendFrame,
          PutFrameToInputQueue, AddTask, vars
<1> QED BY <1>1, Inductive, PTL DEF Spec, FilledFrameKept

(* putFrameToInputQueue pushes the frame before its task: for each task    *)
(* that is queued, running or still to be added there is a frame in the    *)
(* input queue of its source, so handleTask never finds the queue empty,   *)
(* whatever the other workers, constructors and sinks do.                  *)
THEOREM TasksHaveFrames == Spec => []NoTaskWithoutFrame
<1>1. IInv => NoTaskWithoutFrame
      BY DEF IInv
<1> QED BY <1>1, Inductive, PTL

(* Frames leave in the order of the file: between filling and sending no   *)
(* frame overtakes another, although several workers fill them and another *)
(* thread sends them; only a read error makes a reader start over.         *)
THEOREM InFileOrder == Spec => SentInFileOrder
<1> DEFINE Ordered ==
      sink.step = "send" /\ sink'.step = "put" =>
        \/ lastSent'[sink.src] = UnitAfter(sink.src, lastSent[sink.src])
        \/ /\ "bad" \in Range(File[sink.src])
           /\ sink.src \in H264Sources
                => lastSent'[sink.src] = FirstUnit(sink.src)
<1>1. IInv /\ [Next]_vars => [Ordered]_vars
  <2> SUFFICES ASSUME IInv, [Next]_vars, sink.step = "send", sink'.step = "put"
               PROVE  Follows(sink.src, lastSent[sink.src], lastSent'[sink.src])
      BY DEF Follows
  <2>1. TypeOK /\ SinkBusy
        BY DEF IInv, Placed
  <2>2. SendFrame
    <3>1. sink' # sink
          OBVIOUS
    <3>2. ASSUME NEW s \in Sources, Timeout(s) PROVE FALSE
          BY <3>2 DEF Timeout
    <3>3. CASE GetFrameFromOutputQueue
          BY <3>3 DEF GetFrameFromOutputQueue
    <3>4. CASE PutFrameToInputQueue \/ AddTask
          BY <3>4 DEF PutFrameToInputQueue, AddTask
    <3> QED BY <3>1, <3>2, <3>3, <3>4
            DEF Next, HandleTask, HandleTimeout, AddBootTask, TakeTask, LockSource,
                SkipAud, FailTask, FillFrame, ReturnFromTask, vars
  <2>3. sink.src \in Sources /\ InOrder(sink.src) /\ Sending(sink.src)
        BY <2>1 DEF SinkBusy, IInv, AllInOrder, Sending
  <2>4. lastSent'[sink.src] = Foremost(sink.src)
        BY <2>1, <2>2, <2>3 DEF SendFrame, TypeOK, Foremost
  <2> QED BY <2>3, <2>4 DEF InOrder
<1> QED BY <1>1, Inductive, PTL DEF Spec, SentInFileOrder
=============================================================================
