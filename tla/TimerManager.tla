---------------------------- MODULE TimerManager ----------------------------
(***************************************************************************)
(* TimerManager and the timer thread of EventScheduler::loop (the Windows  *)
(* build, the only one that compiles): the thread calls handleRead in a    *)
(* busy loop, which looks at the timer with the smallest timestamp only.   *)
(*                                                                         *)
(* A callback takes time, and handleRead goes on with the clock value that *)
(* it read before: running a callback is two steps, Fire and Finish.  The  *)
(* maps have no lock; timers are added by the main thread before loop()    *)
(* starts the timer thread, or by callbacks, which run on that thread.  A  *)
(* callback does not remove the timer it runs for: handleRead would erase  *)
(* an iterator that is no longer valid.                                    *)
(***************************************************************************)
EXTENDS Integers, SequencesExt

CONSTANTS Events,    \* TimerEvent objects
          Delays,    \* arguments of RunAfter, in ms
          Moments,   \* arguments of RunAt, in ms
          Intervals, \* arguments of RunEvery, in ms
          IntMod,    \* 2^32: the values of an int, to which handleRead
                     \* converts a difference of timestamps
          MaxTime,   \* bound of the clock
          MaxId      \* bound of the timers that are added

(* Delays and intervals are uint32_t; an interval of 0 is a one-shot timer.*)
ASSUME TimerAssumption == /\ IntMod \in Nat \ {0}
                          /\ Delays \subseteq 0..(IntMod - 1)
                          /\ Intervals \subseteq 1..(IntMod - 1)
                          /\ Moments \subseteq Nat
                          /\ MaxTime \in Nat
                          /\ MaxId \in Nat

VARIABLES
  now,          \* Timer::getCurTime()
  looping,      \* loop() has started the timer thread
  mTimers,      \* ids in the map of timers (its values are not read)
  mEvents,      \* the multimap of timers, ordered by timestamp
  mLastTimerId,
  mIsStop,      \* [e]: TimerEvent::mIsStop
  firing,       \* handleRead's local timer, its clock value, and whether
                \* the callback was called; NotFiring between two firings
  lastFired,    \* [id]: when the callback was called last, -1 at first
  removed       \* ids that removeTimer was called with

vars == <<now, looping, mTimers, mEvents, mLastTimerId, mIsStop, firing,
          lastFired, removed>>

Ids       == 1..MaxId
Never     == -1
NoTimer   == [id |-> 0]
NotFiring == [timer |-> NoTimer, start |-> 0, called |-> FALSE]
Timers    == [id : Ids, event : Events, at : Nat, interval : Nat]

TypeOK == /\ now \in 0..MaxTime
          /\ looping \in BOOLEAN
          /\ mTimers \subseteq Ids
          /\ mEvents \in Seq(Timers)
          /\ mLastTimerId \in 0..MaxId
          /\ mIsStop \in [Events -> BOOLEAN]
          /\ \/ firing = NotFiring
             \/ firing \in [timer : Timers, start : Nat, called : BOOLEAN]
          /\ lastFired \in [Ids -> Nat \cup {Never}]
          /\ removed \subseteq Ids

Init == /\ now = 0
        /\ looping = FALSE
        /\ mTimers = {}
        /\ mEvents = << >>
        /\ mLastTimerId = 0
        /\ mIsStop = [e \in Events |-> FALSE]
        /\ firing = NotFiring
        /\ lastFired = [id \in Ids |-> Never]
        /\ removed = {}

Tick == /\ now < MaxTime
        /\ now' = now + 1
        /\ UNCHANGED <<looping, mTimers, mEvents, mLastTimerId, mIsStop,
                       firing, lastFired, removed>>

StartLoop == /\ ~looping
             /\ looping' = TRUE
             /\ UNCHANGED <<now, mTimers, mEvents, mLastTimerId, mIsStop,
                            firing, lastFired, removed>>

-----------------------------------------------------------------------------
(* std::multimap: an entry goes behind those with the same timestamp.      *)
Insert(q, timer) ==
  LET notAfter == {i \in DOMAIN q : q[i].at <= timer.at}
      place == CHOOSE i \in 1..Len(q) + 1 :
                 notAfter = 1..(i - 1)
  IN  InsertAt(q, place, timer)

(* Erase the entry of a timer, if there is one.                            *)
Erase(q, id) == RemoveFirstMatch(q, LAMBDA timer : timer.id = id)

(* Who may call the manager, see above.                                    *)
MayCall == ~looping \/ firing.called

AddTimer(e, at, interval) ==
  LET id == mLastTimerId + 1 IN
  /\ MayCall
  /\ id \in Ids
  /\ mLastTimerId' = id
  /\ mTimers' = mTimers \cup {id}
  /\ mEvents' = Insert(mEvents,
                  [id |-> id, event |-> e, at |-> at, interval |-> interval])
  /\ UNCHANGED <<now, looping, mIsStop, firing, lastFired, removed>>

AddTimerEventRunAfter(e, delay)    == AddTimer(e, now + delay, 0)
AddTimerEventRunAt(e, when)        == AddTimer(e, when, 0)
AddTimerEventRunEvery(e, interval) == AddTimer(e, now + interval, interval)

RemoveTimer(id) ==
  /\ MayCall
  /\ id # firing.timer.id
  /\ id \in mTimers
  /\ mTimers' = mTimers \ {id}
  /\ mEvents' = Erase(mEvents, id)
  /\ removed' = removed \cup {id}
  /\ UNCHANGED <<now, looping, mLastTimerId, mIsStop, firing, lastFired>>

(* TimerEvent::stop                                                        *)
Stop(e) ==
  /\ MayCall
  /\ ~mIsStop[e]
  /\ mIsStop' = [mIsStop EXCEPT ![e] = TRUE]
  /\ UNCHANGED <<now, looping, mTimers, mEvents, mLastTimerId, firing,
                 lastFired, removed>>

-----------------------------------------------------------------------------
(* Mutant of Expired: at that very moment only.                            *)
ExactlyExpired(timer) == (timer.at - now) % IntMod = 0

(* handleRead: `expire` is the difference of the timestamps as an int.     *)
Expired(timer) == \/ now > timer.at
                  \/ (timer.at - now) % IntMod = 0

Fire ==
  LET timer == Head(mEvents) IN
  /\ looping
  /\ firing = NotFiring
  /\ mTimers # {} /\ mEvents # << >>
  /\ Expired(timer)
  /\ firing' = [timer |-> timer, start |-> now,
                called |-> ~mIsStop[timer.event]]
  /\ lastFired' = IF firing'.called
                    THEN [lastFired EXCEPT ![timer.id] = now]
                    ELSE lastFired
  /\ UNCHANGED <<now, looping, mTimers, mEvents, mLastTimerId, mIsStop, removed>>

(* A repeating timer goes on, from the time that its callback was started  *)
(* at, unless its event was stopped; the other timers are erased.          *)
Repeats(timer) == timer.interval > 0 /\ ~mIsStop[timer.event]

CatchesUp(timer, start)   == timer.at + timer.interval  \* mutants of NextTime
CountsBack(timer, start)  == start - 2 * timer.interval
NextTime(timer, start)    == start + timer.interval

KeepsStopped(timer) ==  \* mutant of TimersAfter
  IF timer.interval > 0 THEN mTimers ELSE mTimers \ {timer.id}
TimersAfter(timer) == IF Repeats(timer) THEN mTimers ELSE mTimers \ {timer.id}

(* The callback returned.                                                  *)
Finish ==
  LET timer == firing.timer
      rest == Erase(mEvents, timer.id)
  IN
  /\ firing # NotFiring
  /\ mEvents' = IF Repeats(timer)
       THEN Insert(rest, [timer EXCEPT !.at = NextTime(timer, firing.start)])
       ELSE rest
  /\ mTimers' = TimersAfter(timer)
  /\ firing' = NotFiring
  /\ UNCHANGED <<now, looping, mLastTimerId, mIsStop, lastFired, removed>>

-----------------------------------------------------------------------------
Next == \/ Tick
        \/ StartLoop
        \/ \E e \in Events :
             \/ \E delay \in Delays : AddTimerEventRunAfter(e, delay)
             \/ \E when \in Moments : AddTimerEventRunAt(e, when)
             \/ \E interval \in Intervals : AddTimerEventRunEvery(e, interval)
             \/ Stop(e)
        \/ \E id \in Ids : RemoveTimer(id)
        \/ Fire
        \/ Finish

Spec == Init /\ [][Next]_vars

(* The timer thread spins, and callbacks return.                           *)
FairSpec == Spec /\ WF_vars(Fire) /\ WF_vars(Finish)

-----------------------------------------------------------------------------
(* Properties.                                                             *)

(* mTimers and mEvents describe the same timers: each timer of mTimers has *)
(* exactly one entry, no entry outlives its timer, and the entries are in  *)
(* the order of their timestamps.  handleRead and removeTimer change the   *)
(* two maps in several places, around a callback that may change them too. *)
MapsAgree ==
  /\ {mEvents[i].id : i \in DOMAIN mEvents} = mTimers
  /\ \A i, j \in DOMAIN mEvents :
       i < j => /\ mEvents[i].id # mEvents[j].id
                /\ mEvents[i].at <= mEvents[j].at

Calls(id) == firing'.called /\ firing = NotFiring /\ firing'.timer.id = id

(* A callback runs when it is due and only then.  A negative difference of *)
(* now and the timestamp says that the time has not come (Timer.h:16-17),  *)
(* however the difference is stored.  A repeating timer keeps its interval *)
(* between two calls, also when its callbacks are slow and it runs late,   *)
(* and a one-shot timer is called once.  removeTimer and stop are final.   *)
OnlyDueCalls ==
  [][\A id \in Ids : Calls(id) =>
       /\ now >= firing'.timer.at
       /\ lastFired[id] # Never =>
            /\ firing'.timer.interval > 0
            /\ now - lastFired[id] >= firing'.timer.interval
       /\ id \notin removed
       /\ ~mIsStop[firing'.timer.event]]_vars

(* handleRead serves one timer per call, the earliest, and puts repeating  *)
(* timers back behind those that are already late: each timer whose time   *)
(* has come gets its turn, unless it is removed.                           *)
Late(id) == looping /\ \E i \in DOMAIN mEvents :
                         mEvents[i].id = id /\ mEvents[i].at <= now
LateTimerServed ==
  \A id \in Ids : Late(id) ~> (firing.timer.id = id \/ ~Late(id))
=============================================================================
