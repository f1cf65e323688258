------------------------- MODULE TimerManagerProofs -------------------------
(***************************************************************************)
(* Proofs about TimerManager, for every set of events, delays, moments and *)
(* intervals, every bound of the clock and every number of timers.         *)
(***************************************************************************)
EXTENDS TimerManager, SequenceTheorems, WellFoundedInduction, TLAPS

(* InsertAt makes room at a position: the elements from there on move up   *)
(* by one.                                                                 *)
LEMMA InsertAtElems ==
  ASSUME NEW S, NEW q \in Seq(S), NEW k \in 1..Len(q) + 1, NEW e \in S
  PROVE  /\ InsertAt(q, k, e) \in Seq(S)
         /\ Len(InsertAt(q, k, e)) = Len(q) + 1
         /\ \A i \in 1..Len(q) + 1 :
              InsertAt(q, k, e)[i] = IF i < k THEN q[i]
                                     ELSE IF i = k THEN e ELSE q[i - 1]
<1> DEFINE a == SubSeq(q, 1, k - 1)
           b == SubSeq(q, k, Len(q))
<1>1. /\ a \in Seq(S) /\ Len(a) = k - 1
      /\ \A i \in 1..(k - 1) : a[i] = q[i]
      BY SubSeqProperties
<1>2. /\ b \in Seq(S) /\ Len(b) = Len(q) - k + 1
      /\ \A i \in 1..(Len(q) - k + 1) : b[i] = q[k + i - 1]
      BY SubSeqProperties
<1>3. InsertAt(q, k, e) = (a \o <<e>>) \o b
      BY DEF InsertAt
<1> HIDE DEF a, b
<1>4. /\ a \o <<e>> \in Seq(S) /\ Len(a \o <<e>>) = k
      /\ \A i \in 1..k : (a \o <<e>>)[i] = IF i < k THEN q[i] ELSE e
      BY <1>1
<1> DEFINE c == a \o <<e>>
<1>5. InsertAt(q, k, e) = c \o b
      BY <1>3
<1>6. /\ c \in Seq(S) /\ Len(c) = k
      /\ \A i \in 1..k : c[i] = IF i < k THEN q[i] ELSE e
      BY <1>4
<1> HIDE DEF c
<1>7. /\ c \o b \in Seq(S)
      /\ Len(c \o b) = Len(q) + 1
      /\ \A i \in 1..Len(q) + 1 : (c \o b)[i] = IF i <= k THEN c[i] ELSE b[i - k]
      BY <1>2, <1>6, ConcatProperties
<1>8. ASSUME NEW i \in 1..Len(q) + 1, i > k PROVE b[i - k] = q[i - 1]
  <2>1. i - k \in 1..(Len(q) - k + 1) /\ k + (i - k) - 1 = i - 1
        BY <1>8
  <2> QED BY <1>2, <2>1
<1> QED BY <1>5, <1>6, <1>7, <1>8

(* RemoveAt closes the gap: the elements behind it move down by one.       *)
LEMMA RemoveAtElems ==
  ASSUME NEW S, NEW q \in Seq(S), NEW k \in 1..Len(q)
  PROVE  /\ RemoveAt(q, k) \in Seq(S)
         /\ Len(RemoveAt(q, k)) = Len(q) - 1
         /\ \A i \in 1..Len(q) - 1 :
              RemoveAt(q, k)[i] = IF i < k THEN q[i] ELSE q[i + 1]
<1> DEFINE a == SubSeq(q, 1, k - 1)
           b == SubSeq(q, k + 1, Len(q))
<1>1. /\ a \in Seq(S) /\ Len(a) = k - 1
      /\ \A i \in 1..(k - 1) : a[i] = q[i]
      BY SubSeqProperties
<1>2. /\ b \in Seq(S) /\ Len(b) = Len(q) - k
      /\ \A i \in 1..(Len(q) - k) : b[i] = q[k + i]
      BY SubSeqProperties
<1>3. RemoveAt(q, k) = a \o b
      BY DEF RemoveAt
<1> HIDE DEF a, b
<1>4. /\ a \o b \in Seq(S)
      /\ Len(a \o b) = Len(a) + Len(b)
      /\ \A i \in 1..Len(a) + Len(b) :
           (a \o b)[i] = IF i <= Len(a) THEN a[i] ELSE b[i - Len(a)]
      BY <1>1, <1>2, ConcatProperties
<1>5. ASSUME NEW i \in 1..Len(q) - 1, i > k - 1 PROVE b[i - (k - 1)] = q[i + 1]
  <2>1. i - (k - 1) \in 1..(Len(q) - k) /\ k + (i - (k - 1)) = i + 1
        BY <1>5
  <2> QED BY <1>2, <2>1
<1>6. Len(q) \in Nat /\ k \in Nat /\ Len(a) + Len(b) = Len(q) - 1
      BY <1>1, <1>2
<1>7. ASSUME NEW i \in 1..Len(q) - 1
      PROVE  (a \o b)[i] = IF i < k THEN q[i] ELSE q[i + 1]
  <2>1. (a \o b)[i] = IF i <= Len(a) THEN a[i] ELSE b[i - Len(a)]
        BY <1>4, <1>6
  <2>2. i <= Len(a) <=> i < k
        BY <1>1, <1>6
  <2>3. CASE i < k
        BY <1>1, <1>6, <2>1, <2>2, <2>3
  <2>4. CASE ~(i < k)
        BY <1>1, <1>5, <1>6, <2>1, <2>2, <2>4
  <2> QED BY <2>3, <2>4
<1> QED BY <1>3, <1>4, <1>6, <1>7

(* A set of positions that is not empty has a smallest one.                *)
LEMMA SmallestPosition ==
  ASSUME NEW T, T \subseteq Nat, T # {}
  PROVE  Min(T) \in T
<1>1. IsWellFoundedOn(OpToRel(<, Nat), Nat)
      BY NatLessThanWellFounded
<1>2. PICK k \in T : \A l \in T : ~(<<l, k>> \in OpToRel(<, Nat))
      BY <1>1, WFMin
<1>3. \A l \in T : ~(l < k)
      BY <1>2 DEF OpToRel
<1>4. \A l \in T : k <= l
      BY <1>3
<1> QED BY <1>4 DEF Min

(* Erase removes one entry of the id, or nothing when there is none.       *)
LEMMA EraseIs ==
  ASSUME NEW S, NEW q \in Seq(S), NEW id
  PROVE  \/ /\ \A i \in DOMAIN q : q[i].id # id
            /\ Erase(q, id) = q
         \/ \E k \in DOMAIN q : q[k].id = id /\ Erase(q, id) = RemoveAt(q, k)
<1>1. Erase(q, id) = IF \E i \in 1..Len(q) : q[i].id = id
     THEN RemoveAt(q, SelectInSeq(q, LAMBDA timer : timer.id = id)) ELSE q
  BY DEF Erase, RemoveFirstMatch
<1> DEFINE found == {i \in 1..Len(q) : q[i].id = id}
<1>2. ASSUME found # {}
      PROVE  SelectInSeq(q, LAMBDA timer : timer.id = id) = Min(found)
      BY <1>2 DEF SelectInSeq
<1>3. found # {} => Min(found) \in found
  <2>1. found \subseteq Nat
        OBVIOUS
  <2> HIDE DEF found
  <2> QED BY <2>1, SmallestPosition
<1>4. CASE found = {}
  <2>1. Erase(q, id) = q
        BY <1>4 DEF Erase, RemoveFirstMatch
  <2>2. \A i \in DOMAIN q : q[i].id # id
        BY <1>4
  <2> QED BY <2>1, <2>2
<1>5. CASE found # {}
  <2> DEFINE k == Min(found)
  <2>1. k \in 1..Len(q) /\ q[k].id = id
        BY <1>3, <1>5
  <2>2. Erase(q, id) = RemoveAt(q, k)
        BY <1>1, <1>2, <1>5
  <2> HIDE DEF k
  <2> QED BY <2>1, <2>2
<1> QED BY <1>4, <1>5

(* The order that MapsAgree asks of mEvents, for any queue of timers.      *)
Ordered(q) ==
  \A i, j \in DOMAIN q : i < j => /\ q[i].id # q[j].id
                                  /\ q[i].at <= q[j].at

(* In an ordered queue the entries that are not after a timer are a        *)
(* prefix, so Insert has a place for it.                                   *)
LEMMA PlaceExists ==
  ASSUME NEW q \in Seq(Timers), Ordered(q), NEW timer \in Timers
  PROVE  \E k \in 1..Len(q) + 1 :
           {i \in DOMAIN q : q[i].at <= timer.at} = 1..(k - 1)
<1> DEFINE notAfter == {i \in DOMAIN q : q[i].at <= timer.at}
           others == {i \in 1..Len(q) + 1 : i \notin notAfter}
           k == Min(others)
<1>1. Len(q) \in Nat /\ DOMAIN q = 1..Len(q)
      OBVIOUS
<1>2. /\ others \subseteq Nat
      /\ Len(q) + 1 \in others
      BY <1>1
<1>3. k \in others
  <2> HIDE DEF others
  <2> QED BY <1>2, SmallestPosition
<1>4. ASSUME NEW i \in 1..Len(q), i < k PROVE i \in notAfter
  <2>1. \A j \in others : k <= j
    <3>1. PICK m \in others : \A j \in others : m <= j
      <4>1. IsWellFoundedOn(OpToRel(<, Nat), Nat)
            BY NatLessThanWellFounded
      <4> HIDE DEF others
      <4>2. PICK m \in others : \A l \in others : ~(<<l, m>> \in OpToRel(<, Nat))
            BY <1>2, <4>1, WFMin
      <4>3. \A l \in others : ~(l < m)
            BY <1>2, <4>2 DEF OpToRel
      <4> QED BY <1>2, <4>3
    <3> HIDE DEF others
    <3> QED BY <3>1 DEF Min
  <2> HIDE DEF k
  <2> QED BY <1>1, <1>3, <1>4, <2>1
<1>5. ASSUME NEW i \in notAfter PROVE i < k
  <2>1. k \in 1..Len(q) + 1 /\ k \notin notAfter /\ i \in 1..Len(q)
        BY <1>1, <1>3
  <2> HIDE DEF k
  <2>2. SUFFICES ASSUME k < i PROVE FALSE
        BY <2>1
  <2>3. q[k].at <= q[i].at /\ q[i].at <= timer.at /\ k \in 1..Len(q)
        BY <1>1, <2>1, <2>2 DEF Ordered
  <2>4. q[k] \in Timers /\ q[i] \in Timers
        BY <1>1, <2>1, <2>3
  <2>5. q[k].at <= timer.at
        BY <2>3, <2>4 DEF Timers
  <2> QED BY <1>1, <2>1, <2>3, <2>5
<1>6. k \in 1..Len(q) + 1
      BY <1>3
<1> HIDE DEF k
<1>7. notAfter = 1..(k - 1)
      BY <1>1, <1>4, <1>5, <1>6
<1> QED BY <1>6, <1>7

(* Insert adds one timer with a new id and keeps the order.                *)
LEMMA InsertOrdered ==
  ASSUME NEW q \in Seq(Timers), Ordered(q), NEW timer \in Timers,
         \A i \in DOMAIN q : q[i].id # timer.id
  PROVE  /\ Insert(q, timer) \in Seq(Timers)
         /\ Ordered(Insert(q, timer))
         /\ Range(Insert(q, timer)) = Range(q) \cup {timer}
<1> DEFINE notAfter == {i \in DOMAIN q : q[i].at <= timer.at}
           k == CHOOSE i \in 1..Len(q) + 1 : notAfter = 1..(i - 1)
           new == InsertAt(q, k, timer)
<1>1. Len(q) \in Nat /\ DOMAIN q = 1..Len(q)
      OBVIOUS
<1>2. k \in 1..Len(q) + 1 /\ notAfter = 1..(k - 1)
      BY PlaceExists
<1>3. Insert(q, timer) = new
      BY DEF Insert
<1> HIDE DEF k
<1>4. /\ new \in Seq(Timers) /\ Len(new) = Len(q) + 1
      /\ DOMAIN new = 1..Len(q) + 1
      /\ \A i \in 1..Len(q) + 1 :
           new[i] = IF i < k THEN q[i] ELSE IF i = k THEN timer ELSE q[i - 1]
      BY <1>1, <1>2, InsertAtElems
<1> HIDE DEF new
<1>5. ASSUME NEW i \in 1..Len(q) PROVE i < k <=> q[i].at <= timer.at
      BY <1>1, <1>2, <1>5
<1> HIDE DEF notAfter
<1>6. \A i \in 1..Len(q) : q[i].at \in Nat /\ q[i].id \in Ids
  <2>1. \A i \in 1..Len(q) : q[i] \in Timers
        OBVIOUS
  <2> QED BY <2>1 DEF Timers
<1>7. timer.at \in Nat
      BY DEF Timers
<1>8. ASSUME NEW i \in 1..Len(q) + 1, NEW j \in 1..Len(q) + 1, i < j
      PROVE  new[i].id # new[j].id /\ new[i].at <= new[j].at
  <2>1. CASE j < k
        BY <1>1, <1>2, <1>4, <1>8, <2>1 DEF Ordered
  <2>2. CASE j = k
    <3>1. i \in 1..Len(q) /\ i < k /\ new[i] = q[i] /\ new[j] = timer
          BY <1>1, <1>2, <1>4, <1>8, <2>2
    <3> QED BY <1>1, <1>5, <3>1
  <2>3. CASE j > k /\ i = k
    <3>1. /\ j - 1 \in 1..Len(q) /\ ~(j - 1 < k)
          /\ new[i] = timer /\ new[j] = q[j - 1]
          BY <1>1, <1>2, <1>4, <1>8, <2>3
    <3> QED BY <1>1, <1>5, <1>6, <1>7, <3>1
  <2>4. CASE j > k /\ i < k
    <3>1. /\ j - 1 \in 1..Len(q) /\ i \in 1..Len(q) /\ i < j - 1
          /\ new[i] = q[i] /\ new[j] = q[j - 1]
          BY <1>1, <1>2, <1>4, <1>8, <2>4
    <3> QED BY <1>1, <3>1 DEF Ordered
  <2>5. CASE j > k /\ i > k
    <3>1. /\ j - 1 \in 1..Len(q) /\ i - 1 \in 1..Len(q) /\ i - 1 < j - 1
          /\ new[i] = q[i - 1] /\ new[j] = q[j - 1]
          BY <1>1, <1>2, <1>4, <1>8, <2>5
    <3> QED BY <1>1, <3>1 DEF Ordered
  <2> QED BY <1>1, <1>2, <2>1, <2>2, <2>3, <2>4, <2>5
<1>9. Ordered(new)
      BY <1>4, <1>8 DEF Ordered
<1>10. Range(new) = Range(q) \cup {timer}
  <2>1. ASSUME NEW i \in DOMAIN new PROVE new[i] \in Range(q) \cup {timer}
    <3>1. CASE i < k
          BY <1>1, <1>2, <1>4, <2>1, <3>1 DEF Range
    <3>2. CASE i = k
          BY <1>4, <3>2
    <3>3. CASE i > k
      <4>1. i - 1 \in DOMAIN q /\ new[i] = q[i - 1]
            BY <1>1, <1>2, <1>4, <3>3
      <4> QED BY <4>1 DEF Range
    <3> QED BY <1>2, <1>4, <3>1, <3>2, <3>3
  <2>2. timer \in Range(new)
        BY <1>1, <1>2, <1>4 DEF Range
  <2>3. ASSUME NEW i \in DOMAIN q PROVE q[i] \in Range(new)
    <3>1. CASE i < k
      <4>1. i \in DOMAIN new /\ new[i] = q[i]
            BY <1>1, <1>4, <3>1
      <4> QED BY <4>1 DEF Range
    <3>2. CASE ~(i < k)
      <4>1. i + 1 \in DOMAIN new /\ new[i + 1] = q[i]
        <5>1. i + 1 \in 1..Len(q) + 1 /\ ~(i + 1 < k) /\ i + 1 # k /\ (i + 1) - 1 = i
              BY <1>1, <1>2, <3>2
        <5> QED BY <1>4, <5>1
      <4> QED BY <4>1 DEF Range
    <3> QED BY <3>1, <3>2
  <2>4. Range(new) \subseteq Range(q) \cup {timer}
        BY <2>1 DEF Range
  <2>5. Range(q) \subseteq Range(new)
        BY <2>3 DEF Range
  <2> QED BY <2>2, <2>4, <2>5
<1> QED BY <1>3, <1>4, <1>9, <1>10

(* Erase takes the timers of one id away and keeps the order.              *)
LEMMA EraseOrdered ==
  ASSUME NEW q \in Seq(Timers), Ordered(q), NEW id
  PROVE  /\ Erase(q, id) \in Seq(Timers)
         /\ Ordered(Erase(q, id))
         /\ Range(Erase(q, id)) = {timer \in Range(q) : timer.id # id}
<1>1. Len(q) \in Nat /\ DOMAIN q = 1..Len(q)
      OBVIOUS
<1>2. CASE (\A i \in DOMAIN q : q[i].id # id) /\ Erase(q, id) = q
      BY <1>2 DEF Range
<1>3. ASSUME NEW k \in DOMAIN q, q[k].id = id, Erase(q, id) = RemoveAt(q, k)
      PROVE  /\ Erase(q, id) \in Seq(Timers)
             /\ Ordered(Erase(q, id))
             /\ Range(Erase(q, id)) = {timer \in Range(q) : timer.id # id}
  <2> DEFINE new == RemoveAt(q, k)
  <2>1. /\ new \in Seq(Timers) /\ Len(new) = Len(q) - 1
        /\ DOMAIN new = 1..Len(q) - 1
        /\ \A i \in 1..Len(q) - 1 : new[i] = IF i < k THEN q[i] ELSE q[i + 1]
    <3>1. k \in 1..Len(q)
          BY <1>1, <1>3
    <3>2. /\ new \in Seq(Timers) /\ Len(new) = Len(q) - 1
          /\ \A i \in 1..Len(q) - 1 : new[i] = IF i < k THEN q[i] ELSE q[i + 1]
          BY <3>1, RemoveAtElems
    <3> HIDE DEF new
    <3>3. DOMAIN new = 1..Len(new)
          BY <3>2
    <3> QED BY <3>2, <3>3
  <2> HIDE DEF new
  <2> DEFINE from(i) == IF i < k THEN i ELSE i + 1
  <2>6. \A i, j \in DOMAIN new :
          /\ from(i) \in DOMAIN q /\ from(i) # k /\ new[i] = q[from(i)]
          /\ i < j => from(i) < from(j)
    <3>1. \A i \in DOMAIN new : new[i] = q[from(i)]
          BY <2>1
    <3>2. k \in 1..Len(q) /\ DOMAIN q = 1..Len(q) /\ DOMAIN new = 1..Len(q) - 1
          BY <1>1, <2>1
    <3>3. \A i, j \in 1..Len(q) - 1 :
            /\ from(i) \in 1..Len(q) /\ from(i) # k
            /\ i < j => from(i) < from(j)
          BY <1>1, <3>2
    <3> QED BY <3>1, <3>2, <3>3
  <2>2. Ordered(new)
    <3> HIDE DEF from
    <3> QED BY <2>6 DEF Ordered
  <2>3. ASSUME NEW i \in DOMAIN new PROVE new[i] \in Range(q) /\ new[i].id # id
    <3> HIDE DEF from
    <3>1. from(i) < k \/ k < from(i)
          BY <1>1, <2>6
    <3>2. q[from(i)].id # q[k].id
          BY <2>6, <3>1 DEF Ordered
    <3> QED BY <1>3, <2>6, <3>2 DEF Range
  <2>4. ASSUME NEW i \in DOMAIN q, q[i].id # id PROVE q[i] \in Range(new)
    <3>1. CASE i < k
      <4>1. i \in DOMAIN new /\ new[i] = q[i]
            BY <1>1, <2>1, <3>1
      <4> QED BY <4>1 DEF Range
    <3>2. CASE k < i
      <4>1. i - 1 \in DOMAIN new /\ new[i - 1] = q[i]
        <5>1. i - 1 \in 1..Len(q) - 1 /\ ~(i - 1 < k) /\ (i - 1) + 1 = i
              BY <1>1, <3>2
        <5> QED BY <2>1, <5>1
      <4> QED BY <4>1 DEF Range
    <3> QED BY <1>1, <1>3, <2>4, <3>1, <3>2
  <2>5. Range(new) = {timer \in Range(q) : timer.id # id}
        BY <2>3, <2>4 DEF Range
  <2> QED BY <1>3, <2>1, <2>2, <2>5 DEF new
<1> QED BY <1>2, <1>3, EraseIs

-----------------------------------------------------------------------------
(* Ids are given in order, and an id that was removed is never given again. *)
Numbered == /\ mTimers \subseteq 1..mLastTimerId
            /\ removed \subseteq 1..mLastTimerId
            /\ removed \cap mTimers = {}
            /\ \A id \in Ids : id > mLastTimerId => lastFired[id] = Never

(* While a callback runs, its timer is still in mEvents; a timer that was  *)
(* passed over because its event is stopped stays stopped.                 *)
FiringListed ==
  firing # NotFiring =>
    /\ firing.timer \in Range(mEvents)
    /\ firing.start <= now
    /\ firing.called => lastFired[firing.timer.id] = firing.start
    /\ ~firing.called => mIsStop[firing.timer.event]

(* A timer that was called before and waits is a repeating one, and its    *)
(* next time is at least an interval after the call.                       *)
IntervalKept ==
  \A t \in Range(mEvents) :
    t.id # firing.timer.id /\ lastFired[t.id] # Never =>
      t.interval > 0 /\ t.at >= lastFired[t.id] + t.interval

IInv == TypeOK /\ MapsAgree /\ Numbered /\ FiringListed /\ IntervalKept

(* MapsAgree in terms of the entries rather than their positions.          *)
LEMMA MapsAgreeIs ==
  MapsAgree <=> {t.id : t \in Range(mEvents)} = mTimers /\ Ordered(mEvents)
BY DEF MapsAgree, Ordered, Range

(* Different entries have different ids.                                   *)
LEMMA OneEntryEach ==
  ASSUME NEW q \in Seq(Timers), Ordered(q),
         NEW s \in Range(q), NEW t \in Range(q), s.id = t.id
  PROVE  s = t
<1>1. PICK i \in DOMAIN q, j \in DOMAIN q : s = q[i] /\ t = q[j]
      BY DEF Range
<1>2. i \in Nat /\ j \in Nat
      OBVIOUS
<1>3. ~(i < j) /\ ~(j < i)
      BY <1>1 DEF Ordered
<1> QED BY <1>1, <1>2, <1>3

(* The entries are timers.                                                 *)
LEMMA EntriesAreTimers ==
  ASSUME NEW q \in Seq(Timers)
  PROVE  Range(q) \subseteq Timers
BY DEF Range

-----------------------------------------------------------------------------
(* The first state.                                                        *)
LEMMA Initial == Init => IInv
<1> SUFFICES ASSUME Init PROVE IInv
    OBVIOUS
<1> USE TimerAssumption DEF Init
<1>1. TypeOK
  <2>1. lastFired = [id \in Ids |-> Never] /\ Never \in Nat \cup {Never}
        OBVIOUS
  <2>2. lastFired \in [Ids -> Nat \cup {Never}]
        BY <2>1, Zenon
  <2>3. mIsStop \in [Events -> BOOLEAN]
        BY Zenon
  <2>4. mEvents = << >> /\ << >> \in Seq(Timers)
        OBVIOUS
  <2>5. /\ looping \in BOOLEAN /\ firing = NotFiring
        /\ mTimers \subseteq Ids /\ removed \subseteq Ids
        BY Zenon
  <2>6. now \in 0..MaxTime /\ mLastTimerId \in 0..MaxId
    <3>1. now = 0 /\ mLastTimerId = 0
          OBVIOUS
    <3> HIDE DEF Init
    <3> QED BY <3>1
  <2> HIDE DEF Init
  <2> QED BY <2>2, <2>3, <2>4, <2>5, <2>6 DEF TypeOK
<1>2. Range(mEvents) = {} /\ Ordered(mEvents)
      BY DEF Range, Ordered
<1>3. MapsAgree
      BY <1>2, MapsAgreeIs
<1> QED BY <1>1, <1>2, <1>3 DEF IInv, Numbered, FiringListed, IntervalKept

(* A timer that is added gets the next id and its place in mEvents.        *)
LEMMA AddKeeps ==
  ASSUME IInv, NEW e \in Events, NEW at \in Nat, NEW interval \in Nat,
         AddTimer(e, at, interval)
  PROVE  IInv'
<1> DEFINE id == mLastTimerId + 1
           timer == [id |-> id, event |-> e, at |-> at, interval |-> interval]
<1> USE DEF IInv
<1>1. /\ id \in Ids /\ mLastTimerId' = id
      /\ mTimers' = mTimers \cup {id} /\ mEvents' = Insert(mEvents, timer)
      /\ UNCHANGED <<now, looping, mIsStop, firing, lastFired, removed>>
      BY DEF AddTimer
<1>2. /\ mLastTimerId \in Nat /\ Ordered(mEvents) /\ mEvents \in Seq(Timers)
      /\ {t.id : t \in Range(mEvents)} = mTimers
      BY MapsAgreeIs DEF TypeOK
<1>3. timer \in Timers
      BY <1>1 DEF Timers
<1>4. id \notin mTimers /\ id \notin removed /\ lastFired[id] = Never
      BY <1>1, <1>2 DEF Numbered
<1>5. \A i \in DOMAIN mEvents : mEvents[i].id # timer.id
      BY <1>2, <1>4 DEF Range
<1>6. timer.id = id /\ timer.interval = interval
      OBVIOUS
<1> HIDE DEF timer
<1>7. /\ mEvents' \in Seq(Timers) /\ Ordered(mEvents')
      /\ Range(mEvents') = Range(mEvents) \cup {timer}
      BY <1>1, <1>2, <1>3, <1>5, InsertOrdered
<1>8. TypeOK'
      BY <1>1, <1>7 DEF TypeOK, Ids
<1>9. MapsAgree'
  <2>1. {t.id : t \in Range(mEvents')} = mTimers'
        BY <1>1, <1>2, <1>6, <1>7
  <2> QED BY <1>7, <2>1 DEF MapsAgree, Ordered, Range
<1>10. Numbered'
       BY <1>1, <1>2, <1>4 DEF Numbered, Ids
<1>11. FiringListed'
       BY <1>1, <1>7 DEF FiringListed
<1>12. IntervalKept'
       BY <1>1, <1>4, <1>6, <1>7 DEF IntervalKept
<1> QED BY <1>8, <1>9, <1>10, <1>11, <1>12

(* removeTimer takes a timer out of both maps, never the one that runs.    *)
LEMMA RemoveKeeps ==
  ASSUME IInv, NEW id \in Ids, RemoveTimer(id)
  PROVE  IInv'
<1> USE DEF IInv
<1>1. /\ id # firing.timer.id /\ id \in mTimers
      /\ mTimers' = mTimers \ {id} /\ mEvents' = Erase(mEvents, id)
      /\ removed' = removed \cup {id}
      /\ UNCHANGED <<now, looping, mLastTimerId, mIsStop, firing, lastFired>>
      BY DEF RemoveTimer
<1>2. /\ Ordered(mEvents) /\ mEvents \in Seq(Timers)
      /\ {t.id : t \in Range(mEvents)} = mTimers
      BY MapsAgreeIs DEF TypeOK
<1>3. /\ mEvents' \in Seq(Timers) /\ Ordered(mEvents')
      /\ Range(mEvents') = {t \in Range(mEvents) : t.id # id}
      BY <1>1, <1>2, EraseOrdered
<1>4. TypeOK'
      BY <1>1, <1>3 DEF TypeOK
<1>5. MapsAgree'
  <2>1. {t.id : t \in Range(mEvents')} = mTimers'
        BY <1>1, <1>2, <1>3
  <2> QED BY <1>3, <2>1 DEF MapsAgree, Ordered, Range
<1>6. Numbered'
      BY <1>1 DEF Numbered
<1>7. FiringListed'
      BY <1>1, <1>3 DEF FiringListed
<1>8. IntervalKept'
      BY <1>1, <1>3 DEF IntervalKept
<1> QED BY <1>4, <1>5, <1>6, <1>7, <1>8

(* handleRead takes the first timer and calls its event, or passes it over.*)
LEMMA FireKeeps ==
  ASSUME IInv, Fire
  PROVE  IInv'
<1> DEFINE timer == Head(mEvents)
<1> USE DEF IInv
<1>1. /\ firing = NotFiring /\ mEvents # << >>
      /\ firing' = [timer |-> timer, start |-> now,
                    called |-> ~mIsStop[timer.event]]
      /\ lastFired' = IF firing'.called
                        THEN [lastFired EXCEPT ![timer.id] = now]
                        ELSE lastFired
      /\ UNCHANGED <<now, looping, mTimers, mEvents, mLastTimerId, mIsStop, removed>>
      BY DEF Fire
<1>2. /\ Ordered(mEvents) /\ mEvents \in Seq(Timers)
      /\ {t.id : t \in Range(mEvents)} = mTimers
      BY MapsAgreeIs DEF TypeOK
<1>3. timer \in Range(mEvents) /\ timer \in Timers
  <2>1. Len(mEvents) # 0 /\ Len(mEvents) \in Nat
        BY <1>1, <1>2, EmptySeq
  <2>2. 1 \in DOMAIN mEvents /\ timer = mEvents[1]
        BY <1>2, <2>1
  <2> QED BY <1>2, <2>2 DEF Range
<1> HIDE DEF timer
<1>4. /\ timer.id \in Ids /\ timer.event \in Events
      /\ now \in Nat /\ timer.id \in mTimers
      BY <1>2, <1>3 DEF Timers, TypeOK
<1>5. /\ firing'.timer = timer /\ firing'.start = now
      /\ firing'.called = ~mIsStop[timer.event]
      BY <1>1
<1>6. /\ lastFired' \in [Ids -> Nat \cup {Never}]
      /\ firing'.called => lastFired'[timer.id] = now
      /\ \A id \in Ids \ {timer.id} : lastFired'[id] = lastFired[id]
      BY <1>1, <1>4 DEF TypeOK
<1>7. TypeOK'
  <2>1. mIsStop[timer.event] \in BOOLEAN
        BY <1>4 DEF TypeOK
  <2>2. firing' \in [timer : Timers, start : Nat, called : BOOLEAN]
        BY <1>1, <1>3, <1>4, <2>1
  <2> QED BY <1>1, <1>6, <2>2 DEF TypeOK
<1>8. MapsAgree'
      BY <1>1 DEF MapsAgree
<1>9. Numbered'
  <2>1. timer.id \in 1..mLastTimerId
        BY <1>4 DEF Numbered
  <2>2. ASSUME NEW id \in Ids, id > mLastTimerId PROVE lastFired'[id] = Never
    <3>1. id # timer.id
          BY <2>1, <2>2 DEF TypeOK
    <3> QED BY <1>6, <2>2, <3>1 DEF Numbered
  <2> QED BY <1>1, <2>2 DEF Numbered
<1>10. FiringListed'
  <2>1. ~firing'.called => mIsStop'[firing'.timer.event]
        BY <1>1, <1>5
  <2>2. firing'.timer \in Range(mEvents)' /\ firing'.start <= now'
        BY <1>1, <1>3, <1>4, <1>5
  <2>3. firing'.called => lastFired'[firing'.timer.id] = firing'.start
        BY <1>5, <1>6
  <2> QED BY <2>1, <2>2, <2>3 DEF FiringListed
<1>11. IntervalKept'
  <2> SUFFICES ASSUME NEW t \in Range(mEvents), t.id # timer.id,
                      lastFired'[t.id] # Never
               PROVE  t.interval > 0 /\ t.at >= lastFired'[t.id] + t.interval
      BY <1>1, <1>5 DEF IntervalKept
  <2>1. t.id \in Ids
        BY <1>2, EntriesAreTimers DEF Timers
  <2>2. lastFired'[t.id] = lastFired[t.id]
        BY <1>6, <2>1
  <2>3. firing.timer.id = 0 /\ t.id # 0
        BY <1>1, <2>1 DEF NotFiring, NoTimer, Ids
  <2> QED BY <2>2, <2>3 DEF IntervalKept
<1> QED BY <1>7, <1>8, <1>9, <1>10, <1>11

(* A repeating timer goes on an interval after its call; another is erased.*)
LEMMA FinishKeeps ==
  ASSUME IInv, Finish
  PROVE  IInv'
<1> DEFINE timer == firing.timer
           rest == Erase(mEvents, timer.id)
           again == [timer EXCEPT !.at = NextTime(timer, firing.start)]
<1> USE DEF IInv
<1>1. /\ firing # NotFiring
      /\ mEvents' = IF Repeats(timer) THEN Insert(rest, again) ELSE rest
      /\ mTimers' = IF Repeats(timer) THEN mTimers ELSE mTimers \ {timer.id}
      /\ firing' = NotFiring
      /\ UNCHANGED <<now, looping, mLastTimerId, mIsStop, lastFired, removed>>
      BY DEF Finish, TimersAfter
<1>2. /\ Ordered(mEvents) /\ mEvents \in Seq(Timers)
      /\ {t.id : t \in Range(mEvents)} = mTimers
      BY MapsAgreeIs DEF TypeOK
<1>3. /\ timer \in Timers /\ firing.start \in Nat /\ timer \in Range(mEvents)
      /\ timer.id \in mTimers
      BY <1>1, <1>2 DEF TypeOK, FiringListed
<1>4. /\ again \in Timers /\ again.id = timer.id
      /\ again.interval = timer.interval
      /\ again.at = firing.start + timer.interval
      BY <1>3 DEF Timers, NextTime
<1>5. /\ rest \in Seq(Timers) /\ Ordered(rest)
      /\ Range(rest) = {t \in Range(mEvents) : t.id # timer.id}
      BY <1>2, EraseOrdered
<1> HIDE DEF timer, rest, again
<1>6. CASE Repeats(timer)
  <2>1. mEvents' = Insert(rest, again) /\ mTimers' = mTimers
        BY <1>1, <1>6
  <2>2. \A i \in DOMAIN rest : rest[i].id # again.id
        BY <1>4, <1>5 DEF Range
  <2>3. /\ mEvents' \in Seq(Timers) /\ Ordered(mEvents')
        /\ Range(mEvents') = Range(rest) \cup {again}
        BY <1>4, <1>5, <2>1, <2>2, InsertOrdered
  <2>4. {t.id : t \in Range(mEvents')} = mTimers'
        BY <1>2, <1>3, <1>4, <1>5, <2>1, <2>3
  <2>5. TypeOK'
        BY <1>1, <2>1, <2>3 DEF TypeOK
  <2>6. MapsAgree'
        BY <2>3, <2>4 DEF MapsAgree, Ordered, Range
  <2>7. Numbered'
        BY <1>1, <2>1 DEF Numbered
  <2>8. FiringListed'
        BY <1>1 DEF FiringListed
  <2>9. IntervalKept'
    <3>1. lastFired[again.id] = firing.start /\ again.interval > 0
          BY <1>1, <1>4, <1>6 DEF FiringListed, Repeats, timer
    <3>2. \A t \in Range(rest) : lastFired[t.id] # Never =>
            t.interval > 0 /\ t.at >= lastFired[t.id] + t.interval
          BY <1>5 DEF IntervalKept, timer
    <3>3. again.at >= lastFired[again.id] + again.interval
          BY <1>3, <1>4, <3>1 DEF Timers
    <3> QED BY <1>1, <2>3, <3>1, <3>2, <3>3 DEF IntervalKept
  <2> QED BY <2>5, <2>6, <2>7, <2>8, <2>9
<1>7. CASE ~Repeats(timer)
  <2>1. mEvents' = rest /\ mTimers' = mTimers \ {timer.id}
        BY <1>1, <1>7
  <2>2. {t.id : t \in Range(mEvents')} = mTimers'
        BY <1>2, <1>5, <2>1
  <2>3. TypeOK'
        BY <1>1, <1>5, <2>1 DEF TypeOK
  <2>4. MapsAgree'
        BY <1>5, <2>1, <2>2 DEF MapsAgree, Ordered, Range
  <2>5. Numbered'
        BY <1>1, <2>1 DEF Numbered
  <2>6. FiringListed'
        BY <1>1 DEF FiringListed
  <2>7. IntervalKept'
        BY <1>1, <1>5, <2>1 DEF IntervalKept, timer
  <2> QED BY <2>3, <2>4, <2>5, <2>6, <2>7
<1> QED BY <1>6, <1>7

(* Every step keeps the invariant.                                         *)
LEMMA Inductive == IInv /\ [Next]_vars => IInv'
<1> SUFFICES ASSUME IInv, [Next]_vars PROVE IInv'
    OBVIOUS
<1> USE TimerAssumption
<1>1. now \in Nat
      BY DEF IInv, TypeOK
<1>2. CASE Tick
  <2>1. /\ now' = now + 1 /\ now' \in 0..MaxTime
        /\ UNCHANGED <<looping, mTimers, mEvents, mLastTimerId, mIsStop,
                       firing, lastFired, removed>>
        BY <1>2 DEF Tick, IInv, TypeOK
  <2>2. TypeOK'
        BY <2>1 DEF IInv, TypeOK
  <2>3. MapsAgree' /\ Numbered' /\ IntervalKept'
        BY <2>1 DEF IInv, MapsAgree, Numbered, IntervalKept
  <2>4. FiringListed'
    <3>1. firing # NotFiring => firing.start \in Nat
          BY DEF IInv, TypeOK
    <3> QED BY <1>1, <2>1, <3>1 DEF IInv, FiringListed
  <2> QED BY <2>2, <2>3, <2>4 DEF IInv
<1>3. CASE StartLoop
      BY <1>3 DEF StartLoop, IInv, TypeOK, MapsAgree, Numbered, FiringListed,
                  IntervalKept
<1>4. ASSUME NEW e \in Events, NEW delay \in Delays,
             AddTimerEventRunAfter(e, delay)
      PROVE  IInv'
      BY <1>1, <1>4, AddKeeps DEF AddTimerEventRunAfter
<1>5. ASSUME NEW e \in Events, NEW when \in Moments, AddTimerEventRunAt(e, when)
      PROVE  IInv'
      BY <1>5, AddKeeps DEF AddTimerEventRunAt
<1>6. ASSUME NEW e \in Events, NEW interval \in Intervals,
             AddTimerEventRunEvery(e, interval)
      PROVE  IInv'
      BY <1>1, <1>6, AddKeeps DEF AddTimerEventRunEvery
<1>7. ASSUME NEW e \in Events, Stop(e) PROVE IInv'
  <2>1. /\ mIsStop' = [mIsStop EXCEPT ![e] = TRUE]
        /\ UNCHANGED <<now, looping, mTimers, mEvents, mLastTimerId, firing,
                       lastFired, removed>>
        BY <1>7 DEF Stop
  <2>2. TypeOK'
        BY <2>1 DEF IInv, TypeOK
  <2>3. MapsAgree' /\ Numbered' /\ IntervalKept'
        BY <2>1 DEF IInv, MapsAgree, Numbered, IntervalKept
  <2>4. \A f \in Events : mIsStop[f] => mIsStop'[f]
        BY <2>1 DEF IInv, TypeOK
  <2>5. firing # NotFiring => firing.timer.event \in Events
        BY DEF IInv, TypeOK, Timers
  <2>6. FiringListed'
        BY <2>1, <2>4, <2>5 DEF IInv, FiringListed
  <2> QED BY <2>2, <2>3, <2>6 DEF IInv
<1>8. ASSUME NEW id \in Ids, RemoveTimer(id) PROVE IInv'
      BY <1>8, RemoveKeeps
<1>9. CASE Fire
      BY <1>9, FireKeeps
<1>10. CASE Finish
       BY <1>10, FinishKeeps
<1>11. CASE UNCHANGED vars
       BY <1>11 DEF vars, IInv, TypeOK, MapsAgree, Numbered, FiringListed,
                    IntervalKept
<1> QED BY <1>2, <1>3, <1>4, <1>5, <1>6, <1>7, <1>8, <1>9, <1>10, <1>11 DEF Next

LEMMA Invariant == Spec => []IInv
BY Initial, Inductive, PTL DEF Spec

(* The variables keep their types, whatever timers are added.              *)
THEOREM TypeInvariant == Spec => []TypeOK
<1>1. IInv => TypeOK
      BY DEF IInv
<1> QED BY <1>1, Invariant, PTL

(* The map of ids and the multimap of entries stay in step, around every   *)
(* callback, and the entries stay in the order of their timestamps.        *)
THEOREM TimersAgree == Spec => []MapsAgree
<1>1. IInv => MapsAgree
      BY DEF IInv
<1> QED BY <1>1, Invariant, PTL

-----------------------------------------------------------------------------
(* The difference of two timestamps fits into an int as long as no timer   *)
(* is set further ahead than an int counts.                                *)
NotFarAhead ==
  \A t \in Range(mEvents) : t.at < now + IntMod /\ t.interval < IntMod

(* Whether a number below IntMod is a multiple of it.                      *)
LEMMA SmallRemainder ==
  ASSUME NEW x \in 1..(IntMod - 1)
  PROVE  x % IntMod = x
BY TimerAssumption

(* A step keeps the distance, unless it sets a timer to a far moment.      *)
LEMMA DistanceStep ==
  ASSUME \A when \in Moments : when < IntMod,
         IInv, NotFarAhead, [Next]_vars
  PROVE  NotFarAhead'
<1> USE TimerAssumption DEF IInv
<1>1. /\ now \in Nat /\ IntMod \in Nat /\ mEvents \in Seq(Timers)
      /\ Ordered(mEvents)
      BY MapsAgreeIs DEF TypeOK
<1>2. ASSUME NEW e \in Events, NEW at \in Nat, NEW interval \in Nat,
             AddTimer(e, at, interval), at < now + IntMod, interval < IntMod
      PROVE  NotFarAhead'
  <2> DEFINE timer == [id |-> mLastTimerId + 1, event |-> e,
                       at |-> at, interval |-> interval]
  <2>1. mEvents' = Insert(mEvents, timer) /\ now' = now
        BY <1>2 DEF AddTimer
  <2>2. timer \in Timers /\ timer.at = at /\ timer.interval = interval
        BY <1>2 DEF AddTimer, Timers
  <2>3. \A i \in DOMAIN mEvents : mEvents[i].id # timer.id
    <3>1. mLastTimerId + 1 \notin mTimers
          BY DEF TypeOK, Numbered
    <3> QED BY <3>1 DEF MapsAgree
  <2> HIDE DEF timer
  <2>4. Range(mEvents') = Range(mEvents) \cup {timer}
        BY <1>1, <2>1, <2>2, <2>3, InsertOrdered
  <2> QED BY <1>2, <2>1, <2>2, <2>4 DEF NotFarAhead
<1>3. ASSUME NEW id, mEvents' = Erase(mEvents, id), now' = now
      PROVE  NotFarAhead'
  <2>1. Range(mEvents') \subseteq Range(mEvents)
        BY <1>1, <1>3, EraseOrdered
  <2> QED BY <1>3, <2>1 DEF NotFarAhead
<1>4. ASSUME mEvents' = mEvents, now' \in Nat, now <= now' PROVE NotFarAhead'
  <2>1. \A t \in Range(mEvents) : t.at \in Nat
        BY <1>1, EntriesAreTimers DEF Timers
  <2> QED BY <1>1, <1>4, <2>1 DEF NotFarAhead
<1>5. CASE Tick
      BY <1>1, <1>4, <1>5 DEF Tick
<1>6. CASE StartLoop \/ Fire \/ (\E e \in Events : Stop(e)) \/ UNCHANGED vars
      BY <1>1, <1>4, <1>6 DEF StartLoop, Fire, Stop, vars
<1>7. ASSUME NEW e \in Events, NEW delay \in Delays,
             AddTimerEventRunAfter(e, delay)
      PROVE  NotFarAhead'
      BY <1>1, <1>2, <1>7 DEF AddTimerEventRunAfter
<1>8. ASSUME NEW e \in Events, NEW when \in Moments, AddTimerEventRunAt(e, when)
      PROVE  NotFarAhead'
  <2>1. when \in Nat /\ when < now + IntMod
        BY <1>1
  <2> QED BY <1>2, <1>8, <2>1 DEF AddTimerEventRunAt
<1>9. ASSUME NEW e \in Events, NEW interval \in Intervals,
             AddTimerEventRunEvery(e, interval)
      PROVE  NotFarAhead'
      BY <1>1, <1>2, <1>9 DEF AddTimerEventRunEvery
<1>10. ASSUME NEW id \in Ids, RemoveTimer(id) PROVE NotFarAhead'
       BY <1>3, <1>10 DEF RemoveTimer
<1>11. CASE Finish
  <2> DEFINE timer == firing.timer
             rest == Erase(mEvents, timer.id)
             again == [timer EXCEPT !.at = NextTime(timer, firing.start)]
  <2>1. /\ mEvents' = Insert(rest, again) \/ mEvents' = rest
        /\ now' = now /\ firing # NotFiring
        BY <1>11 DEF Finish
  <2>2. /\ timer \in Timers /\ firing.start \in Nat /\ firing.start <= now
        /\ timer \in Range(mEvents)
        BY <2>1 DEF TypeOK, FiringListed
  <2>3. /\ again \in Timers /\ again.id = timer.id
        /\ again.interval = timer.interval
        /\ again.at = firing.start + timer.interval
        BY <2>2 DEF Timers, NextTime
  <2>4. timer.interval \in Nat /\ timer.interval < IntMod
        BY <2>2 DEF Timers, NotFarAhead
  <2>5. /\ rest \in Seq(Timers) /\ Ordered(rest)
        /\ Range(rest) = {t \in Range(mEvents) : t.id # timer.id}
        BY <1>1, EraseOrdered
  <2> HIDE DEF timer, rest, again
  <2>6. Range(Insert(rest, again)) = Range(rest) \cup {again}
    <3>1. \A i \in DOMAIN rest : rest[i].id # again.id
          BY <2>3, <2>5 DEF Range
    <3> QED BY <2>3, <2>5, <3>1, InsertOrdered
  <2>7. again.at < now + IntMod /\ again.interval < IntMod
        BY <1>1, <2>2, <2>3, <2>4
  <2>8. Range(mEvents') \subseteq Range(mEvents) \cup {again}
        BY <2>1, <2>5, <2>6
  <2> QED BY <2>1, <2>7, <2>8 DEF NotFarAhead
<1> QED BY <1>5, <1>6, <1>7, <1>8, <1>9, <1>10, <1>11 DEF Next

(* A callback is called when it is due: a timer that fires is not ahead of *)
(* the clock, and a repeating one keeps its interval.                      *)
LEMMA FireIsDue ==
  ASSUME IInv, NotFarAhead, Fire, firing'.called
  PROVE  LET timer == firing'.timer IN
           /\ now >= timer.at
           /\ lastFired[timer.id] # Never =>
                timer.interval > 0 /\ now - lastFired[timer.id] >= timer.interval
           /\ timer.id \notin removed
           /\ ~mIsStop[timer.event]
<1> DEFINE timer == Head(mEvents)
<1> USE DEF IInv
<1>1. /\ firing = NotFiring /\ mEvents # << >> /\ Expired(timer)
      /\ firing' = [timer |-> timer, start |-> now,
                    called |-> ~mIsStop[timer.event]]
      BY DEF Fire
<1>2. /\ mEvents \in Seq(Timers) /\ {t.id : t \in Range(mEvents)} = mTimers
      /\ now \in Nat /\ IntMod \in Nat \ {0}
      BY TimerAssumption, MapsAgreeIs DEF TypeOK
<1>3. timer \in Range(mEvents) /\ timer \in Timers
  <2>1. Len(mEvents) # 0 /\ Len(mEvents) \in Nat
        BY <1>1, <1>2, EmptySeq
  <2>2. 1 \in DOMAIN mEvents /\ timer = mEvents[1]
        BY <1>2, <2>1
  <2> QED BY <1>2, <2>2 DEF Range
<1> HIDE DEF timer
<1>4. firing'.timer = timer /\ ~mIsStop[timer.event]
      BY <1>1
<1>5. timer.at \in Nat /\ timer.interval \in Nat /\ timer.id \in Ids
      BY <1>3 DEF Timers
<1>6. now >= timer.at
  <2> SUFFICES ASSUME now < timer.at PROVE FALSE
      BY <1>2, <1>5
  <2>1. timer.at - now \in 1..(IntMod - 1)
        BY <1>2, <1>3, <1>5 DEF NotFarAhead
  <2>2. (timer.at - now) % IntMod = timer.at - now
        BY <2>1, SmallRemainder
  <2>3. (timer.at - now) % IntMod = 0
        BY <1>1, <1>2, <1>5 DEF Expired
  <2> QED BY <2>1, <2>2, <2>3
<1>7. ASSUME lastFired[timer.id] # Never
      PROVE  timer.interval > 0 /\ now - lastFired[timer.id] >= timer.interval
  <2>1. timer.id # firing.timer.id
        BY <1>1, <1>5 DEF NotFiring, NoTimer, Ids
  <2>2. timer.interval > 0 /\ timer.at >= lastFired[timer.id] + timer.interval
        BY <1>3, <1>7, <2>1 DEF IntervalKept
  <2>3. lastFired[timer.id] \in Nat
        BY <1>5, <1>7 DEF TypeOK
  <2> QED BY <1>2, <1>5, <1>6, <2>2, <2>3
<1>8. timer.id \notin removed
      BY <1>2, <1>3 DEF Numbered
<1> QED BY <1>4, <1>6, <1>7, <1>8

(* A callback runs when it is due and only then, keeps its interval, and   *)
(* removeTimer and stop are final.  The moments must be less than IntMod   *)
(* (2^32 ms, the range of the int that handleRead converts a difference    *)
(* to): a timer that is set a multiple of IntMod ahead is called at once.  *)
THEOREM OnlyWhenDue ==
  ASSUME \A when \in Moments : when < IntMod
  PROVE  Spec => OnlyDueCalls
<1> DEFINE Due == \A id \in Ids : Calls(id) =>
                    /\ now >= firing'.timer.at
                    /\ lastFired[id] # Never =>
                         /\ firing'.timer.interval > 0
                         /\ now - lastFired[id] >= firing'.timer.interval
                    /\ id \notin removed
                    /\ ~mIsStop[firing'.timer.event]
<1>1. Init => NotFarAhead
  <2> SUFFICES ASSUME Init PROVE NotFarAhead
      OBVIOUS
  <2>1. Range(mEvents) = {}
        BY DEF Init, Range
  <2> QED BY <2>1 DEF NotFarAhead
<1>2. IInv /\ NotFarAhead /\ [Next]_vars => NotFarAhead'
      BY DistanceStep
<1>3. IInv /\ NotFarAhead /\ [Next]_vars => [Due]_vars
  <2> SUFFICES ASSUME IInv, NotFarAhead, [Next]_vars,
                      NEW id \in Ids, Calls(id)
               PROVE  /\ now >= firing'.timer.at
                      /\ lastFired[id] # Never =>
                           /\ firing'.timer.interval > 0
                           /\ now - lastFired[id] >= firing'.timer.interval
                      /\ id \notin removed
                      /\ ~mIsStop[firing'.timer.event]
      OBVIOUS
  <2>1. firing'.called /\ firing = NotFiring /\ firing'.timer.id = id
        BY DEF Calls
  <2>2. firing' # firing
        BY <2>1 DEF NotFiring
  <2>3. Fire
        BY <2>1, <2>2 DEF Next, vars, Tick, StartLoop, AddTimerEventRunAfter,
           AddTimerEventRunAt, AddTimerEventRunEvery, AddTimer, Stop,
           RemoveTimer, Finish
  <2> QED BY <2>1, <2>3, FireIsDue
<1> QED BY <1>1, <1>2, <1>3, Invariant, PTL DEF Spec, OnlyDueCalls
=============================================================================
