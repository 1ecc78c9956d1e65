---------------------- MODULE BoundedDispatcher_proofs ----------------------
(***************************************************************************)
(* Proofs about BoundedDispatcher, for every number of lanes and items,    *)
(* every key selector and both settings of the options.                    *)
(***************************************************************************)
EXTENDS BoundedDispatcher, FiniteSetTheorems, TLAPS

-----------------------------------------------------------------------------
(* Type correctness.                                                       *)

\* enqueueAsync routes to a lane of the dispatcher, whatever the key.
LEMMA RouteInLanes ==
  ASSUME TypeOK, NEW i \in Items
  PROVE  Route(i) \in Lanes
<1> USE DispatcherAssumption DEF DispatcherAssumption
<1>1. \A n \in Int : n % LaneCount \in Lanes
  BY DEF Lanes
<1>2. KeyOf[i] \in Int
  OBVIOUS
<1>3. ((65536 % LaneCount) * (65536 % LaneCount)) % LaneCount \in Int
  <2>1. 65536 % LaneCount \in Int
    OBVIOUS
  <2>2. (65536 % LaneCount) * (65536 % LaneCount) \in Int
    BY <2>1
  <2> QED
    BY <2>2
<1>4. LaneForKey(KeyOf[i]) \in Lanes
  <2> DEFINE wrap == ((65536 % LaneCount) * (65536 % LaneCount)) % LaneCount
  <2>1. KeyOf[i] % LaneCount \in Int
    BY <1>2
  <2>2. (KeyOf[i] % LaneCount) + wrap \in Int
    BY <1>3, <2>1
  <2> HIDE DEF wrap
  <2>3. (IF KeyOf[i] >= 0 THEN KeyOf[i] % LaneCount
                          ELSE ((KeyOf[i] % LaneCount) + wrap) % LaneCount) \in Lanes
    BY <1>1, <1>2, <2>2
  <2> QED
    BY <2>3 DEF LaneForKey, wrap
<1>5. (roundRobinCounter + 1) % LaneCount \in Lanes
  <2>1. roundRobinCounter + 1 \in Int
    BY DEF TypeOK
  <2> QED
    BY <1>1, <2>1
<1> QED
  BY <1>4, <1>5 DEF Route

\* The synchronous part of write keeps the types of what it assigns.
LEMMA WriteTypes ==
  ASSUME TypeOK, NEW l \in Lanes, NEW i \in Items, NEW others \in Seq(Items),
         Write(l, i, others)
  PROVE  /\ stage' \in [Items -> Stages]
         /\ slot' \in [Lanes -> Items \cup {NoItem}]
         /\ reader' \in [Lanes -> ReaderStates]
         /\ writers' \in [Lanes -> Seq(Items)]
<1>1. CASE ~completed[l] /\ slot[l] = NoItem
  <2>1. /\ stage' = [stage EXCEPT ![i] = "queued"]
        /\ slot' = [slot EXCEPT ![l] = i]
        /\ reader' = [reader EXCEPT ![l] = Awake(reader[l])]
        /\ writers' = [writers EXCEPT ![l] = others]
    BY <1>1 DEF Write
  <2>2. Awake(reader[l]) \in ReaderStates
    BY DEF Awake, ReaderStates, TypeOK
  <2> QED
    BY <2>1, <2>2 DEF TypeOK, Stages
<1>2. CASE ~completed[l] /\ slot[l] # NoItem /\ i \notin aborted
  <2>1. Append(others, i) \in Seq(Items)
    OBVIOUS
  <2>2. /\ stage' = [stage EXCEPT ![i] = "blocked"]
        /\ writers' = [writers EXCEPT ![l] = Append(others, i)]
        /\ UNCHANGED <<slot, reader>>
    BY <1>2 DEF Write
  <2> QED
    BY <1>2, <2>1, <2>2 DEF TypeOK, Stages
<1>3. CASE completed[l] \/ (slot[l] # NoItem /\ i \in aborted)
  <2>1. /\ stage' = [stage EXCEPT ![i] = "rejecting"]
        /\ writers' = [writers EXCEPT ![l] = others]
        /\ UNCHANGED <<slot, reader>>
    BY <1>3 DEF Write
  <2> QED
    BY <2>1 DEF TypeOK, Stages
<1> QED
  BY <1>1, <1>2, <1>3 DEF TypeOK

\* So does one turn of readAll.
LEMMA ReadTypes ==
  ASSUME TypeOK, NEW l \in Lanes, NEW st \in [Items -> Stages], ReadNext(l, st)
  PROVE  /\ stage' \in [Items -> Stages]
         /\ slot' \in [Lanes -> Items \cup {NoItem}]
         /\ reader' \in [Lanes -> ReaderStates]
         /\ woken' \in [Lanes -> Nat]
<1>1. CASE slot[l] # NoItem
  <2>1. Len(writers[l]) \in Nat
    BY DEF TypeOK
  <2>2. /\ stage' = [st EXCEPT ![slot[l]] = "taken"]
        /\ slot' = [slot EXCEPT ![l] = NoItem]
        /\ reader' = [reader EXCEPT ![l] = "busy"]
        /\ woken' = [woken EXCEPT ![l] = Len(writers[l])]
    BY <1>1 DEF ReadNext, WakeWriters
  <2> QED
    BY <2>1, <2>2 DEF TypeOK, Stages, ReaderStates
<1>2. CASE slot[l] = NoItem
  BY <1>2 DEF TypeOK, ReadNext, ReaderStates
<1> QED
  BY <1>1, <1>2

\* The elements of a concatenation.
LEMMA ConcatElements ==
  ASSUME NEW S, NEW a \in Seq(S), NEW b \in Seq(S)
  PROVE  /\ a \o b \in Seq(S)
         /\ Len(a \o b) = Len(a) + Len(b)
         /\ \A m \in 1 .. Len(a) : (a \o b)[m] = a[m]
         /\ \A m \in 1 .. Len(b) : (a \o b)[Len(a) + m] = b[m]
OBVIOUS

\* What removing the element at k leaves.
LEMMA RemoveAtElements ==
  ASSUME NEW S, NEW s \in Seq(S), NEW k \in 1 .. Len(s)
  PROVE  /\ RemoveAt(s, k) \in Seq(S)
         /\ Len(RemoveAt(s, k)) = Len(s) - 1
         /\ \A m \in 1 .. Len(s) - 1 :
              RemoveAt(s, k)[m] = IF m < k THEN s[m] ELSE s[m + 1]
<1> DEFINE a == SubSeq(s, 1, k - 1)
           b == SubSeq(s, k + 1, Len(s))
<1>1. a \in Seq(S) /\ Len(a) = k - 1 /\ \A m \in 1 .. k - 1 : a[m] = s[m]
  OBVIOUS
<1>2. b \in Seq(S) /\ Len(b) = Len(s) - k /\ \A m \in 1 .. Len(s) - k : b[m] = s[m + k]
  OBVIOUS
<1>3. RemoveAt(s, k) = a \o b
  BY DEF RemoveAt
<1> HIDE DEF a, b
<1>4. /\ a \o b \in Seq(S)
      /\ Len(a \o b) = Len(a) + Len(b)
      /\ \A m \in 1 .. Len(a) : (a \o b)[m] = a[m]
      /\ \A m \in 1 .. Len(b) : (a \o b)[Len(a) + m] = b[m]
  <2>1. a \in Seq(S) /\ b \in Seq(S)
    BY <1>1, <1>2
  <2> QED
    BY ONLY <2>1, ConcatElements
<1>5. ASSUME NEW m \in 1 .. Len(s) - 1
      PROVE  (a \o b)[m] = IF m < k THEN s[m] ELSE s[m + 1]
  <2>1. CASE m < k
    BY <1>1, <1>4, <2>1
  <2>2. CASE ~(m < k)
    <3> DEFINE n == m - (k - 1)
    <3>1. n \in 1 .. Len(b) /\ Len(a) + n = m /\ n + k = m + 1
      BY <1>1, <1>2, <2>2
    <3> HIDE DEF n
    <3>2. (a \o b)[m] = b[n]
      BY <1>4, <3>1
    <3>3. b[n] = s[m + 1]
      BY <1>2, <3>1
    <3> QED
      BY <2>2, <3>2, <3>3
  <2> QED
    BY <2>1, <2>2
<1>6. Len(a \o b) = Len(s) - 1
  BY <1>1, <1>2, <1>4
<1> QED
  BY <1>3, <1>4, <1>5, <1>6

\* The constructor's state has the right types.
LEMMA TypeInit == Init => TypeOK
BY DEF Init, TypeOK, Stages, ReaderStates, QuiescePhases, NoItem, NoLane

\* Every step keeps them, given where items and callers may be (LaneInv).
LEMMA TypeStep == LaneInv /\ [Next]_vars => TypeOK'
<1> SUFFICES ASSUME TypeOK, Routed, SuspendedBlocked, [Next]_vars
             PROVE  TypeOK'
  BY DEF LaneInv
<1>1. ASSUME NEW i \in Items, Enqueue(i)
      PROVE  TypeOK'
  <2>1. Route(i) \in Lanes
    BY RouteInLanes
  <2>2. writers[Route(i)] \in Seq(Items)
    BY <2>1 DEF TypeOK
  <2>3. laneOutstanding' \in [Lanes -> Int] /\ laneOf' \in [Items -> Lanes \cup {NoLane}]
    BY <1>1, <2>1 DEF Enqueue, TypeOK
  <2>4. /\ stage' \in [Items -> Stages]
        /\ slot' \in [Lanes -> Items \cup {NoItem}]
        /\ reader' \in [Lanes -> ReaderStates]
        /\ writers' \in [Lanes -> Seq(Items)]
    BY <1>1, <2>1, <2>2, WriteTypes DEF Enqueue
  <2> QED
    BY <1>1, <2>3, <2>4 DEF Enqueue, TypeOK
<1>2. ASSUME NEW i \in Items, AbortWaiting(i)
      PROVE  TypeOK'
  <2>1. laneOf[i] \in Lanes
    BY <1>2 DEF AbortWaiting, Routed
  <2>2. writers' \in [Lanes -> Seq(Items)]
    <3>1. PICK k \in woken[laneOf[i]] + 1 .. Len(writers[laneOf[i]]) :
            writers' = [writers EXCEPT ![laneOf[i]] = RemoveAt(writers[laneOf[i]], k)]
      BY <1>2 DEF AbortWaiting
    <3>2. writers[laneOf[i]] \in Seq(Items) /\ k \in 1 .. Len(writers[laneOf[i]])
      BY <2>1 DEF TypeOK
    <3>3. RemoveAt(writers[laneOf[i]], k) \in Seq(Items)
      BY <3>2, RemoveAtElements
    <3> QED
      BY <3>1, <3>3 DEF TypeOK
  <2> QED
    BY <1>2, <2>2 DEF AbortWaiting, TypeOK, Stages
<1>3. ASSUME NEW i \in Items, AbortUnheard(i)
      PROVE  TypeOK'
  BY <1>3 DEF AbortUnheard, TypeOK
<1>4. ASSUME NEW i \in Items, EnqueueRejected(i)
      PROVE  TypeOK'
  BY <1>4 DEF EnqueueRejected, TypeOK, Routed, Stages
<1>5. ASSUME NEW i \in Items, HandleStart(i)
      PROVE  TypeOK'
  BY <1>5 DEF HandleStart, TypeOK, Stages
<1>6. ASSUME NEW i \in Items, HandlerReturns(i) \/ HandlerThrows(i)
      PROVE  TypeOK'
  <2>1. laneOf[i] \in Lanes
    BY <1>6 DEF HandlerReturns, HandlerThrows, Routed
  <2>2. laneOutstanding' \in [Lanes -> Int]
    BY <1>6, <2>1 DEF HandlerReturns, HandlerThrows, TypeOK
  <2>3. /\ [stage EXCEPT ![i] = "handled"] \in [Items -> Stages]
        /\ [stage EXCEPT ![i] = "faulted"] \in [Items -> Stages]
    BY DEF TypeOK, Stages
  <2>4. CASE HandlerReturns(i)
    BY <2>1, <2>2, <2>3, <2>4, ReadTypes DEF HandlerReturns, TypeOK
  <2>5. CASE HandlerThrows(i) /\ CatchExceptions
    BY <2>1, <2>2, <2>3, <2>5, ReadTypes DEF HandlerThrows, TypeOK
  <2>6. CASE HandlerThrows(i) /\ ~CatchExceptions
    BY <2>1, <2>2, <2>3, <2>6 DEF HandlerThrows, TypeOK, ReaderStates
  <2> QED
    BY <1>6, <2>4, <2>5, <2>6
<1>7. ASSUME NEW l \in Lanes, WriterResume(l)
      PROVE  TypeOK'
  <2>1. /\ writers[l] # <<>>
        /\ Head(writers[l]) \in Items
        /\ Tail(writers[l]) \in Seq(Items)
    BY <1>7 DEF WriterResume, TypeOK, SuspendedBlocked
  <2>2. woken' \in [Lanes -> Nat]
    BY <1>7 DEF WriterResume, TypeOK
  <2> QED
    BY <1>7, <2>1, <2>2, WriteTypes DEF WriterResume, TypeOK
<1>8. ASSUME NEW l \in Lanes, ReaderResume(l)
      PROVE  TypeOK'
  <2>1. stage \in [Items -> Stages]
    BY DEF TypeOK
  <2> QED
    BY <1>8, <2>1, ReadTypes DEF ReaderResume, TypeOK
<1>9. ASSUME NEW l \in Lanes, LaneExit(l)
      PROVE  TypeOK'
  BY <1>9 DEF LaneExit, TypeOK, ReaderStates
<1>10. ASSUME DrainBegin
       PROVE  TypeOK'
  <2>1. \A l \in Lanes : Awake(reader[l]) \in ReaderStates /\ Len(writers[l]) \in Nat
    BY DEF TypeOK, Awake, ReaderStates
  <2> QED
    BY <1>10, <2>1 DEF DrainBegin, TypeOK
<1>11. ASSUME DrainEnd
       PROVE  TypeOK'
  BY <1>11 DEF DrainEnd, TypeOK
<1>12. ASSUME NEW T \in LaneSets, DrainLanesBegin(T)
       PROVE  TypeOK'
  BY <1>12, DispatcherAssumption DEF DrainLanesBegin, TypeOK, QuiescePhases
<1>13. ASSUME DrainLanesEnd
       PROVE  TypeOK'
  BY <1>13 DEF DrainLanesEnd, TypeOK, QuiescePhases
<1>14. CASE UNCHANGED vars
  BY <1>14 DEF vars, TypeOK
<1> QED
  BY <1>1, <1>2, <1>3, <1>4, <1>5, <1>6, <1>7, <1>8, <1>9, <1>10, <1>11, <1>12,
     <1>13, <1>14 DEF Next

-----------------------------------------------------------------------------
(* The structural invariant, minus TypeOK, and who preserves it.           *)

Shape ==
  /\ Routed /\ NoLostWakeup /\ LaneSerial
  /\ SuspendedBlocked /\ SlotQueued /\ InFlightBusy /\ EndedEmpty /\ DrainedGone

\* write, called for the first time or resumed, with others the remaining
\* suspended writers of the lane.
LEMMA WriteShape ==
  ASSUME TypeOK, Shape, TypeOK',
         NEW l \in Lanes, NEW i \in Items, NEW others \in Seq(Items),
         Write(l, i, others),
         stage[i] \in {"new", "blocked"},
         laneOf' = [laneOf EXCEPT ![i] = l],
         UNCHANGED <<completed, drain>>,
         \A m \in Lanes \ {l} : woken'[m] = woken[m],
         woken'[l] <= Len(others),
         Len(others) > woken'[l] => Len(writers[l]) > woken[l],
         \A m \in Lanes \ {l} : \A k \in 1 .. Len(writers[m]) : writers[m][k] # i,
         \A k \in 1 .. Len(others) :
           /\ stage[others[k]] = "blocked" /\ laneOf[others[k]] = l /\ others[k] # i
           /\ \A m \in 1 .. Len(others) : others[k] = others[m] => k = m
  PROVE  Shape'
<1> USE DEF Shape
<1>1. \A j \in Items \ {i} : stage'[j] = stage[j] /\ laneOf'[j] = laneOf[j]
  BY DEF Write, TypeOK
<1>2. laneOf'[i] = l /\ stage'[i] \in {"queued", "blocked", "rejecting"}
  BY DEF Write, TypeOK
<1>3. /\ writers' = [writers EXCEPT ![l] = IF stage'[i] = "blocked" THEN Append(others, i)
                                                                    ELSE others]
      /\ reader' = [reader EXCEPT ![l] = IF stage'[i] = "queued" THEN Awake(reader[l])
                                                                 ELSE reader[l]]
      /\ slot' = [slot EXCEPT ![l] = IF stage'[i] = "queued" THEN i ELSE slot[l]]
      /\ stage'[i] = "queued" => ~completed[l] /\ slot[l] = NoItem
      /\ stage'[i] = "blocked" => ~completed[l] /\ slot[l] # NoItem
  BY DEF Write, TypeOK
<1>4. i # NoItem
  BY DEF Items, NoItem
<1>5. Routed'
  BY <1>1, <1>2 DEF Routed
<1>6. NoLostWakeup'
  <2> SUFFICES ASSUME NEW m \in Lanes
               PROVE  /\ Len(writers'[m]) > woken'[m] => slot'[m] # NoItem /\ ~completed'[m]
                      /\ reader'[m] = "waiting" => slot'[m] = NoItem /\ ~completed'[m]
    BY DEF NoLostWakeup
  <2>1. CASE m # l
    BY <1>3, <2>1 DEF NoLostWakeup, TypeOK
  <2>2. CASE m = l
    BY <1>2, <1>3, <1>4, <2>2 DEF NoLostWakeup, TypeOK, Awake
  <2> QED
    BY <2>1, <2>2
<1>7. LaneSerial'
  <2>1. ASSUME NEW j \in Items, stage'[j] = "queued"
        PROVE  slot'[laneOf'[j]] = j
    <3>1. CASE j = i
      BY <1>2, <1>3, <2>1, <3>1 DEF TypeOK
    <3>2. CASE j # i
      <4>1. stage[j] = "queued" /\ laneOf'[j] = laneOf[j] /\ laneOf[j] \in Lanes
        BY <1>1, <2>1, <3>2 DEF Routed
      <4>2. slot[laneOf[j]] = j /\ j # NoItem
        BY <4>1 DEF LaneSerial, Items, NoItem
      <4> QED
        BY <1>3, <4>1, <4>2 DEF TypeOK
    <3> QED
      BY <3>1, <3>2
  <2>2. ASSUME NEW j \in Items, NEW k \in Items, stage'[j] \in InFlight,
               stage'[k] \in InFlight, laneOf'[j] = laneOf'[k]
        PROVE  j = k
    BY <1>1, <1>2, <2>2 DEF LaneSerial, InFlight
  <2> QED
    BY <2>1, <2>2 DEF LaneSerial
<1>8. SuspendedBlocked'
  <2> SUFFICES ASSUME NEW m \in Lanes
               PROVE  /\ woken'[m] <= Len(writers'[m])
                      /\ \A k \in 1 .. Len(writers'[m]) :
                           /\ stage'[writers'[m][k]] = "blocked"
                           /\ laneOf'[writers'[m][k]] = m
                           /\ \A n \in 1 .. Len(writers'[m]) :
                                writers'[m][k] = writers'[m][n] => k = n
    BY DEF SuspendedBlocked
  <2>1. CASE m # l
    <3>1. writers'[m] = writers[m] /\ woken'[m] = woken[m]
      BY <1>3, <2>1 DEF TypeOK
    <3>2. \A k \in 1 .. Len(writers[m]) : writers[m][k] \in Items \ {i}
      BY <2>1 DEF TypeOK
    <3> QED
      BY <1>1, <3>1, <3>2 DEF SuspendedBlocked
  <2>2. CASE m = l /\ stage'[i] # "blocked"
    <3>1. writers'[m] = others
      BY <1>3, <2>2 DEF TypeOK
    <3>2. \A k \in 1 .. Len(others) : others[k] \in Items \ {i}
      OBVIOUS
    <3> QED
      BY <1>1, <2>2, <3>1, <3>2
  <2>3. CASE m = l /\ stage'[i] = "blocked"
    <3>1. writers'[m] = Append(others, i)
      BY <1>3, <2>3 DEF TypeOK
    <3>2. /\ Len(Append(others, i)) = Len(others) + 1
          /\ \A k \in 1 .. Len(others) : Append(others, i)[k] = others[k]
          /\ Append(others, i)[Len(others) + 1] = i
      OBVIOUS
    <3>3. \A k \in 1 .. Len(others) : others[k] \in Items \ {i}
      OBVIOUS
    <3>4. \A k \in 1 .. Len(others) + 1 :
            \/ k \in 1 .. Len(others)
            \/ k = Len(others) + 1
      OBVIOUS
    <3>5. woken'[m] <= Len(others) + 1
      BY <2>3 DEF TypeOK
    <3> QED
      BY <1>1, <1>2, <2>3, <3>1, <3>2, <3>3, <3>4, <3>5
  <2> QED
    BY <2>1, <2>2, <2>3
<1>9. SlotQueued'
  BY <1>1, <1>2, <1>3, <1>4 DEF SlotQueued, TypeOK
<1>10. InFlightBusy'
  BY <1>1, <1>2, <1>3 DEF InFlightBusy, InFlight, Awake, TypeOK, Routed
<1>11. EndedEmpty'
  BY <1>3 DEF EndedEmpty, Awake, TypeOK
<1>12. DrainedGone'
  BY <1>3 DEF DrainedGone, Awake, TypeOK
<1> QED
  BY <1>5, <1>6, <1>7, <1>8, <1>9, <1>10, <1>11, <1>12

\* One turn of readAll on a lane with nothing in flight under st; st is the
\* current stages but for a handler of the lane that has just finished.
LEMMA ReadShape ==
  ASSUME TypeOK, Shape, TypeOK',
         NEW l \in Lanes, NEW st \in [Items -> Stages], ReadNext(l, st),
         \A j \in Items : \/ st[j] = stage[j]
                          \/ /\ stage[j] = "running" /\ laneOf[j] = l
                             /\ st[j] \in {"handled", "faulted"},
         \A j \in Items : laneOf[j] = l => st[j] \notin InFlight,
         reader[l] # "gone",
         UNCHANGED <<laneOf, completed, writers, drain>>
  PROVE  Shape'
<1> USE DEF Shape
<1>1. CASE slot[l] # NoItem
  <2> DEFINE t == slot[l]
  <2>1. /\ t \in Items /\ laneOf[t] = l /\ stage[t] = "queued" /\ st[t] = "queued"
    BY <1>1 DEF SlotQueued, TypeOK
  <2>2. /\ stage' = [st EXCEPT ![t] = "taken"]
        /\ slot' = [slot EXCEPT ![l] = NoItem]
        /\ reader' = [reader EXCEPT ![l] = "busy"]
        /\ woken' = [woken EXCEPT ![l] = Len(writers[l])]
    BY <1>1 DEF ReadNext, WakeWriters
  <2>3. \A j \in Items \ {t} : stage'[j] = st[j]
    BY <2>2
  <2>4. stage'[t] = "taken"
    BY <2>1, <2>2
  <2> HIDE DEF t
  <2>5. Routed'
    BY <2>1, <2>3, <2>4 DEF Routed, TypeOK
  <2>6. NoLostWakeup'
    BY <2>2 DEF NoLostWakeup, TypeOK
  <2>7. LaneSerial'
    <3>1. ASSUME NEW j \in Items, stage'[j] = "queued"
          PROVE  slot'[laneOf[j]] = j
      <4>1. j # t /\ stage[j] = "queued" /\ laneOf[j] \in Lanes
        BY <2>3, <2>4, <3>1 DEF Routed
      <4>2. slot[laneOf[j]] = j
        BY <4>1 DEF LaneSerial
      <4>3. laneOf[j] # l
        BY <4>1, <4>2 DEF t
      <4> QED
        BY <2>2, <4>1, <4>2, <4>3 DEF TypeOK
    <3>2. ASSUME NEW j \in Items, NEW k \in Items, stage'[j] \in InFlight,
                 stage'[k] \in InFlight, laneOf[j] = laneOf[k]
          PROVE  j = k
      BY <2>1, <2>3, <2>4, <3>2 DEF LaneSerial, InFlight
    <3> QED
      BY <3>1, <3>2 DEF LaneSerial
  <2>8. SuspendedBlocked'
    <3>1. \A m \in Lanes : woken'[m] <= Len(writers[m])
      BY <2>2 DEF SuspendedBlocked, TypeOK
    <3>2. \A j \in Items : stage[j] = "blocked" => stage'[j] = "blocked"
      BY <2>1, <2>3
    <3>3. \A m \in Lanes : \A k \in 1 .. Len(writers[m]) : writers[m][k] \in Items
      BY DEF TypeOK
    <3> QED
      BY <3>1, <3>2, <3>3 DEF SuspendedBlocked
  <2>9. SlotQueued'
    BY <2>1, <2>2, <2>3 DEF SlotQueued, TypeOK
  <2>10. InFlightBusy'
    BY <2>1, <2>2, <2>3 DEF InFlightBusy, InFlight, TypeOK, Routed
  <2>11. EndedEmpty' /\ DrainedGone'
    BY <2>2 DEF EndedEmpty, DrainedGone, TypeOK
  <2> QED
    BY <2>5, <2>6, <2>7, <2>8, <2>9, <2>10, <2>11
<1>2. CASE slot[l] = NoItem
  <2>1. /\ stage' = st
        /\ reader' = [reader EXCEPT ![l] = IF completed[l] THEN "leaving" ELSE "waiting"]
        /\ UNCHANGED <<slot, woken>>
    BY <1>2 DEF ReadNext
  <2>2. Routed'
    BY <2>1 DEF Routed, TypeOK
  <2>3. NoLostWakeup'
    BY <1>2, <2>1 DEF NoLostWakeup, TypeOK
  <2>4. LaneSerial'
    BY <2>1 DEF LaneSerial, InFlight, TypeOK
  <2>5. SuspendedBlocked'
    <3>1. \A j \in Items : stage[j] = "blocked" => stage'[j] = "blocked"
      BY <2>1
    <3>2. \A m \in Lanes : \A k \in 1 .. Len(writers[m]) : writers[m][k] \in Items
      BY DEF TypeOK
    <3> QED
      BY <2>1, <3>1, <3>2 DEF SuspendedBlocked
  <2>6. SlotQueued'
    BY <2>1 DEF SlotQueued, TypeOK
  <2>7. InFlightBusy'
    BY <2>1 DEF InFlightBusy, InFlight, TypeOK, Routed
  <2>8. EndedEmpty' /\ DrainedGone'
    BY <1>2, <2>1 DEF EndedEmpty, DrainedGone, TypeOK
  <2> QED
    BY <2>2, <2>3, <2>4, <2>5, <2>6, <2>7, <2>8
<1> QED
  BY <1>1, <1>2

\* The constructor's lanes are empty and uncompleted.
LEMMA ShapeInit == Init => Shape
BY DEF Init, Shape, Routed, NoLostWakeup, LaneSerial, SuspendedBlocked, SlotQueued,
       InFlightBusy, EndedEmpty, DrainedGone, NoItem, NoLane, InFlight

\* Every step keeps the agreement of lanes, callers, handlers and drain.
LEMMA ShapeStep == TypeOK /\ TypeOK' /\ Shape /\ [Next]_vars => Shape'
<1> SUFFICES ASSUME TypeOK, TypeOK', Shape, [Next]_vars
             PROVE  Shape'
  OBVIOUS
<1> USE DEF Shape
<1>1. ASSUME NEW i \in Items, Enqueue(i)
      PROVE  Shape'
  <2> DEFINE l == Route(i)
             others == writers[l]
  <2>1. l \in Lanes /\ others \in Seq(Items)
    BY RouteInLanes DEF TypeOK
  <2>2. \A m \in Lanes : \A k \in 1 .. Len(writers[m]) : writers[m][k] # i
    BY <1>1 DEF Enqueue, SuspendedBlocked
  <2>3. /\ Write(l, i, others)
        /\ stage[i] = "new"
        /\ laneOf' = [laneOf EXCEPT ![i] = l]
        /\ UNCHANGED <<completed, drain, woken>>
    BY <1>1 DEF Enqueue
  <2> HIDE DEF l
  <2>4. /\ woken'[l] <= Len(others)
        /\ Len(others) > woken'[l] => Len(writers[l]) > woken[l]
        /\ \A k \in 1 .. Len(others) :
             /\ stage[others[k]] = "blocked" /\ laneOf[others[k]] = l /\ others[k] # i
             /\ \A m \in 1 .. Len(others) : others[k] = others[m] => k = m
    BY <2>1, <2>2, <2>3 DEF SuspendedBlocked
  <2>5. \A m \in Lanes \ {l} : woken'[m] = woken[m]
    BY <2>3
  <2> HIDE DEF others
  <2> QED
    BY <2>1, <2>2, <2>3, <2>4, <2>5, WriteShape
<1>2. ASSUME NEW i \in Items, AbortWaiting(i)
      PROVE  Shape'
  <2> DEFINE l == laneOf[i]
             q == writers[l]
  <2>1. l \in Lanes /\ q \in Seq(Items)
    BY <1>2 DEF AbortWaiting, Routed, TypeOK
  <2>2. PICK k \in woken[l] + 1 .. Len(q) :
          q[k] = i /\ writers' = [writers EXCEPT ![l] = RemoveAt(q, k)]
    BY <1>2 DEF AbortWaiting
  <2>3. /\ stage' = [stage EXCEPT ![i] = "rejecting"]
        /\ stage[i] = "blocked"
        /\ UNCHANGED <<laneOf, slot, completed, woken, reader, drain>>
    BY <1>2 DEF AbortWaiting
  <2>4. woken[l] \in Nat /\ k \in 1 .. Len(q)
    BY <2>1, <2>2 DEF TypeOK
  <2> HIDE DEF l, q
  <2>5. /\ Len(RemoveAt(q, k)) = Len(q) - 1
        /\ \A m \in 1 .. Len(q) - 1 : RemoveAt(q, k)[m] = IF m < k THEN q[m] ELSE q[m + 1]
    BY <2>1, <2>4, RemoveAtElements
  <2>6. writers'[l] = RemoveAt(q, k) /\ \A m \in Lanes \ {l} : writers'[m] = writers[m]
    BY <2>1, <2>2 DEF TypeOK
  <2>7. \A j \in Items \ {i} : stage'[j] = stage[j]
    BY <2>3 DEF TypeOK
  <2>8. stage'[i] = "rejecting"
    BY <2>3 DEF TypeOK
  <2>9. NoLostWakeup'
    <3> SUFFICES ASSUME NEW m \in Lanes
                 PROVE  Len(writers'[m]) > woken[m] => Len(writers[m]) > woken[m]
      BY <2>3 DEF NoLostWakeup
    <3> QED
      BY <2>1, <2>4, <2>5, <2>6 DEF q
  <2>10. SuspendedBlocked'
    <3>1. ASSUME NEW m \in Lanes \ {l}
          PROVE  \A n \in 1 .. Len(writers[m]) : writers[m][n] \in Items \ {i}
      BY <3>1 DEF SuspendedBlocked, TypeOK, l
    <3>2. ASSUME NEW n \in 1 .. Len(q) - 1
          PROVE  /\ RemoveAt(q, k)[n] \in Items \ {i}
                 /\ stage[RemoveAt(q, k)[n]] = "blocked" /\ laneOf[RemoveAt(q, k)[n]] = l
                 /\ \A m \in 1 .. Len(q) - 1 : RemoveAt(q, k)[n] = RemoveAt(q, k)[m] => n = m
      <4> DEFINE at(x) == IF x < k THEN x ELSE x + 1
      <4>1. \A x \in 1 .. Len(q) - 1 :
              at(x) \in 1 .. Len(q) /\ at(x) # k /\ RemoveAt(q, k)[x] = q[at(x)]
        BY <2>1, <2>4, <2>5
      <4>2. \A x, y \in 1 .. Len(q) - 1 : at(x) = at(y) => x = y
        BY <2>1, <2>4
      <4> HIDE DEF at
      <4>3. \A x, y \in 1 .. Len(q) : q[x] = q[y] => x = y
        BY <2>1 DEF SuspendedBlocked, q
      <4>4. \A x \in 1 .. Len(q) : q[x] \in Items /\ stage[q[x]] = "blocked" /\ laneOf[q[x]] = l
        BY <2>1 DEF SuspendedBlocked, q
      <4> QED
        <5>1. at(n) \in 1 .. Len(q) /\ at(n) # k /\ RemoveAt(q, k)[n] = q[at(n)]
          BY <4>1
        <5>2. q[at(n)] # i
          BY <2>2, <2>4, <4>3, <5>1
        <5>3. ASSUME NEW m \in 1 .. Len(q) - 1, RemoveAt(q, k)[n] = RemoveAt(q, k)[m]
              PROVE  n = m
          <6>1. at(n) = at(m)
            BY <4>1, <4>3, <5>3
          <6> QED
            BY <4>2, <6>1
        <5> QED
          BY <4>4, <5>1, <5>2, <5>3
    <3>3. woken[l] <= Len(q) - 1
      BY <2>1, <2>2, <2>4
    <3>4. ASSUME NEW m \in Lanes \ {l}
          PROVE  /\ woken'[m] <= Len(writers'[m])
                 /\ \A n \in 1 .. Len(writers'[m]) :
                      /\ stage'[writers'[m][n]] = "blocked"
                      /\ laneOf'[writers'[m][n]] = m
                      /\ \A x \in 1 .. Len(writers'[m]) :
                           writers'[m][n] = writers'[m][x] => n = x
      BY <2>3, <2>6, <2>7, <3>1, <3>4 DEF SuspendedBlocked
    <3>5. /\ woken'[l] <= Len(writers'[l])
          /\ \A n \in 1 .. Len(writers'[l]) :
               /\ stage'[writers'[l][n]] = "blocked"
               /\ laneOf'[writers'[l][n]] = l
               /\ \A x \in 1 .. Len(writers'[l]) : writers'[l][n] = writers'[l][x] => n = x
      BY <2>3, <2>5, <2>6, <2>7, <3>2, <3>3
    <3> QED
      BY <3>4, <3>5 DEF SuspendedBlocked
  <2>11. Routed' /\ LaneSerial' /\ InFlightBusy'
    BY <2>3, <2>7, <2>8 DEF Routed, LaneSerial, InFlightBusy, InFlight
  <2>12. SlotQueued' /\ EndedEmpty' /\ DrainedGone'
    BY <2>3, <2>7, <2>8 DEF SlotQueued, EndedEmpty, DrainedGone, TypeOK
  <2> QED
    BY <2>9, <2>10, <2>11, <2>12
<1>3. ASSUME NEW i \in Items, AbortUnheard(i)
      PROVE  Shape'
  BY <1>3 DEF AbortUnheard, Routed, NoLostWakeup, LaneSerial, SuspendedBlocked,
              SlotQueued, InFlightBusy, EndedEmpty, DrainedGone
<1>4. ASSUME NEW i \in Items, EnqueueRejected(i) \/ HandleStart(i)
      PROVE  Shape'
  <2>1. /\ \/ stage[i] = "rejecting" /\ stage'[i] = "refused"
           \/ stage[i] = "taken" /\ stage'[i] = "running"
        /\ \A j \in Items \ {i} : stage'[j] = stage[j]
        /\ UNCHANGED <<laneOf, slot, completed, writers, woken, reader, drain>>
    BY <1>4 DEF EnqueueRejected, HandleStart, TypeOK
  <2>2. SuspendedBlocked'
    <3>1. \A m \in Lanes : \A k \in 1 .. Len(writers[m]) : writers[m][k] \in Items
      BY DEF TypeOK
    <3>2. \A j \in Items : stage[j] = "blocked" => stage'[j] = "blocked"
      BY <2>1
    <3> QED
      BY <2>1, <3>1, <3>2 DEF SuspendedBlocked
  <2> QED
    <3>1. Routed' /\ NoLostWakeup' /\ EndedEmpty' /\ DrainedGone'
      BY <2>1 DEF Routed, NoLostWakeup, EndedEmpty, DrainedGone
    <3>2. SlotQueued'
      BY <2>1 DEF SlotQueued, TypeOK
    <3>3. \A j \in Items : /\ stage'[j] = "queued" => stage[j] = "queued"
                           /\ stage'[j] \in InFlight => stage[j] \in InFlight
      BY <2>1 DEF InFlight
    <3>4. LaneSerial' /\ InFlightBusy'
      BY <2>1, <3>3 DEF LaneSerial, InFlightBusy
    <3> QED
      BY <2>2, <3>1, <3>2, <3>4
<1>5. ASSUME NEW i \in Items, stage[i] = "running",
             NEW st \in [Items -> Stages],
             st = [stage EXCEPT ![i] = "handled"] \/ st = [stage EXCEPT ![i] = "faulted"],
             ReadNext(laneOf[i], st), UNCHANGED <<laneOf, completed, writers, drain>>
      PROVE  Shape'
  <2>1. laneOf[i] \in Lanes /\ reader[laneOf[i]] = "busy"
    BY <1>5 DEF Routed, InFlightBusy, InFlight
  <2>2. \A j \in Items : \/ st[j] = stage[j]
                         \/ j = i /\ st[j] \in {"handled", "faulted"}
    BY <1>5 DEF TypeOK
  <2>3. st[i] \in {"handled", "faulted"}
    BY <1>5 DEF TypeOK
  <2>4. \A j \in Items : laneOf[j] = laneOf[i] => st[j] \notin InFlight
    BY <1>5, <2>2, <2>3 DEF LaneSerial, InFlight
  <2> QED
    BY <1>5, <2>1, <2>2, <2>4, ReadShape
<1>6. ASSUME NEW i \in Items, HandlerReturns(i) \/ (HandlerThrows(i) /\ CatchExceptions)
      PROVE  Shape'
  <2>1. /\ [stage EXCEPT ![i] = "handled"] \in [Items -> Stages]
        /\ [stage EXCEPT ![i] = "faulted"] \in [Items -> Stages]
    BY DEF TypeOK, Stages
  <2> QED
    BY <1>5, <1>6, <2>1 DEF HandlerReturns, HandlerThrows
<1>7. ASSUME NEW i \in Items, HandlerThrows(i), ~CatchExceptions
      PROVE  Shape'
  <2>1. /\ stage[i] = "running"
        /\ stage' = [stage EXCEPT ![i] = "faulted"]
        /\ reader' = [reader EXCEPT ![laneOf[i]] = "leaving"]
        /\ UNCHANGED <<laneOf, slot, completed, writers, woken, drain>>
    BY <1>7 DEF HandlerThrows
  <2>2. laneOf[i] \in Lanes /\ reader[laneOf[i]] = "busy"
    BY <2>1 DEF Routed, InFlightBusy, InFlight
  <2>3. stage'[i] = "faulted" /\ \A j \in Items \ {i} : stage'[j] = stage[j]
    BY <2>1 DEF TypeOK
  <2>4. SuspendedBlocked'
    <3>1. \A m \in Lanes : \A k \in 1 .. Len(writers[m]) : writers[m][k] \in Items
      BY DEF TypeOK
    <3>2. \A j \in Items : stage[j] = "blocked" => stage'[j] = "blocked"
      BY <2>1, <2>3
    <3> QED
      BY <2>1, <3>1, <3>2 DEF SuspendedBlocked
  <2>5. InFlightBusy'
    <3> SUFFICES ASSUME NEW j \in Items, stage'[j] \in InFlight
                 PROVE  reader'[laneOf[j]] = "busy"
      BY <2>1 DEF InFlightBusy
    <3>1. j # i /\ stage[j] \in InFlight
      BY <2>3 DEF InFlight
    <3>2. laneOf[j] # laneOf[i] /\ laneOf[j] \in Lanes
      BY <2>1, <3>1 DEF LaneSerial, InFlight, Routed
    <3> QED
      BY <2>1, <3>1, <3>2 DEF InFlightBusy, TypeOK
  <2> QED
    BY <1>7, <2>1, <2>2, <2>3, <2>4, <2>5
       DEF Routed, NoLostWakeup, LaneSerial, SlotQueued, InFlight, EndedEmpty, DrainedGone, TypeOK
<1>8. ASSUME NEW l \in Lanes, WriterResume(l)
      PROVE  Shape'
  <2> DEFINE i == Head(writers[l])
             rest == Tail(writers[l])
  <2>1. woken[l] \in Nat /\ woken[l] > 0 /\ woken[l] <= Len(writers[l]) /\ writers[l] \in Seq(Items)
    BY <1>8 DEF WriterResume, SuspendedBlocked, TypeOK
  <2>2. /\ i = writers[l][1] /\ i \in Items /\ rest \in Seq(Items)
        /\ Len(rest) = Len(writers[l]) - 1
        /\ \A k \in 1 .. Len(rest) : rest[k] = writers[l][k + 1]
    BY <2>1
  <2>3. stage[i] = "blocked" /\ laneOf[i] = l
    BY <2>1, <2>2 DEF SuspendedBlocked
  <2>4. \A k \in 1 .. Len(rest) :
           /\ stage[rest[k]] = "blocked" /\ laneOf[rest[k]] = l /\ rest[k] # i
           /\ \A m \in 1 .. Len(rest) : rest[k] = rest[m] => k = m
    <3>1. \A k \in 1 .. Len(rest) : k + 1 \in 1 .. Len(writers[l]) /\ k + 1 # 1
      BY <2>1, <2>2
    <3>2. 1 \in 1 .. Len(writers[l])
      BY <2>1
    <3>3. \A x, y \in 1 .. Len(writers[l]) : writers[l][x] = writers[l][y] => x = y
      BY DEF SuspendedBlocked
    <3>4. \A x \in 1 .. Len(writers[l]) : stage[writers[l][x]] = "blocked" /\ laneOf[writers[l][x]] = l
      BY DEF SuspendedBlocked
    <3> HIDE DEF i, rest
    <3> QED
      BY <2>2, <3>1, <3>2, <3>3, <3>4
  <2>5. \A m \in Lanes \ {l} : \A k \in 1 .. Len(writers[m]) : writers[m][k] # i
    BY <2>3 DEF SuspendedBlocked
  <2>6. Write(l, i, rest) /\ woken' = [woken EXCEPT ![l] = woken[l] - 1]
        /\ UNCHANGED <<laneOf, completed, drain>>
    BY <1>8 DEF WriterResume
  <2> HIDE DEF i, rest
  <2>7. laneOf' = [laneOf EXCEPT ![i] = l]
    BY <2>2, <2>3, <2>6 DEF TypeOK
  <2>8. /\ woken'[l] = woken[l] - 1
        /\ \A m \in Lanes \ {l} : woken'[m] = woken[m]
    BY <2>6 DEF TypeOK
  <2>9. woken'[l] <= Len(rest) /\ (Len(rest) > woken'[l] => Len(writers[l]) > woken[l])
    BY <2>1, <2>2, <2>8
  <2> QED
    BY <2>2, <2>3, <2>4, <2>5, <2>6, <2>7, <2>8, <2>9, WriteShape
<1>9. ASSUME NEW l \in Lanes, ReaderResume(l)
      PROVE  Shape'
  <2>1. \A j \in Items : laneOf[j] = l => stage[j] \notin InFlight
    BY <1>9 DEF ReaderResume, InFlightBusy
  <2>2. stage \in [Items -> Stages] /\ reader[l] # "gone"
    BY <1>9 DEF ReaderResume, TypeOK
  <2> QED
    BY <1>9, <2>1, <2>2, ReadShape DEF ReaderResume
<1>10. ASSUME NEW l \in Lanes, LaneExit(l)
       PROVE  Shape'
  <2>1. /\ reader[l] = "leaving" /\ reader' = [reader EXCEPT ![l] = "gone"]
        /\ UNCHANGED <<stage, laneOf, slot, completed, writers, woken, drain>>
    BY <1>10 DEF LaneExit
  <2>2. \A m \in Lanes : reader'[m] = IF m = l THEN "gone" ELSE reader[m]
    BY <2>1 DEF TypeOK
  <2>3. InFlightBusy'
    <3> SUFFICES ASSUME NEW j \in Items, stage[j] \in InFlight
                 PROVE  reader'[laneOf[j]] = "busy"
      BY <2>1 DEF InFlightBusy
    <3>1. laneOf[j] \in Lanes /\ reader[laneOf[j]] = "busy"
      BY DEF InFlightBusy, Routed, InFlight
    <3> QED
      BY <2>1, <2>2, <3>1
  <2> QED
    BY <2>1, <2>2, <2>3 DEF Routed, NoLostWakeup, LaneSerial, SuspendedBlocked, SlotQueued,
                            EndedEmpty, DrainedGone
<1>11. ASSUME DrainBegin
       PROVE  Shape'
  <2>1. /\ drain' = "draining"
        /\ \A m \in Lanes : /\ completed'[m] = TRUE
                            /\ reader'[m] = Awake(reader[m])
                            /\ woken'[m] = Len(writers[m])
        /\ UNCHANGED <<stage, laneOf, slot, writers>>
    BY <1>11 DEF DrainBegin
  <2>2. \A m \in Lanes : Len(writers[m]) \in Nat
    BY DEF TypeOK
  <2>3. NoLostWakeup'
    BY <2>1, <2>2 DEF NoLostWakeup, Awake
  <2>4. SuspendedBlocked'
    BY <2>1, <2>2 DEF SuspendedBlocked
  <2>5. InFlightBusy'
    BY <2>1 DEF InFlightBusy, Awake, Routed, InFlight
  <2> QED
    BY <2>1, <2>3, <2>4, <2>5 DEF Routed, LaneSerial, SlotQueued, EndedEmpty, Awake, DrainedGone
<1>12. ASSUME DrainEnd
       PROVE  Shape'
  BY <1>12 DEF DrainEnd, Routed, NoLostWakeup, LaneSerial, SuspendedBlocked, SlotQueued,
               InFlightBusy, EndedEmpty, DrainedGone
<1>13. ASSUME NEW T \in LaneSets, DrainLanesBegin(T)
       PROVE  Shape'
  BY <1>13 DEF DrainLanesBegin, Routed, NoLostWakeup, LaneSerial, SuspendedBlocked,
               SlotQueued, InFlightBusy, EndedEmpty, DrainedGone
<1>14. ASSUME DrainLanesEnd
       PROVE  Shape'
  BY <1>14 DEF DrainLanesEnd, Routed, NoLostWakeup, LaneSerial, SuspendedBlocked,
               SlotQueued, InFlightBusy, EndedEmpty, DrainedGone
<1>15. CASE UNCHANGED vars
  BY <1>15 DEF vars, Routed, NoLostWakeup, LaneSerial, SuspendedBlocked,
               SlotQueued, InFlightBusy, EndedEmpty, DrainedGone
<1> QED
  BY <1>1, <1>2, <1>3, <1>4, <1>6, <1>7, <1>8, <1>9, <1>10, <1>11, <1>12, <1>13,
     <1>14, <1>15 DEF Next, HandlerThrows

-----------------------------------------------------------------------------
(* The theorems.                                                           *)

\* A dispatcher never leaves the shape LaneInv describes.
THEOREM LaneInvariance == Spec => []LaneInv
<1>1. Init => LaneInv
  BY TypeInit, ShapeInit DEF LaneInv, Shape
<1>2. LaneInv /\ [Next]_vars => LaneInv'
  BY TypeStep, ShapeStep DEF LaneInv, Shape
<1> QED
  BY <1>1, <1>2, PTL DEF Spec

\* Every variable stays within its type, whatever the options.
THEOREM DispatcherTypeOK == Spec => []TypeOK
<1>1. LaneInv => TypeOK
  BY DEF LaneInv
<1> QED
  BY <1>1, LaneInvariance, PTL

\* BoundedChannel loses no wake-up: nobody waits for a condition that holds.
THEOREM ChannelNoLostWakeup == Spec => []NoLostWakeup
<1>1. LaneInv => NoLostWakeup
  BY DEF LaneInv
<1> QED
  BY <1>1, LaneInvariance, PTL

\* No accepted item is overwritten and a lane runs one handler at a time.
THEOREM DispatcherLaneSerial == Spec => []LaneSerial
<1>1. LaneInv => LaneSerial
  BY DEF LaneInv
<1> QED
  BY <1>1, LaneInvariance, PTL

\* A drain that ends before its timeout leaves no accepted item unhandled.
THEOREM DispatcherCleanDrain == Spec => []CleanDrain
<1>1. LaneInv => CleanDrain
  <2> SUFFICES ASSUME LaneInv, CatchExceptions, drain = "drained",
                      NEW i \in Items, stage[i] \in Accepted
               PROVE  FALSE
    BY DEF CleanDrain
  <2>1. laneOf[i] \in Lanes
    BY DEF LaneInv, Routed, Accepted
  <2>2. reader[laneOf[i]] = "gone" /\ slot[laneOf[i]] = NoItem
    BY <2>1 DEF LaneInv, DrainedGone, EndedEmpty
  <2>3. stage[i] \notin InFlight
    BY <2>2 DEF LaneInv, InFlightBusy
  <2>4. stage[i] # "queued"
    BY <2>2 DEF LaneInv, LaneSerial, Items, NoItem
  <2> QED
    BY <2>3, <2>4 DEF Accepted, InFlight
<1> QED
  BY <1>1, LaneInvariance, PTL

-----------------------------------------------------------------------------
(* The outstanding counts.                                                 *)

\* An item set has a size: what outstanding[l] is compared with is a number.
LEMMA CountedFinite == \A l : IsFiniteSet(CountedOn(l)) /\ Cardinality(CountedOn(l)) \in Nat
<1>1. IsFiniteSet(Items)
  BY FS_Interval, DispatcherAssumption DEF DispatcherAssumption, Items
<1>2. \A l : CountedOn(l) \subseteq Items
  BY DEF CountedOn
<1> QED
  BY <1>1, <1>2, FS_Subset, FS_CardinalityType

\* What write does besides the channel: one item moves, nobody leaves.
LEMMA WriteFrame ==
  ASSUME TypeOK, NEW l \in Lanes, NEW i \in Items, NEW others, Write(l, i, others)
  PROVE  /\ stage'[i] \in {"queued", "blocked", "rejecting"}
         /\ \A j \in Items \ {i} : stage'[j] = stage[j]
         /\ \A m \in Lanes : reader'[m] # "gone" => reader[m] # "gone"
<1>1. stage'[i] \in {"queued", "blocked", "rejecting"} /\ \A j \in Items \ {i} : stage'[j] = stage[j]
  BY DEF Write, TypeOK
<1>2. reader' = [reader EXCEPT ![l] = Awake(reader[l])] \/ reader' = reader
  BY DEF Write
<1>3. \A m \in Lanes : reader'[m] # "gone" => reader[m] # "gone"
  BY <1>2 DEF Awake, TypeOK
<1> QED
  BY <1>1, <1>3

\* A step that gives item i, not counted before, to lane l.
LEMMA CountAdd ==
  ASSUME TypeOK, NEW l \in Lanes, NEW i \in Items,
         \A j \in Items \ {i} : /\ laneOf'[j] = laneOf[j]
                                /\ stage'[j] \in Counted <=> stage[j] \in Counted,
         stage[i] \notin Counted, stage'[i] \in Counted, laneOf'[i] = l
  PROVE  \A m \in Lanes :
           Cardinality(CountedOn(m)') = IF m = l THEN Cardinality(CountedOn(m)) + 1
                                                 ELSE Cardinality(CountedOn(m))
<1>1. CountedOn(l)' = CountedOn(l) \cup {i} /\ i \notin CountedOn(l)
  BY DEF CountedOn
<1>2. \A m \in Lanes \ {l} : CountedOn(m)' = CountedOn(m)
  BY DEF CountedOn
<1>3. Cardinality(CountedOn(l) \cup {i}) = Cardinality(CountedOn(l)) + 1
  BY <1>1, CountedFinite, FS_AddElement
<1> QED
  BY <1>1, <1>2, <1>3

\* A step that takes the counted item i off its lane.
LEMMA CountRemove ==
  ASSUME TypeOK, NEW i \in Items, laneOf[i] \in Lanes, UNCHANGED laneOf,
         \A j \in Items \ {i} : stage'[j] \in Counted <=> stage[j] \in Counted,
         stage[i] \in Counted, stage'[i] \notin Counted
  PROVE  \A m \in Lanes :
           Cardinality(CountedOn(m)') = IF m = laneOf[i] THEN Cardinality(CountedOn(m)) - 1
                                                         ELSE Cardinality(CountedOn(m))
<1> DEFINE l == laneOf[i]
<1>1. CountedOn(l)' = CountedOn(l) \ {i} /\ i \in CountedOn(l)
  BY DEF CountedOn
<1>2. \A m \in Lanes \ {l} : CountedOn(m)' = CountedOn(m)
  BY DEF CountedOn
<1>3. Cardinality(CountedOn(l) \ {i}) = Cardinality(CountedOn(l)) - 1
  BY <1>1, CountedFinite, FS_RemoveElement
<1> QED
  BY <1>1, <1>2, <1>3

\* A step that moves items only between counted stages.
LEMMA CountSame ==
  ASSUME \A j \in Items : stage'[j] \in Counted <=> stage[j] \in Counted, UNCHANGED laneOf
  PROVE  \A m \in Lanes : CountedOn(m)' = CountedOn(m)
BY DEF CountedOn

\* outstanding[l] moves with the items of every lane still consuming.
LEMMA CountStep == LaneInv /\ OutstandingExact /\ [Next]_vars => OutstandingExact'
<1> SUFFICES ASSUME LaneInv, OutstandingExact, [Next]_vars
             PROVE  OutstandingExact'
  OBVIOUS
<1> USE DEF OutstandingExact
<1>a. TypeOK /\ Routed /\ SuspendedBlocked /\ SlotQueued
  BY DEF LaneInv
<1>b. \A l \in Lanes : Cardinality(CountedOn(l)) \in Nat
  BY CountedFinite
<1>1. ASSUME NEW i \in Items, Enqueue(i)
      PROVE  OutstandingExact'
  <2> DEFINE l == Route(i)
  <2>1. l \in Lanes
    BY <1>a, RouteInLanes
  <2>2. /\ stage[i] = "new" /\ laneOf' = [laneOf EXCEPT ![i] = l]
        /\ laneOutstanding' = [laneOutstanding EXCEPT ![l] = laneOutstanding[l] + 1]
        /\ Write(l, i, writers[l])
    BY <1>1 DEF Enqueue
  <2> HIDE DEF l
  <2>3. /\ stage'[i] \in {"queued", "blocked", "rejecting"}
        /\ \A j \in Items \ {i} : stage'[j] = stage[j]
    BY <1>a, <2>2 DEF Write, TypeOK
  <2>4. \A m \in Lanes : reader'[m] # "gone" => reader[m] # "gone"
    BY <1>a, <2>1, <2>2, WriteFrame
  <2>5. laneOf'[i] = l /\ \A j \in Items \ {i} : laneOf'[j] = laneOf[j]
    BY <1>a, <2>2 DEF TypeOK
  <2>6. stage[i] \notin Counted /\ stage'[i] \in Counted
    BY <2>2, <2>3 DEF Counted, Accepted
  <2>7. \A m \in Lanes :
           Cardinality(CountedOn(m)') = IF m = l THEN Cardinality(CountedOn(m)) + 1
                                                 ELSE Cardinality(CountedOn(m))
    BY <1>a, <2>1, <2>3, <2>5, <2>6, CountAdd
  <2>8. \A m \in Lanes : laneOutstanding'[m] = IF m = l THEN laneOutstanding[m] + 1
                                                       ELSE laneOutstanding[m]
    BY <1>a, <2>2 DEF TypeOK
  <2> QED
    BY <2>4, <2>7, <2>8
<1>2. ASSUME NEW i \in Items, AbortWaiting(i) \/ HandleStart(i)
      PROVE  OutstandingExact'
  <2>1. /\ stage[i] \in Counted /\ stage'[i] \in Counted
        /\ \A j \in Items \ {i} : stage'[j] = stage[j]
        /\ UNCHANGED <<laneOf, laneOutstanding, reader>>
    BY <1>2, <1>a DEF AbortWaiting, HandleStart, TypeOK, Counted, Accepted
  <2>2. \A m \in Lanes : CountedOn(m)' = CountedOn(m)
    BY <2>1, CountSame
  <2> QED
    BY <2>1, <2>2
<1>3. ASSUME NEW i \in Items, EnqueueRejected(i)
      PROVE  OutstandingExact'
  <2>1. /\ stage[i] = "rejecting" /\ stage'[i] = "refused"
        /\ \A j \in Items \ {i} : stage'[j] = stage[j]
        /\ UNCHANGED <<laneOf, reader>>
        /\ laneOf[i] \in Lanes
    BY <1>3, <1>a DEF EnqueueRejected, TypeOK, Routed
  <2>2. \A m \in Lanes : laneOutstanding'[m] = IF m = laneOf[i] THEN laneOutstanding[m] - 1
                                                              ELSE laneOutstanding[m]
    BY <1>3, <1>a DEF EnqueueRejected, TypeOK
  <2>3. stage[i] \in Counted /\ stage'[i] \notin Counted
    BY <2>1 DEF Counted, Accepted
  <2>4. \A m \in Lanes :
           Cardinality(CountedOn(m)') = IF m = laneOf[i] THEN Cardinality(CountedOn(m)) - 1
                                                         ELSE Cardinality(CountedOn(m))
    BY <1>a, <2>1, <2>3, CountRemove
  <2> QED
    BY <2>1, <2>2, <2>4
<1>4. ASSUME NEW i \in Items, HandlerReturns(i) \/ HandlerThrows(i)
      PROVE  OutstandingExact'
  <2> DEFINE l == laneOf[i]
  <2>1. /\ stage[i] = "running" /\ l \in Lanes /\ UNCHANGED laneOf
        /\ laneOutstanding' = [laneOutstanding EXCEPT ![l] = laneOutstanding[l] - 1]
    BY <1>4, <1>a DEF HandlerReturns, HandlerThrows, Routed
  <2>2. ASSUME NEW st, st \in {[stage EXCEPT ![i] = "handled"], [stage EXCEPT ![i] = "faulted"]},
               ReadNext(l, st)
        PROVE  /\ stage'[i] \in {"handled", "faulted"}
               /\ \A j \in Items \ {i} : stage'[j] \in Counted <=> stage[j] \in Counted
               /\ \A m \in Lanes \ {l} : reader'[m] = reader[m]
    <3>1. /\ st[i] \in {"handled", "faulted"}
          /\ \A j \in Items \ {i} : st[j] = stage[j]
          /\ st \in [Items -> Stages]
      BY <2>2, <1>a DEF TypeOK, Stages
    <3>2. CASE slot[l] # NoItem
      <4>1. /\ slot[l] \in Items \ {i} /\ stage[slot[l]] = "queued"
            /\ stage' = [st EXCEPT ![slot[l]] = "taken"]
            /\ reader' = [reader EXCEPT ![l] = "busy"]
        BY <1>a, <2>1, <2>2, <3>2 DEF SlotQueued, TypeOK, ReadNext
      <4>2. \A m \in Lanes \ {l} : reader'[m] = reader[m]
        BY <1>a, <4>1 DEF TypeOK
      <4>3. /\ stage'[slot[l]] = "taken"
            /\ \A j \in Items \ {slot[l]} : stage'[j] = st[j]
        BY <3>1, <4>1
      <4> QED
        BY <3>1, <4>1, <4>2, <4>3 DEF Counted, Accepted
    <3>3. CASE slot[l] = NoItem
      <4>1. /\ stage' = st
            /\ reader' = [reader EXCEPT ![l] = IF completed[l] THEN "leaving" ELSE "waiting"]
        BY <2>2, <3>3 DEF ReadNext
      <4>2. \A m \in Lanes \ {l} : reader'[m] = reader[m]
        BY <1>a, <4>1 DEF TypeOK
      <4> QED
        BY <3>1, <4>1, <4>2
    <3> QED
      BY <3>2, <3>3
  <2>3. /\ stage'[i] \in {"handled", "faulted"}
        /\ \A j \in Items \ {i} : stage'[j] \in Counted <=> stage[j] \in Counted
        /\ \A m \in Lanes \ {l} : reader'[m] = reader[m]
    <3>1. CASE HandlerReturns(i)
      BY <3>1, <2>2 DEF HandlerReturns
    <3>2. CASE HandlerThrows(i) /\ CatchExceptions
      BY <3>2, <2>2 DEF HandlerThrows
    <3>3. CASE HandlerThrows(i) /\ ~CatchExceptions
      BY <3>3, <1>a DEF HandlerThrows, TypeOK
    <3> QED
      BY <1>4, <3>1, <3>2, <3>3
  <2>4. reader[l] # "gone"
    BY <2>1 DEF LaneInv, InFlightBusy, InFlight
  <2>5. \A m \in Lanes : laneOutstanding'[m] = IF m = l THEN laneOutstanding[m] - 1
                                                       ELSE laneOutstanding[m]
    BY <2>1, <1>a DEF TypeOK
  <2>6. stage[i] \in Counted /\ stage'[i] \notin Counted
    BY <2>1, <2>3 DEF Counted, Accepted
  <2>7. \A m \in Lanes :
           Cardinality(CountedOn(m)') = IF m = laneOf[i] THEN Cardinality(CountedOn(m)) - 1
                                                         ELSE Cardinality(CountedOn(m))
    BY <1>a, <2>1, <2>3, <2>6, CountRemove
  <2> QED
    BY <2>3, <2>4, <2>5, <2>7
<1>5. ASSUME NEW l \in Lanes, WriterResume(l)
      PROVE  OutstandingExact'
  <2> DEFINE i == Head(writers[l])
  <2>1. /\ i \in Items /\ stage[i] = "blocked"
        /\ Write(l, i, Tail(writers[l])) /\ UNCHANGED <<laneOf, laneOutstanding>>
    <3>1. /\ writers[l] \in Seq(Items) /\ 1 \in 1 .. Len(writers[l])
          /\ i = writers[l][1]
      BY <1>5, <1>a DEF WriterResume, SuspendedBlocked, TypeOK
    <3> QED
      BY <1>5, <1>a, <3>1 DEF WriterResume, SuspendedBlocked
  <2> HIDE DEF i
  <2>2. /\ stage'[i] \in {"queued", "blocked", "rejecting"}
        /\ \A j \in Items \ {i} : stage'[j] = stage[j]
        /\ \A m \in Lanes : reader'[m] # "gone" => reader[m] # "gone"
    BY <1>a, <2>1, WriteFrame
  <2>3. \A j \in Items : stage'[j] \in Counted <=> stage[j] \in Counted
    BY <2>1, <2>2 DEF Counted, Accepted
  <2> QED
    BY <2>1, <2>2, <2>3, CountSame
<1>6. ASSUME NEW l \in Lanes, ReaderResume(l)
      PROVE  OutstandingExact'
  <2>1. /\ reader[l] = "woken" /\ UNCHANGED <<laneOf, laneOutstanding>>
        /\ \A m \in Lanes \ {l} : reader'[m] = reader[m]
    BY <1>6, <1>a DEF ReaderResume, ReadNext, TypeOK
  <2>2. \A j \in Items : stage'[j] \in Counted <=> stage[j] \in Counted
    BY <1>6, <1>a DEF ReaderResume, ReadNext, TypeOK, SlotQueued, Counted, Accepted
  <2> QED
    BY <2>1, <2>2, CountSame
<1>7. ASSUME NEW l \in Lanes, LaneExit(l)
      PROVE  OutstandingExact'
  <2>1. /\ reader'[l] = "gone" /\ UNCHANGED <<stage, laneOf>>
        /\ \A m \in Lanes \ {l} : /\ reader'[m] = reader[m]
                                  /\ laneOutstanding'[m] = laneOutstanding[m]
    BY <1>7, <1>a DEF LaneExit, TypeOK
  <2> QED
    BY <2>1, CountSame
<1>8. ASSUME DrainBegin
      PROVE  OutstandingExact'
  <2>1. /\ UNCHANGED <<stage, laneOf, laneOutstanding>>
        /\ \A m \in Lanes : reader'[m] # "gone" => reader[m] # "gone"
    BY <1>8 DEF DrainBegin, Awake
  <2> QED
    BY <2>1, CountSame
<1>9. ASSUME UNCHANGED <<stage, laneOf, laneOutstanding, reader>>
      PROVE  OutstandingExact'
  BY <1>9, CountSame
<1> QED
  BY <1>1, <1>2, <1>3, <1>4, <1>5, <1>6, <1>7, <1>8, <1>9
     DEF Next, vars, AbortUnheard, DrainEnd, DrainLanesBegin, DrainLanesEnd

\* The count drainLanesAsync polls is exact on every lane still consuming.
THEOREM DispatcherOutstandingExact == Spec => []OutstandingExact
<1>1. Init => OutstandingExact
  <2> SUFFICES ASSUME Init, NEW l \in Lanes
               PROVE  laneOutstanding[l] = Cardinality(CountedOn(l))
    BY DEF OutstandingExact
  <2>1. CountedOn(l) = {}
    BY DEF Init, CountedOn, Counted, Accepted
  <2> QED
    BY <2>1, FS_EmptySet DEF Init
<1> QED
  BY <1>1, CountStep, LaneInvariance, PTL DEF Spec

\* drainLanesAsync does not report a lane quiet that still holds an item.
THEOREM DispatcherQuiesceSound == Spec => QuiesceSound
<1> DEFINE Quiet == CatchExceptions /\ quiesce'.phase = "quiet" /\ quiesce.phase # "quiet"
                      => \A i \in Items : laneOf[i] \in quiesce.lanes => stage[i] \notin Accepted
<1>1. LaneInv /\ OutstandingExact /\ [Next]_vars => [Quiet]_vars
  <2> SUFFICES ASSUME LaneInv, OutstandingExact, Next, CatchExceptions,
                      quiesce'.phase = "quiet", quiesce.phase # "quiet",
                      NEW i \in Items, laneOf[i] \in quiesce.lanes, stage[i] \in Accepted
               PROVE  FALSE
    OBVIOUS
  <2>1. DrainLanesEnd
    <3>1. quiesce' # quiesce
      OBVIOUS
    <3>2. \A T \in LaneSets : ~DrainLanesBegin(T)
      BY DEF DrainLanesBegin
    <3> QED
      BY <3>1, <3>2 DEF Next, Enqueue, AbortWaiting, AbortUnheard, EnqueueRejected, HandleStart,
         HandlerReturns, HandlerThrows, WriterResume, ReaderResume, LaneExit, DrainBegin, DrainEnd
  <2>2. laneOf[i] \in Lanes /\ laneOutstanding[laneOf[i]] <= 0
    <3>1. \A l \in quiesce.lanes : laneOutstanding[l] <= 0
      BY <2>1 DEF DrainLanesEnd, LaneInv, TypeOK, QuiescePhases
    <3> QED
      BY <3>1 DEF LaneInv, Routed, Accepted
  <2>3. CASE reader[laneOf[i]] # "gone"
    <3>1. CountedOn(laneOf[i]) # {}
      BY DEF CountedOn, Counted
    <3>2. Cardinality(CountedOn(laneOf[i])) \in Nat /\ Cardinality(CountedOn(laneOf[i])) # 0
      BY <3>1, CountedFinite, FS_EmptySet
    <3> QED
      BY <2>2, <2>3, <3>2 DEF OutstandingExact
  <2>4. CASE reader[laneOf[i]] = "gone"
    <3>1. stage[i] \notin InFlight
      BY <2>4 DEF LaneInv, InFlightBusy
    <3>2. stage[i] # "queued"
      BY <2>2, <2>4 DEF LaneInv, LaneSerial, EndedEmpty, Items, NoItem
    <3> QED
      BY <3>1, <3>2 DEF Accepted, InFlight
  <2> QED
    BY <2>3, <2>4
<1> QED
  BY <1>1, LaneInvariance, DispatcherOutstandingExact, PTL DEF Spec, QuiesceSound

-----------------------------------------------------------------------------
(* BoundedDispatcher implements LaneContract: initial states map to        *)
(* initial states and every step to a step of the contract or to none.     *)

\* The lanes are completed exactly once drainAsync has been called.
CompletedByDrain == \A l \in Lanes : completed[l] <=> drain # "none"

\* drainAsync completes every channel, and nothing else completes one.
LEMMA CompletedInvariance == Spec => []CompletedByDrain
<1>1. Init => CompletedByDrain
  BY DEF Init, CompletedByDrain
<1>2. TypeOK /\ CompletedByDrain /\ [Next]_vars => CompletedByDrain'
  <2> SUFFICES ASSUME TypeOK, CompletedByDrain, [Next]_vars PROVE CompletedByDrain'
    OBVIOUS
  <2>1. CASE UNCHANGED <<completed, drain>>
    BY <2>1 DEF CompletedByDrain
  <2>2. CASE DrainBegin
    BY <2>2 DEF DrainBegin, CompletedByDrain
  <2>3. CASE DrainEnd
    BY <2>3 DEF DrainEnd, CompletedByDrain
  <2> QED
    BY <2>1, <2>2, <2>3
       DEF Next, vars, Enqueue, AbortWaiting, AbortUnheard, EnqueueRejected, HandleStart,
           HandlerReturns, HandlerThrows, WriterResume, ReaderResume, LaneExit,
           DrainLanesBegin, DrainLanesEnd
<1> QED
  BY <1>1, <1>2, DispatcherTypeOK, PTL DEF Spec

\* What the contract sees of a step that changes one item's status, or none.
LEMMA OneStatus ==
  ASSUME NEW i \in Items, NEW s, StatusOf(stage'[i]) = s,
         \A j \in Items \ {i} : StatusOf(stage'[j]) = StatusOf(stage[j])
  PROVE  Contract!SetStatus(i, s)
BY DEF Contract!SetStatus

\* A step that leaves every status alone does not show in the contract.
LEMMA NoStatus ==
  ASSUME \A j \in Items : StatusOf(stage'[j]) = StatusOf(stage[j])
  PROVE  [j \in Items |-> StatusOf(stage[j])]' = [j \in Items |-> StatusOf(stage[j])]
OBVIOUS

\* The items the contract takes to be held on a lane.
LEMMA HeldAccepted ==
  ASSUME TypeOK, NEW l
  PROVE  Contract!HeldOn(l) = {i \in Items : stage[i] \in Accepted /\ laneOf[i] = l}
BY DEF Contract!HeldOn, Contract!Held, StatusOf, Accepted, TypeOK, Stages

\* An empty slot leaves room in the lane, an occupied one is an item held.
LEMMA SlotRoom ==
  ASSUME LaneInv, NEW l \in Lanes
  PROVE  /\ slot[l] = NoItem => Contract!HasRoom(l)
         /\ slot[l] # NoItem => Contract!HeldOn(l) # {}
<1>1. TypeOK
  BY DEF LaneInv
<1>2. ASSUME slot[l] = NoItem, NEW i \in Contract!HeldOn(l)
      PROVE  i \in Items /\ laneOf[i] = l /\ stage[i] \in InFlight
  BY <1>1, <1>2, HeldAccepted DEF LaneInv, LaneSerial, Accepted, InFlight, Items, NoItem
<1>3. slot[l] = NoItem => Contract!HasRoom(l)
  BY <1>2 DEF Contract!HasRoom, LaneInv, LaneSerial
<1>4. slot[l] # NoItem => slot[l] \in Contract!HeldOn(l)
  BY <1>1, HeldAccepted DEF LaneInv, SlotQueued, TypeOK, Accepted
<1> QED
  BY <1>3, <1>4

\* The stages write leaves behind.
LEMMA WriteStages ==
  ASSUME TypeOK, NEW l \in Lanes, NEW i \in Items, NEW others, Write(l, i, others)
  PROVE  /\ \A j \in Items \ {i} : stage'[j] = stage[j]
         /\ \/ stage'[i] = "queued" /\ ~completed[l] /\ slot[l] = NoItem
            \/ stage'[i] = "blocked" /\ ~completed[l] /\ slot[l] # NoItem
            \/ stage'[i] = "rejecting" /\ (completed[l] \/ slot[l] # NoItem)
BY DEF Write, TypeOK

\* readAll takes nothing but a queued item, which the contract does not see.
LEMMA ReadStages ==
  ASSUME LaneInv, NEW l \in Lanes, NEW st, ReadNext(l, st), st \in [Items -> Stages],
         \A i \in Items : stage[i] = "queued" => st[i] = "queued"
  PROVE  \A i \in Items : StatusOf(stage'[i]) = StatusOf(st[i])
<1>1. CASE slot[l] # NoItem
  <2>1. slot[l] \in Items /\ st[slot[l]] = "queued"
    BY <1>1 DEF LaneInv, SlotQueued, TypeOK
  <2>2. stage' = [st EXCEPT ![slot[l]] = "taken"]
    BY <1>1 DEF ReadNext
  <2> QED
    BY <2>1, <2>2 DEF StatusOf
<1>2. CASE slot[l] = NoItem
  BY <1>2 DEF ReadNext
<1> QED
  BY <1>1, <1>2

\* The contract's variables under the refinement mapping.
ContractVars == <<[i \in Items |-> StatusOf(stage[i])], laneOf, PhaseOf(drain)>>

\* Every step of the dispatcher is one of the contract, or changes nothing
\* the contract speaks of.
LEMMA ContractStep ==
  LaneInv /\ LaneInv' /\ CompletedByDrain /\ [Next]_vars => [Contract!Next]_ContractVars
<1> SUFFICES ASSUME LaneInv, LaneInv', CompletedByDrain, [Next]_vars
             PROVE  Contract!Next \/ UNCHANGED ContractVars
  OBVIOUS
<1> USE DEF ContractVars
<1>t. TypeOK /\ TypeOK'
  BY DEF LaneInv
<1>1. ASSUME NEW i \in Items, Enqueue(i)
      PROVE  Contract!Next
  <2> DEFINE l == Route(i)
  <2>1. l \in Lanes
    BY <1>t, RouteInLanes
  <2>2. /\ stage[i] = "new" /\ laneOf' = [laneOf EXCEPT ![i] = l]
        /\ Write(l, i, writers[l]) /\ drain' = drain
    BY <1>1 DEF Enqueue
  <2> HIDE DEF l
  <2>3. /\ \A j \in Items \ {i} : stage'[j] = stage[j]
        /\ \/ stage'[i] = "queued" /\ ~completed[l] /\ slot[l] = NoItem
           \/ stage'[i] = "blocked" /\ ~completed[l] /\ slot[l] # NoItem
           \/ stage'[i] = "rejecting" /\ (completed[l] \/ slot[l] # NoItem)
    BY <1>t, <2>1, <2>2, WriteStages
  <2>4. \A s : StatusOf(stage'[i]) = s => Contract!SetStatus(i, s)
    BY <2>3, OneStatus
  <2>s. /\ stage'[i] = "queued" => StatusOf(stage'[i]) = "accepted"
        /\ stage'[i] = "blocked" => StatusOf(stage'[i]) = "pending"
        /\ stage'[i] = "rejecting" => StatusOf(stage'[i]) = "refused"
    BY DEF StatusOf
  <2>5. /\ slot[l] = NoItem => Contract!HasRoom(l)
        /\ slot[l] # NoItem => Contract!HeldOn(l) # {}
    BY <2>1, SlotRoom
  <2>6. completed[l] <=> PhaseOf(drain) # "open"
    BY <1>t, <2>1 DEF CompletedByDrain, PhaseOf, TypeOK
  <2>7. [j \in Items |-> StatusOf(stage[j])][i] = "idle"
    BY <2>2 DEF StatusOf
  <2>8. PhaseOf(drain)' = PhaseOf(drain)
    BY <2>2
  <2>9. \/ PhaseOf(drain) = "open" /\ Contract!HasRoom(l) /\ Contract!SetStatus(i, "accepted")
        \/ PhaseOf(drain) = "open" /\ Contract!HeldOn(l) # {} /\ Contract!SetStatus(i, "pending")
        \/ /\ PhaseOf(drain) # "open" \/ Contract!HeldOn(l) # {}
           /\ Contract!SetStatus(i, "refused")
    BY <2>3, <2>4, <2>s, <2>5, <2>6
  <2>10. Contract!Call(i, l)
    BY <2>2, <2>7, <2>8, <2>9 DEF Contract!Call
  <2> QED
    BY <2>1, <2>10 DEF Contract!Next
<1>2. ASSUME NEW l \in Lanes, WriterResume(l)
      PROVE  Contract!Next \/ UNCHANGED ContractVars
  <2> DEFINE i == Head(writers[l])
  <2>1. i \in Items /\ stage[i] = "blocked" /\ laneOf[i] = l
    <3>1. woken[l] \in Nat /\ woken[l] > 0 /\ woken[l] <= Len(writers[l])
      BY <1>t, <1>2 DEF WriterResume, LaneInv, SuspendedBlocked, TypeOK
    <3>2. writers[l] \in Seq(Items) /\ Len(writers[l]) > 0 /\ Len(writers[l]) \in Nat
      BY <1>t, <3>1 DEF TypeOK
    <3>3. i = writers[l][1] /\ 1 \in 1 .. Len(writers[l])
      BY <3>2
    <3> QED
      BY <3>2, <3>3 DEF LaneInv, SuspendedBlocked
  <2>2. Write(l, i, Tail(writers[l])) /\ laneOf' = laneOf /\ drain' = drain
    BY <1>2 DEF WriterResume
  <2> HIDE DEF i
  <2>3. /\ \A j \in Items \ {i} : stage'[j] = stage[j]
        /\ \/ stage'[i] = "queued" /\ ~completed[l] /\ slot[l] = NoItem
           \/ stage'[i] = "blocked" /\ ~completed[l] /\ slot[l] # NoItem
           \/ stage'[i] = "rejecting" /\ (completed[l] \/ slot[l] # NoItem)
    BY <1>t, <2>1, <2>2, WriteStages
  <2>4. \A s : StatusOf(stage'[i]) = s => Contract!SetStatus(i, s)
    BY <2>1, <2>3, OneStatus
  <2>5. [j \in Items |-> StatusOf(stage[j])][i] = "pending"
    BY <2>1 DEF StatusOf
  <2>6. CASE stage'[i] = "queued"
    <3>1. Contract!HasRoom(laneOf[i])
      BY <2>1, <2>3, <2>6, SlotRoom
    <3>2. PhaseOf(drain) = "open"
      BY <2>3, <2>6 DEF CompletedByDrain, PhaseOf
    <3>3. Contract!SetStatus(i, "accepted")
      <4>1. StatusOf(stage'[i]) = "accepted"
        BY <2>6 DEF StatusOf
      <4> QED
        BY <2>4, <4>1
    <3>4. Contract!Accept(i)
      BY <2>2, <2>5, <3>1, <3>2, <3>3 DEF Contract!Accept
    <3> QED
      BY <2>1, <3>4 DEF Contract!Next
  <2>7. CASE stage'[i] = "blocked"
    BY <2>1, <2>2, <2>3, <2>7, NoStatus
  <2>8. CASE stage'[i] = "rejecting"
    <3>1. Contract!SetStatus(i, "refused")
      <4>1. StatusOf(stage'[i]) = "refused"
        BY <2>8 DEF StatusOf
      <4> QED
        BY <2>4, <4>1
    <3>2. Contract!Refuse(i)
      BY <2>2, <2>5, <3>1 DEF Contract!Refuse
    <3> QED
      BY <2>1, <3>2 DEF Contract!Next
  <2> QED
    BY <2>3, <2>6, <2>7, <2>8
<1>3. ASSUME NEW i \in Items, AbortWaiting(i)
      PROVE  Contract!Next
  <2>1. /\ stage[i] = "blocked" /\ stage' = [stage EXCEPT ![i] = "rejecting"]
        /\ UNCHANGED <<laneOf, drain>>
    BY <1>3 DEF AbortWaiting
  <2>2. stage'[i] = "rejecting" /\ \A j \in Items \ {i} : stage'[j] = stage[j]
    BY <1>t, <2>1 DEF TypeOK
  <2>3. StatusOf(stage'[i]) = "refused"
    BY <2>2 DEF StatusOf
  <2>4. Contract!SetStatus(i, "refused")
    BY <2>2, <2>3, OneStatus
  <2>5. [j \in Items |-> StatusOf(stage[j])][i] = "pending"
    BY <2>1 DEF StatusOf
  <2>6. Contract!Refuse(i)
    BY <2>1, <2>4, <2>5 DEF Contract!Refuse
  <2> QED
    BY <2>6 DEF Contract!Next
<1>4. ASSUME NEW i \in Items, EnqueueRejected(i)
      PROVE  UNCHANGED ContractVars
  <2>1. stage[i] = "rejecting" /\ stage' = [stage EXCEPT ![i] = "refused"]
        /\ UNCHANGED <<laneOf, drain>>
    BY <1>4 DEF EnqueueRejected
  <2>2. \A j \in Items : StatusOf(stage'[j]) = StatusOf(stage[j])
    BY <1>t, <2>1 DEF TypeOK, StatusOf
  <2> QED
    BY <2>1, <2>2, NoStatus
<1>5. ASSUME NEW l \in Lanes, ReaderResume(l)
      PROVE  UNCHANGED ContractVars
  <2>1. ReadNext(l, stage) /\ UNCHANGED <<laneOf, drain>>
    BY <1>5 DEF ReaderResume
  <2>2. stage \in [Items -> Stages]
    BY <1>t DEF TypeOK
  <2>3. \A j \in Items : StatusOf(stage'[j]) = StatusOf(stage[j])
    BY <2>1, <2>2, ReadStages
  <2> QED
    BY <2>1, <2>3, NoStatus
<1>6. ASSUME NEW i \in Items, HandleStart(i)
      PROVE  Contract!Next
  <2>1. /\ stage[i] = "taken" /\ stage' = [stage EXCEPT ![i] = "running"]
        /\ UNCHANGED <<laneOf, drain>>
    BY <1>6 DEF HandleStart
  <2>2. stage'[i] = "running" /\ \A j \in Items \ {i} : stage'[j] = stage[j]
    BY <1>t, <2>1 DEF TypeOK
  <2>3. StatusOf(stage'[i]) = "running"
    BY <2>2 DEF StatusOf
  <2>4. Contract!SetStatus(i, "running")
    BY <2>2, <2>3, OneStatus
  <2>5. [j \in Items |-> StatusOf(stage[j])][i] = "accepted"
    BY <2>1 DEF StatusOf
  <2>6. ASSUME NEW j \in Contract!HeldOn(laneOf[i])
        PROVE  [k \in Items |-> StatusOf(stage[k])][j] # "running"
    <3>1. j \in Items /\ laneOf[j] = laneOf[i]
      BY <1>t, <2>6, HeldAccepted
    <3>2. stage[j] # "running"
      BY <2>1, <3>1 DEF LaneInv, LaneSerial, InFlight
    <3>3. stage[j] \in Stages
      BY <1>t, <3>1 DEF TypeOK
    <3> QED
      BY <3>1, <3>2, <3>3 DEF StatusOf, Stages
  <2>7. Contract!Run(i)
    BY <2>1, <2>4, <2>5, <2>6 DEF Contract!Run
  <2> QED
    BY <2>7 DEF Contract!Next
<1>7. ASSUME NEW i \in Items, stage[i] = "running", UNCHANGED <<laneOf, drain>>,
             NEW s \in {"handled", "faulted"},
             \/ ReadNext(laneOf[i], [stage EXCEPT ![i] = s])
             \/ stage' = [stage EXCEPT ![i] = s]
      PROVE  Contract!Next
  <2> DEFINE st == [stage EXCEPT ![i] = s]
  <2>1. st \in [Items -> Stages] /\ \A j \in Items : stage[j] = "queued" => st[j] = "queued"
    BY <1>t, <1>7 DEF TypeOK, Stages
  <2>2. laneOf[i] \in Lanes
    BY <1>7 DEF LaneInv, Routed
  <2>3. /\ StatusOf(st[i]) = "finished"
        /\ \A j \in Items \ {i} : st[j] = stage[j]
    BY <1>t, <1>7 DEF TypeOK, StatusOf
  <2> HIDE DEF st
  <2>4. \A j \in Items : StatusOf(stage'[j]) = StatusOf(st[j])
    <3>1. CASE ReadNext(laneOf[i], st)
      BY <2>1, <2>2, <3>1, ReadStages
    <3>2. CASE stage' = st
      BY <3>2
    <3> QED
      BY <1>7, <3>1, <3>2 DEF st
  <2>5. StatusOf(stage'[i]) = "finished"
    BY <2>3, <2>4
  <2>6. Contract!SetStatus(i, "finished")
    BY <2>3, <2>4, <2>5, OneStatus
  <2>7. [j \in Items |-> StatusOf(stage[j])][i] = "running"
    BY <1>7 DEF StatusOf
  <2>8. Contract!Finish(i)
    BY <1>7, <2>6, <2>7 DEF Contract!Finish
  <2> QED
    BY <2>8 DEF Contract!Next
<1>8. ASSUME NEW i \in Items, HandlerReturns(i) \/ HandlerThrows(i)
      PROVE  Contract!Next
  BY <1>7, <1>8 DEF HandlerReturns, HandlerThrows
<1>9. ASSUME DrainBegin
      PROVE  Contract!Next
  <2>1. drain = "none" /\ drain' = "draining" /\ UNCHANGED <<stage, laneOf>>
    BY <1>9 DEF DrainBegin
  <2> QED
    BY <2>1 DEF PhaseOf, Contract!Drain, Contract!Next
<1>10. ASSUME DrainEnd
       PROVE  Contract!Next \/ UNCHANGED ContractVars
  <2>1. drain = "draining" /\ UNCHANGED <<stage, laneOf>>
    BY <1>10 DEF DrainEnd
  <2>2. CASE drain' = "timedOut"
    BY <2>1, <2>2 DEF PhaseOf
  <2>3. CASE drain' = "drained"
    <3>1. \A m \in Lanes : reader[m] = "gone"
      BY <1>10, <2>3 DEF DrainEnd
    <3>2. ASSUME CatchExceptions, NEW i \in Items
          PROVE  [j \in Items |-> StatusOf(stage[j])][i] \notin Contract!Held
      <4>1. stage[i] \notin Accepted
        <5> SUFFICES ASSUME stage[i] \in Accepted PROVE FALSE
          OBVIOUS
        <5>1. laneOf[i] \in Lanes
          BY DEF LaneInv, Routed, Accepted
        <5>2. slot[laneOf[i]] = NoItem
          BY <3>1, <3>2, <5>1 DEF LaneInv, EndedEmpty
        <5>3. stage[i] \notin InFlight
          BY <3>1, <5>1 DEF LaneInv, InFlightBusy
        <5>4. stage[i] # "queued"
          BY <5>2 DEF LaneInv, LaneSerial, Items, NoItem
        <5> QED
          BY <5>3, <5>4 DEF Accepted, InFlight
      <4>2. stage[i] \in Stages
        BY <1>t DEF TypeOK
      <4> QED
        BY <4>1, <4>2 DEF StatusOf, Contract!Held, Stages, Accepted
    <3>3. Contract!Settle
      BY <2>1, <2>3, <3>2 DEF PhaseOf, Contract!Settle
    <3> QED
      BY <3>3 DEF Contract!Next
  <2> QED
    BY <1>10, <2>2, <2>3 DEF DrainEnd
<1>11. ASSUME UNCHANGED <<stage, laneOf, drain>>
       PROVE  UNCHANGED ContractVars
  BY <1>11
<1>12. ASSUME \/ \E i \in Items : AbortUnheard(i)
              \/ \E l \in Lanes : LaneExit(l)
              \/ \E T \in LaneSets : DrainLanesBegin(T)
              \/ DrainLanesEnd
              \/ UNCHANGED vars
       PROVE  UNCHANGED ContractVars
  BY <1>11, <1>12 DEF AbortUnheard, LaneExit, DrainLanesBegin, DrainLanesEnd, vars
<1> QED
  BY <1>1, <1>2, <1>3, <1>4, <1>5, <1>6, <1>8, <1>9, <1>10, <1>12 DEF Next

\* The dispatcher implements the contract its callers are modelled against.
THEOREM DispatcherImplementsContract == Spec => ImplementsContract
<1>1. Init => Contract!Init
  BY DEF Init, Contract!Init, StatusOf, PhaseOf
<1>2. LaneInv /\ LaneInv' /\ CompletedByDrain /\ [Next]_vars
        => [Contract!Next]_<<[i \in Items |-> StatusOf(stage[i])], laneOf, PhaseOf(drain)>>
  BY ContractStep DEF ContractVars
<1> QED
  BY <1>1, <1>2, LaneInvariance, CompletedInvariance, PTL
     DEF Spec, ImplementsContract, Contract!Spec
-----------------------------------------------------------------------------
(* Items of one key.  When every caller of a key awaits its calls one by   *)
(* one, an item finds all earlier ones of its key accepted or refused, and *)
(* it is taken only when they are finished: they share its lane.           *)

LanesByKey ==
  Keyed => \A i \in Items : stage[i] # "new" => laneOf[i] = LaneForKey(KeyOf[i])

Before(i, j) == i < j /\ KeyOf[i] = KeyOf[j]

KeyInOrder ==
  Keyed => \A i, j \in Items : Before(i, j) =>
    /\ stage[j] # "new" => stage[i] \notin {"new", "blocked", "rejecting"}
    /\ stage[j] \in Started => stage[i] \in {"handled", "faulted", "refused"}

\* Calls that have settled stay settled, and finished items finished.
LEMMA SettledStays ==
  ASSUME LaneInv, [Next]_vars, NEW i \in Items
  PROVE  /\ stage[i] \notin {"new", "blocked", "rejecting"} =>
              stage'[i] \notin {"new", "blocked", "rejecting"}
         /\ stage[i] \in {"handled", "faulted", "refused"} =>
              stage'[i] \in {"handled", "faulted", "refused"}
<1> USE DEF LaneInv, TypeOK
<1>1. ASSUME NEW l \in Lanes, NEW j \in Items, NEW others, Write(l, j, others),
             stage[j] \in {"new", "blocked"}
      PROVE  stage[i] \notin {"new", "blocked"} => stage'[i] = stage[i]
  BY <1>1, WriteStages
<1>2. ASSUME NEW l \in Lanes, NEW st \in [Items -> Stages], ReadNext(l, st),
             \A j \in Items : \/ st[j] = stage[j]
                              \/ stage[j] = "running" /\ st[j] \in {"handled", "faulted"}
      PROVE  /\ stage[i] \notin {"queued", "running"} => stage'[i] = stage[i]
             /\ stage[i] = "queued" => stage'[i] \in {"queued", "taken"}
             /\ stage[i] = "running" => stage'[i] \in {"running", "handled", "faulted"}
  <2>1. slot[l] # NoItem => stage[slot[l]] = "queued" /\ slot[l] \in Items
    BY DEF SlotQueued
  <2> QED
    BY <1>2, <2>1 DEF ReadNext
<1>3. CASE \E j \in Items : Enqueue(j)
  <2>1. PICK j \in Items : Enqueue(j)
    BY <1>3
  <2>2. Route(j) \in Lanes /\ Write(Route(j), j, writers[Route(j)]) /\ stage[j] = "new"
    BY <2>1, RouteInLanes DEF Enqueue
  <2> QED
    BY <1>1, <2>2
<1>4. CASE \E l \in Lanes : WriterResume(l)
  <2>1. PICK l \in Lanes : WriterResume(l)
    BY <1>4
  <2>2. writers[l] \in Seq(Items) /\ Len(writers[l]) > 0
    BY <2>1 DEF WriterResume, SuspendedBlocked
  <2>3. Head(writers[l]) = writers[l][1] /\ 1 \in 1 .. Len(writers[l])
    BY <2>2
  <2>4. Head(writers[l]) \in Items /\ stage[Head(writers[l])] = "blocked"
    BY <2>2, <2>3 DEF SuspendedBlocked
  <2> QED
    BY <1>1, <2>1, <2>4 DEF WriterResume
<1>5. CASE \E j \in Items : HandlerReturns(j) \/ (HandlerThrows(j) /\ CatchExceptions)
  <2>1. PICK j \in Items : HandlerReturns(j) \/ (HandlerThrows(j) /\ CatchExceptions)
    BY <1>5
  <2>2. /\ stage[j] = "running" /\ laneOf[j] \in Lanes
        /\ [stage EXCEPT ![j] = "handled"] \in [Items -> Stages]
        /\ [stage EXCEPT ![j] = "faulted"] \in [Items -> Stages]
    BY <2>1 DEF HandlerReturns, HandlerThrows, Routed, Stages
  <2>3. PICK st \in [Items -> Stages] :
          /\ ReadNext(laneOf[j], st)
          /\ st = [stage EXCEPT ![j] = "handled"] \/ st = [stage EXCEPT ![j] = "faulted"]
    BY <2>1, <2>2 DEF HandlerReturns, HandlerThrows
  <2>4. \A k \in Items : \/ st[k] = stage[k]
                         \/ stage[k] = "running" /\ st[k] \in {"handled", "faulted"}
    BY <2>2, <2>3
  <2> QED
    BY <1>2, <2>2, <2>3, <2>4
<1>6. CASE \E l \in Lanes : ReaderResume(l)
  BY <1>2, <1>6 DEF ReaderResume
<1>7. CASE \E j \in Items : \/ AbortWaiting(j) \/ AbortUnheard(j) \/ EnqueueRejected(j)
                            \/ HandleStart(j) \/ (HandlerThrows(j) /\ ~CatchExceptions)
  BY <1>7 DEF AbortWaiting, AbortUnheard, EnqueueRejected, HandleStart, HandlerThrows
<1>8. CASE UNCHANGED stage
  BY <1>8
<1> QED
  BY <1>3, <1>4, <1>5, <1>6, <1>7, <1>8
     DEF Next, vars, LaneExit, DrainBegin, DrainEnd, DrainLanesBegin, DrainLanesEnd

\* An item leaves "new" only by its call, made when the earlier calls of its
\* key have settled.
LEMMA CallsInOrder ==
  ASSUME LaneInv, [Next]_vars, SequentialPerKey, NEW i \in Items, NEW j \in Items,
         Before(i, j), stage[j] = "new", stage'[j] # "new"
  PROVE  stage[i] \notin {"new", "blocked", "rejecting"} /\ stage'[j] \notin Started
<1> USE DEF LaneInv, TypeOK
<1>1. ASSUME NEW l \in Lanes, NEW st \in [Items -> Stages], ReadNext(l, st),
             st[j] = "new"
      PROVE  FALSE
  <2>1. slot[l] # NoItem => stage[slot[l]] = "queued"
    BY DEF SlotQueued
  <2> QED
    BY <1>1, <2>1 DEF ReadNext
<1>2. CASE \E k \in Items : Enqueue(k)
  <2>1. PICK k \in Items : Enqueue(k)
    BY <1>2
  <2>2. Route(k) \in Lanes /\ Write(Route(k), k, writers[Route(k)])
    BY <2>1, RouteInLanes DEF Enqueue
  <2>3. k = j /\ stage'[j] \in {"queued", "blocked", "rejecting"}
    BY <2>2, WriteStages
  <2>4. i \in 1 .. (j - 1)
    BY DEF Before, Items
  <2> QED
    BY <2>1, <2>3, <2>4 DEF Enqueue, Before, Started
<1>3. CASE \E l \in Lanes : WriterResume(l)
  <2>1. PICK l \in Lanes : WriterResume(l)
    BY <1>3
  <2>2. writers[l] \in Seq(Items) /\ Len(writers[l]) > 0
    BY <2>1 DEF WriterResume, SuspendedBlocked
  <2>3. Head(writers[l]) = writers[l][1] /\ 1 \in 1 .. Len(writers[l])
    BY <2>2
  <2>4. Head(writers[l]) \in Items /\ stage[Head(writers[l])] = "blocked"
    BY <2>2, <2>3 DEF SuspendedBlocked
  <2> QED
    BY <2>1, <2>4, WriteStages DEF WriterResume
<1>4. CASE \E k \in Items : HandlerReturns(k) \/ (HandlerThrows(k) /\ CatchExceptions)
  <2>1. PICK k \in Items : HandlerReturns(k) \/ (HandlerThrows(k) /\ CatchExceptions)
    BY <1>4
  <2>2. /\ stage[k] = "running" /\ laneOf[k] \in Lanes
        /\ [stage EXCEPT ![k] = "handled"] \in [Items -> Stages]
        /\ [stage EXCEPT ![k] = "faulted"] \in [Items -> Stages]
    BY <2>1 DEF HandlerReturns, HandlerThrows, Routed, Stages
  <2> QED
    BY <1>1, <2>1, <2>2 DEF HandlerReturns, HandlerThrows
<1>5. CASE \E l \in Lanes : ReaderResume(l)
  BY <1>1, <1>5 DEF ReaderResume
<1>6. CASE \E k \in Items : \/ AbortWaiting(k) \/ AbortUnheard(k) \/ EnqueueRejected(k)
                            \/ HandleStart(k) \/ (HandlerThrows(k) /\ ~CatchExceptions)
  BY <1>6 DEF AbortWaiting, AbortUnheard, EnqueueRejected, HandleStart, HandlerThrows
<1>7. CASE UNCHANGED stage
  BY <1>7
<1> QED
  BY <1>2, <1>3, <1>4, <1>5, <1>6, <1>7
     DEF Next, vars, LaneExit, DrainBegin, DrainEnd, DrainLanesBegin, DrainLanesEnd

\* An item is started only from the slot, by a consumer that holds no other
\* item of the lane once it has.
LEMMA TakesInOrder ==
  ASSUME LaneInv, [Next]_vars, NEW j \in Items,
         stage[j] # "new", stage[j] \notin Started, stage'[j] \in Started
  PROVE  \A i \in Items \ {j} : laneOf[i] = laneOf[j] => stage'[i] \notin Accepted
<1> USE DEF LaneInv, TypeOK
<1>1. ASSUME NEW l \in Lanes, NEW st \in [Items -> Stages], ReadNext(l, st),
             \A i \in Items : st[i] # stage[i] => st[i] \in {"handled", "faulted"},
             \A i \in Items : laneOf[i] = l => st[i] \notin InFlight,
             st[j] = stage[j]
      PROVE  \A i \in Items \ {j} : laneOf[i] = laneOf[j] => stage'[i] \notin Accepted
  <2>1. slot[l] # NoItem /\ slot[l] = j /\ laneOf[j] = l
    BY <1>1 DEF ReadNext, SlotQueued
  <2>2. stage' = [st EXCEPT ![j] = "taken"]
    BY <1>1, <2>1 DEF ReadNext
  <2>3. ASSUME NEW i \in Items \ {j}, laneOf[i] = l
        PROVE  st[i] # "queued"
    BY <1>1, <2>1, <2>3 DEF LaneSerial
  <2> QED
    BY <1>1, <2>1, <2>2, <2>3 DEF Accepted, InFlight
<1>2. CASE \E k \in Items : Enqueue(k)
  <2>1. PICK k \in Items : Enqueue(k)
    BY <1>2
  <2>2. Route(k) \in Lanes /\ Write(Route(k), k, writers[Route(k)])
    BY <2>1, RouteInLanes DEF Enqueue
  <2> QED
    BY <2>2, WriteStages DEF Started
<1>3. CASE \E l \in Lanes : WriterResume(l)
  <2>1. PICK l \in Lanes : WriterResume(l)
    BY <1>3
  <2>2. writers[l] \in Seq(Items) /\ Len(writers[l]) > 0
    BY <2>1 DEF WriterResume, SuspendedBlocked
  <2>3. Head(writers[l]) \in Items
    BY <2>2
  <2> QED
    BY <2>1, <2>3, WriteStages DEF WriterResume, Started
<1>4. CASE \E k \in Items : HandlerReturns(k) \/ (HandlerThrows(k) /\ CatchExceptions)
  <2>1. PICK k \in Items : HandlerReturns(k) \/ (HandlerThrows(k) /\ CatchExceptions)
    BY <1>4
  <2>2. /\ stage[k] = "running" /\ laneOf[k] \in Lanes /\ k # j
        /\ [stage EXCEPT ![k] = "handled"] \in [Items -> Stages]
        /\ [stage EXCEPT ![k] = "faulted"] \in [Items -> Stages]
    BY <2>1 DEF HandlerReturns, HandlerThrows, Routed, Stages, Started
  <2>3. \A i \in Items \ {k} : laneOf[i] = laneOf[k] => stage[i] \notin InFlight
    BY <2>2 DEF LaneSerial, InFlight
  <2>4. PICK st \in [Items -> Stages] :
          /\ ReadNext(laneOf[k], st)
          /\ st = [stage EXCEPT ![k] = "handled"] \/ st = [stage EXCEPT ![k] = "faulted"]
    BY <2>1, <2>2 DEF HandlerReturns, HandlerThrows
  <2>5. /\ \A i \in Items \ {k} : st[i] = stage[i]
        /\ st[k] \in {"handled", "faulted"}
    BY <2>4
  <2>6. \A i \in Items : laneOf[i] = laneOf[k] => st[i] \notin InFlight
    BY <2>3, <2>5 DEF InFlight
  <2>7. st[j] = stage[j] /\ \A i \in Items : st[i] # stage[i] => st[i] \in {"handled", "faulted"}
    BY <2>2, <2>5
  <2>8. ReadNext(laneOf[k], st)
    BY <2>4
  <2> QED
    BY ONLY <1>1, <2>2, <2>6, <2>7, <2>8
<1>5. CASE \E l \in Lanes : ReaderResume(l)
  <2>1. PICK l \in Lanes : ReaderResume(l)
    BY <1>5
  <2>2. \A i \in Items : laneOf[i] = l => stage[i] \notin InFlight
    BY <2>1 DEF ReaderResume, InFlightBusy
  <2> QED
    BY <1>1, <2>1, <2>2 DEF ReaderResume
<1>6. CASE \E k \in Items : \/ AbortWaiting(k) \/ AbortUnheard(k) \/ EnqueueRejected(k)
                            \/ HandleStart(k) \/ (HandlerThrows(k) /\ ~CatchExceptions)
  BY <1>6 DEF AbortWaiting, AbortUnheard, EnqueueRejected, HandleStart, HandlerThrows, Started
<1>7. CASE UNCHANGED stage
  BY <1>7
<1> QED
  BY <1>2, <1>3, <1>4, <1>5, <1>6, <1>7
     DEF Next, vars, LaneExit, DrainBegin, DrainEnd, DrainLanesBegin, DrainLanesEnd

\* laneFor is a function of the key.
LEMMA LanesByKeyStep == LaneInv /\ LanesByKey /\ [Next]_vars => LanesByKey'
<1> SUFFICES ASSUME LaneInv, LanesByKey, [Next]_vars, Keyed, NEW i \in Items, stage'[i] # "new"
             PROVE  laneOf'[i] = LaneForKey(KeyOf[i])
  BY DEF LanesByKey
<1>1. CASE Enqueue(i)
  BY <1>1 DEF Enqueue, Route, LaneInv, TypeOK
<1>2. CASE ~Enqueue(i)
  <2>1. laneOf'[i] = laneOf[i]
    BY <1>2 DEF Next, vars, Enqueue, AbortWaiting, AbortUnheard, EnqueueRejected, HandleStart,
       HandlerReturns, HandlerThrows, WriterResume, ReaderResume, LaneExit, DrainBegin,
       DrainEnd, DrainLanesBegin, DrainLanesEnd, LaneInv, TypeOK
  <2>2. stage[i] # "new"
    <3> SUFFICES ASSUME stage[i] = "new" PROVE FALSE
      OBVIOUS
    <3> USE DEF LaneInv, TypeOK
    <3>1. ASSUME NEW l \in Lanes, NEW st \in [Items -> Stages], ReadNext(l, st), st[i] = "new"
          PROVE  FALSE
      BY <3>1 DEF ReadNext, SlotQueued
    <3>2. CASE \E k \in Items : Enqueue(k)
      <4>1. PICK k \in Items : Enqueue(k)
        BY <3>2
      <4>2. Route(k) \in Lanes /\ Write(Route(k), k, writers[Route(k)]) /\ k # i
        BY <1>2, <4>1, RouteInLanes DEF Enqueue
      <4> QED
        BY <4>2, WriteStages
    <3>3. CASE \E l \in Lanes : WriterResume(l)
      <4>1. PICK l \in Lanes : WriterResume(l)
        BY <3>3
      <4>2. writers[l] \in Seq(Items) /\ Len(writers[l]) > 0
        BY <4>1 DEF WriterResume, SuspendedBlocked
      <4>3. Head(writers[l]) = writers[l][1] /\ 1 \in 1 .. Len(writers[l])
        BY <4>2
      <4>4. Head(writers[l]) \in Items /\ stage[Head(writers[l])] = "blocked"
        BY <4>2, <4>3 DEF SuspendedBlocked
      <4> QED
        BY <4>1, <4>4, WriteStages DEF WriterResume
    <3>4. CASE \E k \in Items : HandlerReturns(k) \/ (HandlerThrows(k) /\ CatchExceptions)
      <4>1. PICK k \in Items : HandlerReturns(k) \/ (HandlerThrows(k) /\ CatchExceptions)
        BY <3>4
      <4>2. /\ stage[k] = "running" /\ laneOf[k] \in Lanes
            /\ [stage EXCEPT ![k] = "handled"] \in [Items -> Stages]
            /\ [stage EXCEPT ![k] = "faulted"] \in [Items -> Stages]
        BY <4>1 DEF HandlerReturns, HandlerThrows, Routed, Stages
      <4> QED
        BY <3>1, <4>1, <4>2 DEF HandlerReturns, HandlerThrows
    <3>5. CASE \E l \in Lanes : ReaderResume(l)
      BY <3>1, <3>5 DEF ReaderResume
    <3>6. CASE \E k \in Items : \/ AbortWaiting(k) \/ AbortUnheard(k) \/ EnqueueRejected(k)
                                \/ HandleStart(k) \/ (HandlerThrows(k) /\ ~CatchExceptions)
      BY <3>6 DEF AbortWaiting, AbortUnheard, EnqueueRejected, HandleStart, HandlerThrows
    <3>7. CASE UNCHANGED stage
      BY <3>7
    <3> QED
      BY <1>2, <3>2, <3>3, <3>4, <3>5, <3>6, <3>7
         DEF Next, vars, LaneExit, DrainBegin, DrainEnd, DrainLanesBegin, DrainLanesEnd
  <2> QED
    BY <2>1, <2>2 DEF LanesByKey
<1> QED
  BY <1>1, <1>2

\* The keySelector's promise, for every selector, number of lanes and of
\* items, when the callers of a key await their calls: no two handlers of a
\* key overlap, and none starts before those of the earlier calls.
THEOREM DispatcherPerKeyFifo ==
  ASSUME SequentialPerKey
  PROVE  Spec => []PerKeyFifo
<1>1. Init => LanesByKey /\ KeyInOrder
  BY DEF Init, LanesByKey, KeyInOrder, Started
<1>2. LaneInv /\ LanesByKey /\ KeyInOrder /\ [Next]_vars => KeyInOrder'
  <2> SUFFICES ASSUME LaneInv, LanesByKey, KeyInOrder, [Next]_vars, Keyed,
                      NEW i \in Items, NEW j \in Items, Before(i, j)
               PROVE  /\ stage'[j] # "new" => stage'[i] \notin {"new", "blocked", "rejecting"}
                      /\ stage'[j] \in Started => stage'[i] \in {"handled", "faulted", "refused"}
    BY DEF KeyInOrder, Before
  <2>1. stage \in [Items -> Stages] /\ stage' \in [Items -> Stages] /\ i # j
    BY TypeStep DEF LaneInv, TypeOK, Before, Items
  <2>2. ASSUME stage'[j] # "new"
        PROVE  stage'[i] \notin {"new", "blocked", "rejecting"}
    BY <2>2, CallsInOrder, SettledStays DEF KeyInOrder
  <2>3. ASSUME stage'[j] \in Started
        PROVE  stage'[i] \in {"handled", "faulted", "refused"}
    <3>1. CASE stage[j] \in Started
      BY <3>1, SettledStays DEF KeyInOrder
    <3>2. CASE stage[j] = "new"
      BY <2>3, <3>2, CallsInOrder DEF Started
    <3>3. CASE stage[j] # "new" /\ stage[j] \notin Started
      <4>1. stage[i] # "new" /\ laneOf[i] = laneOf[j]
        BY <3>3 DEF KeyInOrder, LanesByKey, Before
      <4>2. stage'[i] \notin Accepted
        BY <2>1, <2>3, <3>3, <4>1, TakesInOrder
      <4>3. stage'[i] \notin {"new", "blocked", "rejecting"}
        BY <2>2, <2>3 DEF Started
      <4> QED
        BY <2>1, <4>2, <4>3 DEF Stages, Accepted
    <3> QED
      BY <3>1, <3>2, <3>3
  <2> QED
    BY <2>2, <2>3
<1>3. KeyInOrder => PerKeyFifo
  BY DEF KeyInOrder, PerKeyFifo, Before
<1> QED
  BY <1>1, <1>2, <1>3, LanesByKeyStep, LaneInvariance, PTL DEF Spec
=============================================================================
