------------------------ MODULE StreamWorkers_proofs ------------------------
(***************************************************************************)
(* Type correctness, DurableCovered and ReplayBounded, for any partitions, *)
(* numbers of events, batches, configurations, restarts, failing stores    *)
(* and rebalances.  The position a partition has reached may lie behind a  *)
(* failed event only once its callback has stopped the worker; CoverInv    *)
(* says when it does not.  How much a crash repeats is told by the count   *)
(* of what was not stored, which survives a rebalance (ReplayInv).         *)
(***************************************************************************)
EXTENDS StreamWorkers, FiniteSetTheorems, TLAPS

Modes == {"idle", "handling", "storing"}
Histories == [Partitions -> SUBSET Nat]

\* Positions and batches stay within what was published, and a callback that
\* awaits something is before the end of its batch.
Bounded ==
  \A p \in Partitions :
    /\ position[p] <= Published(p) /\ batchEnd[p] <= Published(p)
    /\ pc[p] # "idle" => position[p] < batchEnd[p]

TypeInv ==
  /\ TypeOK /\ Bounded
  /\ attempted \in Histories /\ handled \in Histories /\ skipped \in Histories

\* The first n events of a partition were handled, or skipped by configuration.
Covered(p, n) == 1 .. n \subseteq handled[p] \cup skipped[p]

Guarded == Exacting \/ config.catch \/ config.atMostOnce

\* The position of p is one its callback reached event by event.
Held(p) == config.catch \/ config.atMostOnce \/ pc[p] # "idle" \/ subscription = "open"

PartitionCovered(p) ==
  /\ Covered(p, durable[p])
  /\ Held(p) => Covered(p, position[p])
  /\ pc[p] = "storing" => Covered(p, position[p] + 1)

CoverInv == Guarded => \A p \in Partitions : PartitionCovered(p)

-----------------------------------------------------------------------------
(* Types.                                                                  *)

\* Nothing is stored, delivered or handled at first.
LEMMA TypeInit == Init => TypeInv
<1> SUFFICES ASSUME Init PROVE TypeInv
  OBVIOUS
<1> USE StreamAssumption DEF StreamAssumption
<1>1. \A p \in Partitions : Published(p) \in Nat
  OBVIOUS
<1>2. Bounded
  BY <1>1 DEF Init, Nothing, Bounded
<1>3. /\ attempted \in Histories /\ handled \in Histories /\ skipped \in Histories
      /\ \A p \in Partitions : attempted[p] \cup handled[p] \cup skipped[p] \subseteq Events(p)
  BY DEF Init, NoEvents, Histories
<1>4. /\ durable \in [Partitions -> Nat] /\ position \in [Partitions -> Nat]
      /\ batchEnd \in [Partitions -> Nat] /\ seen \in [Partitions -> Nat]
      /\ \A p \in Partitions : durable[p] \in 0 .. Published(p)
  BY <1>1 DEF Init, Nothing
<1>5. /\ config \in Configs
      /\ pc \in [Partitions -> Modes]
      /\ subscription \in {"open", "closing", "closed"}
      /\ restarts \in Nat /\ rejects \in Nat /\ rebalances \in Nat
  BY DEF Init, Modes
<1> QED
  BY <1>2, <1>3, <1>4, <1>5 DEF TypeInv, TypeOK, Modes

\* The end of an event moves a callback on within its batch.
LEMMA AdvanceType ==
  ASSUME TypeInv, NEW p \in Partitions, pc[p] # "idle", Advance(p), UNCHANGED batchEnd
  PROVE  /\ position' \in [Partitions -> Nat]
         /\ pc' \in [Partitions -> Modes]
         /\ Bounded'
<1>1. /\ position \in [Partitions -> Nat] /\ batchEnd \in [Partitions -> Nat]
      /\ pc \in [Partitions -> Modes]
      /\ \A q \in Partitions : Published(q) \in Nat
  BY StreamAssumption DEF StreamAssumption, TypeInv, TypeOK, Modes
<1>2. /\ position' = [position EXCEPT ![p] = position[p] + 1]
      /\ pc' = [pc EXCEPT ![p] = IF position'[p] = batchEnd[p] THEN "idle" ELSE "handling"]
  BY DEF Advance
<1>3. position' \in [Partitions -> Nat] /\ pc' \in [Partitions -> Modes]
  BY <1>1, <1>2 DEF Modes
<1>4. position[p] < batchEnd[p] /\ batchEnd[p] <= Published(p)
  BY DEF TypeInv, Bounded
<1>5. position'[p] <= batchEnd[p] /\ (pc'[p] # "idle" => position'[p] < batchEnd[p])
  BY <1>1, <1>2, <1>4
<1>6. \A q \in Partitions \ {p} : position'[q] = position[q] /\ pc'[q] = pc[q]
  BY <1>1, <1>2
<1>7. Bounded'
  <2> SUFFICES ASSUME NEW q \in Partitions
               PROVE  /\ position'[q] <= Published(q) /\ batchEnd[q] <= Published(q)
                      /\ pc'[q] # "idle" => position'[q] < batchEnd[q]
    BY DEF Bounded
  <2>1. CASE q = p
    BY <1>1, <1>3, <1>4, <1>5, <2>1
  <2>2. CASE q # p
    BY <1>6, <2>2 DEF TypeInv, Bounded
  <2> QED
    BY <2>1, <2>2
<1> QED
  BY <1>3, <1>7

\* What an acknowledged event changes keeps its type.
LEMMA AcknowledgeType ==
  ASSUME TypeInv, NEW p \in Partitions, pc[p] # "idle", Acknowledge(p), UNCHANGED batchEnd
  PROVE  /\ position' \in [Partitions -> Nat] /\ seen' \in [Partitions -> Nat]
         /\ pc' \in [Partitions -> Modes]
         /\ Bounded'
<1>1. seen' \in [Partitions -> Nat]
  BY DEF Acknowledge, TypeInv, TypeOK
<1>2. CASE Advance(p)
  BY <1>1, <1>2, AdvanceType
<1>3. CASE pc' = [pc EXCEPT ![p] = "storing"] /\ UNCHANGED position
  <2>1. position' \in [Partitions -> Nat] /\ pc' \in [Partitions -> Modes]
    BY <1>3 DEF TypeInv, TypeOK, Modes
  <2>2. Bounded'
    BY <1>3 DEF TypeInv, TypeOK, Bounded
  <2> QED
    BY <1>1, <2>1, <2>2
<1> QED
  BY <1>2, <1>3 DEF Acknowledge

\* Every step of a callback, a client and the worker.
LEMMA TypeStep == TypeInv /\ [Next]_vars => TypeInv'
<1> SUFFICES ASSUME TypeInv, [Next]_vars PROVE TypeInv'
  OBVIOUS
<1>0. /\ durable \in [Partitions -> Nat] /\ position \in [Partitions -> Nat]
      /\ batchEnd \in [Partitions -> Nat] /\ seen \in [Partitions -> Nat]
      /\ \A p \in Partitions : durable[p] \in 0 .. Published(p)
      /\ pc \in [Partitions -> Modes]
      /\ \A p \in Partitions : Published(p) \in Nat
  BY StreamAssumption DEF StreamAssumption, TypeInv, TypeOK, Modes
<1>1. ASSUME NEW p \in Partitions, Deliver(p)
      PROVE  TypeInv'
  <2>1. PICK n \in 1 .. (IF EventHub THEN MaxBatch ELSE 1) :
          /\ position[p] + n \in Events(p)
          /\ batchEnd' = [batchEnd EXCEPT ![p] = position[p] + n]
    BY <1>1 DEF Deliver
  <2>2. /\ pc' = [pc EXCEPT ![p] = "handling"]
        /\ UNCHANGED <<config, durable, position, seen, subscription, attempted, handled, skipped,
                       restarts, rejects, rebalances>>
    BY <1>1 DEF Deliver, history, budget
  <2>3. n \in Nat \ {0} /\ position[p] + n \in 1 .. Published(p)
    BY <2>1, StreamAssumption DEF StreamAssumption, Events
  <2>4. batchEnd' \in [Partitions -> Nat] /\ pc' \in [Partitions -> Modes]
    BY <1>0, <2>1, <2>2, <2>3 DEF Modes
  <2>5. Bounded'
    BY <1>0, <2>1, <2>2, <2>3 DEF Bounded, TypeInv
  <2> QED
    BY <2>2, <2>4, <2>5 DEF TypeInv, TypeOK, Modes
<1>2. ASSUME NEW p \in Partitions, NEW outcome \in Outcomes, HandlerEnds(p, outcome)
      PROVE  TypeInv'
  <2> DEFINE e == position[p] + 1
  <2>1. /\ pc[p] = "handling"
        /\ attempted' = [attempted EXCEPT ![p] = @ \cup {e}]
        /\ \/ handled' = handled
           \/ handled' = [handled EXCEPT ![p] = @ \cup {e}]
        /\ \/ skipped' = skipped
           \/ skipped' = [skipped EXCEPT ![p] = @ \cup {e}]
        /\ UNCHANGED <<config, durable, batchEnd, restarts, rejects, rebalances>>
    <3>1. /\ pc[p] = "handling"
          /\ attempted' = [attempted EXCEPT ![p] = @ \cup {e}]
          /\ UNCHANGED <<config, durable, batchEnd, restarts, rejects, rebalances>>
      BY <1>2 DEF HandlerEnds, budget
    <3>2. \/ handled' = handled
          \/ handled' = [handled EXCEPT ![p] = @ \cup {e}]
      <4>1. handled' = [handled EXCEPT ![p] = IF Failed(outcome) THEN @ ELSE @ \cup {e}]
        BY <1>2 DEF HandlerEnds
      <4> QED
        BY <4>1 DEF TypeInv, Histories
    <3>3. \/ skipped' = skipped
          \/ skipped' = [skipped EXCEPT ![p] = @ \cup {e}]
      <4>1. \/ skipped' = [skipped EXCEPT ![p] = IF Failed(outcome) THEN @ \cup {e} ELSE @]
            \/ skipped' = skipped
            \/ skipped' = [skipped EXCEPT ![p] = @ \cup {e}]
        BY <1>2 DEF HandlerEnds
      <4> QED
        BY <4>1 DEF TypeInv, Histories
    <3> QED
      BY <3>1, <3>2, <3>3
  <2>2. e \in Events(p) /\ e \in Nat
    BY <1>0, <2>1 DEF Events, TypeInv, Bounded
  <2> HIDE DEF e
  <2>3. attempted' \in Histories /\ handled' \in Histories /\ skipped' \in Histories
    BY <2>1, <2>2 DEF TypeInv, Histories
  <2>4. \A q \in Partitions : attempted'[q] \cup handled'[q] \cup skipped'[q] \subseteq Events(q)
    <3>1. \A q \in Partitions : attempted[q] \cup handled[q] \cup skipped[q] \subseteq Events(q)
      BY DEF TypeInv, TypeOK
    <3> QED
      BY <2>1, <2>2, <3>1 DEF TypeInv, Histories
  <2>5. /\ position' \in [Partitions -> Nat] /\ seen' \in [Partitions -> Nat]
        /\ pc' \in [Partitions -> Modes]
        /\ Bounded'
    <3>1. CASE Acknowledge(p)
      BY <2>1, <3>1, AcknowledgeType
    <3>2. CASE Skip(p) /\ UNCHANGED seen
      BY <1>0, <2>1, <3>2, AdvanceType DEF Skip
    <3>3. CASE InitiateStop(p) /\ UNCHANGED seen
      <4>1. /\ position' = [position EXCEPT ![p] = batchEnd[p]]
            /\ pc' = [pc EXCEPT ![p] = "idle"]
            /\ UNCHANGED <<batchEnd, seen>>
        BY <2>1, <3>3 DEF InitiateStop
      <4>2. Bounded'
        BY <1>0, <4>1 DEF Bounded, TypeInv
      <4> QED
        BY <1>0, <4>1, <4>2 DEF Modes
    <3> QED
      BY <1>2, <3>1, <3>2, <3>3 DEF HandlerEnds
  <2>6. subscription' \in {"open", "closing", "closed"}
    BY <1>2 DEF HandlerEnds, InitiateStop, TypeInv, TypeOK
  <2> QED
    BY <2>1, <2>3, <2>4, <2>5, <2>6 DEF TypeInv, TypeOK, Modes
<1>3. ASSUME NEW p \in Partitions, StoreResolves(p)
      PROVE  TypeInv'
  <2>1. /\ pc[p] = "storing"
        /\ durable' = [durable EXCEPT ![p] = position[p] + 1]
        /\ seen' = [seen EXCEPT ![p] = 0]
        /\ Advance(p)
        /\ UNCHANGED <<config, batchEnd, subscription, attempted, handled, skipped,
                       restarts, rejects, rebalances>>
    BY <1>3 DEF StoreResolves, history, budget
  <2>2. position[p] + 1 \in 0 .. Published(p)
    BY <1>0, <2>1 DEF TypeInv, Bounded
  <2>3. /\ durable' \in [Partitions -> Nat] /\ seen' \in [Partitions -> Nat]
        /\ \A q \in Partitions : durable'[q] \in 0 .. Published(q)
    BY <1>0, <2>1, <2>2
  <2>4. /\ position' \in [Partitions -> Nat] /\ pc' \in [Partitions -> Modes]
        /\ Bounded'
    BY <2>1, AdvanceType
  <2> QED
    BY <2>1, <2>3, <2>4 DEF TypeInv, TypeOK, Modes
<1>4. ASSUME NEW p \in Partitions, StoreRejects(p)
      PROVE  TypeInv'
  <2>1. /\ pc[p] = "storing"
        /\ durable' \in {durable, [durable EXCEPT ![p] = position[p] + 1]}
        /\ position' \in {position, [position EXCEPT ![p] = durable'[p]]}
        /\ pc' = [pc EXCEPT ![p] = "idle"]
        /\ rejects' = rejects + 1
        /\ UNCHANGED <<config, batchEnd, seen, subscription, attempted, handled, skipped,
                       restarts, rebalances>>
    BY <1>4 DEF StoreRejects, history
  <2>2. position[p] + 1 \in 0 .. Published(p)
    BY <1>0, <2>1 DEF TypeInv, Bounded
  <2>3. /\ durable' \in [Partitions -> Nat]
        /\ \A q \in Partitions : durable'[q] \in 0 .. Published(q)
    BY <1>0, <2>1, <2>2
  <2>4. position' \in [Partitions -> Nat] /\ pc' \in [Partitions -> Modes]
    BY <1>0, <2>1, <2>3 DEF Modes
  <2>5. Bounded'
    BY <1>0, <2>1, <2>3 DEF Bounded, TypeInv
  <2>6. rejects' \in Nat
    BY <2>1 DEF TypeInv, TypeOK
  <2> QED
    BY <2>1, <2>3, <2>4, <2>5, <2>6 DEF TypeInv, TypeOK, Modes
<1>5. ASSUME NEW p \in Partitions, AutoCommits(p)
      PROVE  TypeInv'
  <2>1. /\ durable' = [durable EXCEPT ![p] = position[p]]
        /\ UNCHANGED <<config, position, batchEnd, pc, seen, subscription, attempted, handled,
                       skipped, restarts, rejects, rebalances>>
    BY <1>5 DEF AutoCommits, history, budget
  <2>2. /\ durable' \in [Partitions -> Nat]
        /\ \A q \in Partitions : durable'[q] \in 0 .. Published(q)
    BY <1>0, <2>1 DEF TypeInv, Bounded
  <2> QED
    BY <2>1, <2>2 DEF TypeInv, TypeOK, Bounded
<1>6. ASSUME NEW p \in Partitions, Rebalance(p)
      PROVE  TypeInv'
  <2>1. /\ pc[p] = "idle"
        /\ position' = [position EXCEPT ![p] = durable[p]]
        /\ rebalances' = rebalances + 1
        /\ UNCHANGED <<config, durable, batchEnd, pc, seen, subscription, attempted, handled,
                       skipped, restarts, rejects>>
    BY <1>6 DEF Rebalance, history
  <2>2. position' \in [Partitions -> Nat] /\ Bounded' /\ rebalances' \in Nat
    BY <1>0, <2>1 DEF Bounded, TypeInv, TypeOK
  <2> QED
    BY <2>1, <2>2 DEF TypeInv, TypeOK
<1>7. ASSUME StopBegins \/ CloseEnds \/ UNCHANGED vars
      PROVE  TypeInv'
  <2>1. /\ UNCHANGED <<config, durable, position, batchEnd, pc, seen, attempted, handled, skipped,
                       restarts, rejects, rebalances>>
        /\ subscription' \in {"open", "closing", "closed"}
    BY <1>7 DEF StopBegins, CloseEnds, vars, history, budget, TypeInv, TypeOK
  <2> QED
    BY <2>1 DEF TypeInv, TypeOK, Bounded
<1>8. CASE Restart
  <2>1. /\ restarts' = restarts + 1
        /\ position' = durable /\ batchEnd' = durable
        /\ pc' = [p \in Partitions |-> "idle"]
        /\ seen' = [p \in Partitions |-> 0]
        /\ subscription' = "open"
        /\ UNCHANGED <<config, durable, attempted, handled, skipped, rejects, rebalances>>
    BY <1>8 DEF Restart, history
  <2>2. Bounded' /\ seen' \in [Partitions -> Nat] /\ pc' \in [Partitions -> Modes] /\ restarts' \in Nat
    BY <1>0, <2>1 DEF Bounded, TypeInv, TypeOK, Modes
  <2> QED
    BY <1>0, <2>1, <2>2 DEF TypeInv, TypeOK, Modes
<1> QED
  BY <1>1, <1>2, <1>3, <1>4, <1>5, <1>6, <1>7, <1>8 DEF Next, SomeEnd

\* The stream workers' variables keep their types in every reachable state.
THEOREM StreamTypeOK == Spec => []TypeOK
<1>1. TypeInv => TypeOK
  BY DEF TypeInv
<1> QED
  BY <1>1, TypeInit, TypeStep, PTL DEF Spec

-----------------------------------------------------------------------------
(* Coverage.                                                               *)

\* One more event in order.
LEMMA CoveredNext ==
  ASSUME NEW n \in Nat, NEW S, 1 .. n \subseteq S, n + 1 \in S
  PROVE  1 .. (n + 1) \subseteq S
<1>1. \A k \in 1 .. (n + 1) : k \in 1 .. n \/ k = n + 1
  OBVIOUS
<1> QED
  BY <1>1

\* A partition keeps its coverage while its events only grow and nothing makes
\* its callback's position hold.
LEMMA PartitionKept ==
  ASSUME NEW p \in Partitions, PartitionCovered(p), UNCHANGED config,
         handled[p] \subseteq handled'[p], skipped[p] \subseteq skipped'[p],
         durable'[p] = durable[p], position'[p] = position[p], pc'[p] = pc[p],
         subscription' = "open" => subscription = "open"
  PROVE  PartitionCovered(p)'
BY DEF PartitionCovered, Covered, Held

\* After the end of an event that is covered, the callback is through with it.
LEMMA AdvanceCovered ==
  ASSUME TypeInv, NEW p \in Partitions, Advance(p), UNCHANGED config,
         Covered(p, durable[p]), Covered(p, position[p] + 1),
         durable'[p] \in {durable[p], position[p] + 1},
         handled'[p] = handled[p], skipped'[p] = skipped[p]
  PROVE  PartitionCovered(p)'
<1>1. position'[p] = position[p] + 1 /\ pc'[p] \in {"idle", "handling"}
  BY DEF Advance, TypeInv, TypeOK
<1> QED
  BY <1>1 DEF PartitionCovered, Covered, Held

\* No step lets the stored position pass an event that is not covered.
LEMMA CoverStep == TypeInv /\ CoverInv /\ [Next]_vars => CoverInv'
<1> SUFFICES ASSUME TypeInv, CoverInv, [Next]_vars, Guarded', NEW q \in Partitions
             PROVE  PartitionCovered(q)'
  BY DEF CoverInv
<1>0. /\ durable \in [Partitions -> Nat] /\ position \in [Partitions -> Nat]
      /\ pc \in [Partitions -> Modes]
      /\ handled \in Histories /\ skipped \in Histories
  BY DEF TypeInv, TypeOK, Modes
<1>a. UNCHANGED config
  BY DEF Next, SomeEnd, Deliver, HandlerEnds, StoreResolves, StoreRejects, AutoCommits, Rebalance,
         StopBegins, CloseEnds, Restart, vars
<1>b. Guarded /\ PartitionCovered(q)
  BY <1>a DEF CoverInv, Guarded, Exacting, AutoCommit, EventHub
<1>1. ASSUME NEW p \in Partitions, Deliver(p)
      PROVE  PartitionCovered(q)'
  <2>1. /\ subscription = "open" \/ ~config.stopsAtOnce
        /\ pc' = [pc EXCEPT ![p] = "handling"]
        /\ UNCHANGED <<durable, position, subscription, handled, skipped>>
    BY <1>1 DEF Deliver, history
  <2>2. CASE q = p
    <3>1. Held(p)
      BY <1>b, <2>1 DEF Guarded, Exacting, Held
    <3>2. pc'[p] = "handling"
      BY <1>0, <2>1
    <3> QED
      BY <1>a, <1>b, <2>1, <2>2, <3>1, <3>2 DEF PartitionCovered, Covered, Held
  <2>3. CASE q # p
    BY <1>0, <1>a, <1>b, <2>1, <2>3, PartitionKept
  <2> QED
    BY <2>2, <2>3
<1>2. ASSUME NEW p \in Partitions, NEW outcome \in Outcomes, HandlerEnds(p, outcome)
      PROVE  PartitionCovered(q)'
  <2> DEFINE e == position[p] + 1
  <2>1. /\ pc[p] = "handling"
        /\ handled' = [handled EXCEPT ![p] = IF Failed(outcome) THEN @ ELSE @ \cup {e}]
        /\ UNCHANGED durable
        /\ \/ /\ ~Failed(outcome) \/ config.atMostOnce
              /\ Acknowledge(p)
              /\ skipped' = [skipped EXCEPT ![p] = IF Failed(outcome) THEN @ \cup {e} ELSE @]
              /\ UNCHANGED subscription
           \/ /\ Failed(outcome) /\ ~config.atMostOnce /\ ~config.catch
              /\ InitiateStop(p)
              /\ UNCHANGED skipped
           \/ /\ Failed(outcome) /\ config.catch
              /\ Advance(p)
              /\ skipped' = [skipped EXCEPT ![p] = @ \cup {e}]
              /\ UNCHANGED subscription
    BY <1>2 DEF HandlerEnds, Skip
  <2>2. CASE q # p
    <3>1. /\ handled'[q] = handled[q] /\ skipped'[q] = skipped[q]
          /\ position'[q] = position[q] /\ pc'[q] = pc[q]
      BY <1>0, <2>1, <2>2 DEF Acknowledge, Advance, InitiateStop, Histories
    <3>2. subscription' = "open" => subscription = "open"
      BY <2>1 DEF InitiateStop
    <3> QED
      BY <1>a, <1>b, <2>1, <3>1, <3>2, PartitionKept
  <2>3. CASE q = p /\ InitiateStop(p) /\ UNCHANGED skipped
             /\ Failed(outcome) /\ ~config.atMostOnce /\ ~config.catch
    <3>1. pc'[p] = "idle" /\ subscription' # "open"
      BY <1>0, <2>3 DEF InitiateStop
    <3>2. handled'[p] = handled[p] /\ skipped'[p] = skipped[p]
      BY <1>0, <2>1, <2>3 DEF Histories
    <3> QED
      BY <1>a, <1>b, <2>1, <2>3, <3>1, <3>2 DEF PartitionCovered, Covered, Held
  <2>4. CASE /\ q = p /\ (Acknowledge(p) \/ Advance(p))
             /\ e \in handled'[p] \cup skipped'[p]
             /\ handled[p] \subseteq handled'[p] /\ skipped[p] \subseteq skipped'[p]
    <3> DEFINE S == handled'[p] \cup skipped'[p]
    <3>1. 1 .. durable[p] \subseteq S /\ 1 .. position[p] \subseteq S
      BY <1>b, <2>1, <2>4 DEF PartitionCovered, Covered, Held
    <3>2. 1 .. (position[p] + 1) \subseteq S
      <4>1. position[p] \in Nat /\ position[p] + 1 \in S
        BY <1>0, <2>4
      <4> HIDE DEF S
      <4> QED
        BY <3>1, <4>1, CoveredNext
    <3>3. \/ position'[p] = position[p] + 1 /\ pc'[p] # "storing"
          \/ position'[p] = position[p]
      BY <1>0, <2>4 DEF Acknowledge, Advance
    <3> QED
      BY <2>1, <2>4, <3>1, <3>2, <3>3 DEF PartitionCovered, Covered
  <2>5. q = p => \/ InitiateStop(p) /\ UNCHANGED skipped
                    /\ Failed(outcome) /\ ~config.atMostOnce /\ ~config.catch
                 \/ /\ Acknowledge(p) \/ Advance(p)
                    /\ e \in handled'[p] \cup skipped'[p]
                    /\ handled[p] \subseteq handled'[p] /\ skipped[p] \subseteq skipped'[p]
    <3>1. CASE Failed(outcome)
      BY <1>0, <2>1, <3>1 DEF Histories
    <3>2. CASE ~Failed(outcome)
      BY <1>0, <2>1, <3>2 DEF Histories
    <3> QED
      BY <3>1, <3>2
  <2> QED
    BY <2>2, <2>3, <2>4, <2>5
<1>3. ASSUME NEW p \in Partitions, StoreResolves(p)
      PROVE  PartitionCovered(q)'
  <2>1. /\ pc[p] = "storing"
        /\ durable' = [durable EXCEPT ![p] = position[p] + 1]
        /\ Advance(p)
        /\ UNCHANGED <<subscription, handled, skipped>>
    BY <1>3 DEF StoreResolves, history
  <2>2. CASE q = p
    BY <1>0, <1>a, <1>b, <2>1, <2>2, AdvanceCovered DEF PartitionCovered
  <2>3. CASE q # p
    BY <1>0, <1>a, <1>b, <2>1, <2>3, PartitionKept DEF Advance
  <2> QED
    BY <2>2, <2>3
<1>4. ASSUME NEW p \in Partitions, StoreRejects(p)
      PROVE  PartitionCovered(q)'
  <2>1. /\ pc[p] = "storing"
        /\ durable' \in {durable, [durable EXCEPT ![p] = position[p] + 1]}
        /\ position' \in {position, [position EXCEPT ![p] = durable'[p]]}
        /\ pc' = [pc EXCEPT ![p] = "idle"]
        /\ UNCHANGED <<subscription, handled, skipped>>
    BY <1>4 DEF StoreRejects, history
  <2>2. CASE q = p
    <3>1. /\ durable'[p] \in {durable[p], position[p] + 1}
          /\ position'[p] \in {position[p], durable'[p]}
          /\ pc'[p] = "idle"
      BY <1>0, <2>1
    <3> QED
      BY <1>b, <2>1, <2>2, <3>1 DEF PartitionCovered, Covered, Held
  <2>3. CASE q # p
    BY <1>0, <1>a, <1>b, <2>1, <2>3, PartitionKept
  <2> QED
    BY <2>2, <2>3
<1>5. ASSUME NEW p \in Partitions, AutoCommits(p)
      PROVE  PartitionCovered(q)'
  <2>1. /\ AutoCommit
        /\ durable' = [durable EXCEPT ![p] = position[p]]
        /\ UNCHANGED <<position, pc, subscription, handled, skipped>>
    BY <1>5 DEF AutoCommits, history
  <2>2. Held(q)
    BY <1>b, <2>1 DEF Guarded, Exacting, Held
  <2>3. durable'[q] \in {durable[q], position[q]}
    BY <1>0, <2>1
  <2> QED
    BY <1>b, <2>1, <2>2, <2>3 DEF PartitionCovered, Covered
<1>6. ASSUME NEW p \in Partitions, Rebalance(p)
      PROVE  PartitionCovered(q)'
  <2>1. /\ position' = [position EXCEPT ![p] = durable[p]]
        /\ pc[p] = "idle"
        /\ UNCHANGED <<durable, pc, subscription, handled, skipped>>
    BY <1>6 DEF Rebalance, history
  <2>2. CASE q = p
    BY <1>0, <1>b, <2>1, <2>2 DEF PartitionCovered, Covered
  <2>3. CASE q # p
    BY <1>0, <1>a, <1>b, <2>1, <2>3, PartitionKept
  <2> QED
    BY <2>2, <2>3
<1>7. ASSUME StopBegins \/ CloseEnds \/ UNCHANGED vars
      PROVE  PartitionCovered(q)'
  <2>1. /\ UNCHANGED <<durable, position, pc, handled, skipped>>
        /\ subscription' = "open" => subscription = "open"
    BY <1>7 DEF StopBegins, CloseEnds, vars, history
  <2> QED
    BY <1>a, <1>b, <2>1, PartitionKept
<1>8. CASE Restart
  <2>1. /\ position' = durable /\ pc'[q] = "idle"
        /\ UNCHANGED <<durable, handled, skipped>>
    BY <1>8 DEF Restart, history
  <2> QED
    BY <1>b, <2>1 DEF PartitionCovered, Covered
<1> QED
  BY <1>1, <1>2, <1>3, <1>4, <1>5, <1>6, <1>7, <1>8 DEF Next, SomeEnd

\* Where a failed event is acknowledged or skipped by configuration, or stops a
\* worker that stores its positions, no restart resumes behind one that was
\* neither handled nor passed over on purpose.
THEOREM StreamsDurableCovered == Spec => []DurableCovered
<1>1. Init => CoverInv
  <2> SUFFICES ASSUME Init PROVE CoverInv
    OBVIOUS
  <2>1. \A p \in Partitions : durable[p] = 0 /\ position[p] = 0 /\ pc[p] = "idle"
    BY DEF Init, Nothing
  <2> QED
    BY <2>1 DEF CoverInv, PartitionCovered, Covered
<1>2. CoverInv => DurableCovered
  BY DEF CoverInv, DurableCovered, Guarded, PartitionCovered, Covered
<1> QED
  BY <1>1, <1>2, TypeInit, TypeStep, CoverStep, PTL DEF Spec

-----------------------------------------------------------------------------
(* What a restart repeats.                                                 *)

Steady == EventHub /\ rejects = 0 /\ restarts = 0

\* Every event its callback is through with was acknowledged.
Gapless == config.atMostOnce \/ (~config.catch /\ config.stopsAtOnce)

\* The last event p's callback has ended the handler of.
Reach(p) == IF pc[p] = "storing" THEN position[p] + 1 ELSE position[p]

\* While a partition is never given again, each event counts once.
CountedOnce(p) ==
  /\ \A e \in handled[p] \cup skipped[p] : e <= Reach(p)
  /\ Cardinality(Unstored(p)) <= seen[p]

\* While none is passed over, the count says how far the callback is, and what
\* was acknowledged before a rebalance lies within an interval.
CountedAlong(p) ==
  /\ durable[p] <= position[p]
  /\ config.atMostOnce \/ pc[p] # "idle" \/ subscription = "open" => position[p] <= durable[p] + seen[p]
  /\ \A e \in handled[p] \cup skipped[p] :
       e < durable[p] + config.interval \/ (pc[p] = "storing" /\ e = position[p] + 1)

ReplayInv ==
  Steady => \A p \in Partitions :
    /\ seen[p] < config.interval
    /\ rebalances = 0 => CountedOnce(p)
    /\ Gapless => CountedAlong(p)

\* The events of a partition are finitely many, so those not stored are counted.
LEMMA UnstoredFinite ==
  ASSUME TypeInv, NEW p \in Partitions
  PROVE  /\ IsFiniteSet(Unstored(p)) /\ Cardinality(Unstored(p)) \in Nat
         /\ \A e \in handled[p] \cup skipped[p] : e \in Nat
<1>1. Published(p) \in Nat
  BY StreamAssumption DEF StreamAssumption
<1>2. IsFiniteSet(Events(p))
  BY <1>1, FS_Interval DEF Events
<1>3. handled[p] \cup skipped[p] \subseteq Events(p)
  BY DEF TypeInv, TypeOK
<1>4. Unstored(p) \subseteq Events(p)
  BY <1>3 DEF Unstored
<1> QED BY <1>1, <1>2, <1>3, <1>4, FS_Subset, FS_CardinalityType DEF Events

\* A partition that no step touches.
LEMMA ReplayKept ==
  ASSUME NEW q \in Partitions, UNCHANGED config,
         durable'[q] = durable[q], position'[q] = position[q], pc'[q] = pc[q], seen'[q] = seen[q],
         handled'[q] = handled[q], skipped'[q] = skipped[q],
         subscription' = "open" => subscription = "open"
  PROVE  /\ CountedOnce(q) => CountedOnce(q)'
         /\ CountedAlong(q) => CountedAlong(q)'
<1>1. Unstored(q)' = Unstored(q) /\ Reach(q)' = Reach(q)
  BY DEF Unstored, Reach
<1>2. CountedOnce(q) => CountedOnce(q)'
  BY <1>1 DEF CountedOnce
<1>3. CountedAlong(q) => CountedAlong(q)'
  BY DEF CountedAlong
<1> QED BY <1>2, <1>3

\* Nothing a step does makes a process steady that was not.
LEMMA SteadyBefore ==
  ASSUME TypeInv, [Next]_vars, Steady'
  PROVE  /\ Steady /\ UNCHANGED config /\ (rebalances' = 0 => rebalances = 0)
         /\ (Gapless' <=> Gapless) /\ config.interval \in Nat \ {0}
         /\ UNCHANGED <<rejects, restarts>>
<1>1. UNCHANGED config
  BY DEF Next, SomeEnd, Deliver, HandlerEnds, StoreResolves, StoreRejects, AutoCommits, Rebalance,
         StopBegins, CloseEnds, Restart, vars
<1>2. rejects' \in {rejects, rejects + 1} /\ restarts' \in {restarts, restarts + 1}
      /\ rebalances' \in {rebalances, rebalances + 1}
  BY DEF Next, SomeEnd, Deliver, HandlerEnds, StoreResolves, StoreRejects, AutoCommits, Rebalance,
         StopBegins, CloseEnds, Restart, vars, budget
<1>3. rejects \in Nat /\ restarts \in Nat /\ rebalances \in Nat /\ config \in Configs
  BY DEF TypeInv, TypeOK
<1>4. rejects = 0 /\ restarts = 0 /\ UNCHANGED <<rejects, restarts>> /\ (rebalances' = 0 => rebalances = 0)
  BY <1>2, <1>3 DEF Steady
<1>5. config.interval \in Nat \ {0}
  BY <1>3, StreamAssumption DEF StreamAssumption
<1> QED BY <1>1, <1>4, <1>5 DEF Steady, Gapless, EventHub

\* A handler ends: its event is acknowledged, skipped, or stops the worker.
LEMMA ReplayHandled ==
  ASSUME TypeInv, ReplayInv, Steady, NEW q \in Partitions, NEW outcome \in Outcomes, HandlerEnds(q, outcome),
         UNCHANGED config, config.interval \in Nat \ {0}
  PROVE  /\ seen'[q] < config.interval
         /\ rebalances = 0 => CountedOnce(q)'
         /\ Gapless => CountedAlong(q)'
<1> DEFINE e == position[q] + 1
<1>1. /\ pc[q] = "handling" /\ UNCHANGED <<durable, batchEnd>>
      /\ handled' = [handled EXCEPT ![q] = IF Failed(outcome) THEN @ ELSE @ \cup {e}]
      /\ position[q] \in Nat /\ seen[q] \in Nat /\ durable[q] \in Nat
      /\ position[q] < batchEnd[q] /\ batchEnd[q] \in Nat
      /\ handled \in Histories /\ skipped \in Histories
      /\ position \in [Partitions -> Nat] /\ seen \in [Partitions -> Nat] /\ pc \in [Partitions -> Modes]
      /\ durable'[q] = durable[q]
  BY DEF HandlerEnds, TypeInv, TypeOK, Bounded, Modes
<1>2. /\ seen[q] < config.interval
      /\ rebalances = 0 => CountedOnce(q)
      /\ Gapless => CountedAlong(q)
      /\ Reach(q) = position[q]
  BY <1>1 DEF ReplayInv, Reach
<1>3. /\ IsFiniteSet(Unstored(q)) /\ Cardinality(Unstored(q)) \in Nat
      /\ \A x \in handled[q] \cup skipped[q] : x \in Nat
  BY UnstoredFinite
<1>4. handled'[q] = IF Failed(outcome) THEN handled[q] ELSE handled[q] \cup {e}
  BY <1>1 DEF Histories
<1>5. CASE /\ ~Failed(outcome) \/ config.atMostOnce
           /\ Acknowledge(q)
           /\ skipped' = [skipped EXCEPT ![q] = IF Failed(outcome) THEN @ \cup {e} ELSE @]
           /\ UNCHANGED subscription
  <2>1. handled'[q] \cup skipped'[q] = handled[q] \cup skipped[q] \cup {e}
    BY <1>1, <1>4, <1>5 DEF Histories
  <2>2. \A x \in handled'[q] : x \in handled[q] \/ x = e
    BY <1>4
  <2>3. EventHub
    BY DEF Steady
  <2>4. CASE seen[q] + 1 < config.interval
    <3>1. seen' = [seen EXCEPT ![q] = @ + 1] /\ Advance(q)
      BY <1>5, <2>3, <2>4 DEF Acknowledge
    <3>2. seen'[q] = seen[q] + 1 /\ position'[q] = e /\ pc'[q] # "storing"
      BY <1>1, <3>1 DEF Advance, Modes
    <3>3. Unstored(q)' \subseteq Unstored(q) \cup {e}
      BY <1>1, <2>1, <2>2, <3>2 DEF Unstored
    <3>4. Cardinality(Unstored(q)') <= Cardinality(Unstored(q)) + 1
      <4>1. /\ IsFiniteSet(Unstored(q) \cup {e})
            /\ Cardinality(Unstored(q) \cup {e}) = IF e \in Unstored(q) THEN Cardinality(Unstored(q))
                                                   ELSE Cardinality(Unstored(q)) + 1
        BY <1>3, FS_AddElement
      <4>2. Cardinality(Unstored(q)') <= Cardinality(Unstored(q) \cup {e}) /\ Cardinality(Unstored(q)') \in Nat
        BY <3>3, <4>1, FS_Subset, FS_CardinalityType
      <4> QED BY <1>3, <4>1, <4>2
    <3>5. Cardinality(Unstored(q)') \in Nat
      <4>1. IsFiniteSet(Unstored(q) \cup {e})
        BY <1>3, FS_AddElement
      <4> QED BY <3>3, <4>1, FS_Subset, FS_CardinalityType
    <3>6. rebalances = 0 => CountedOnce(q)'
      <4> SUFFICES ASSUME rebalances = 0 PROVE CountedOnce(q)'
        OBVIOUS
      <4>1. \A x \in handled'[q] \cup skipped'[q] : x <= e
        BY <1>1, <1>2, <1>3, <2>1 DEF CountedOnce
      <4>2. Reach(q)' = e
        BY <3>2 DEF Reach
      <4>3. Cardinality(Unstored(q)') <= seen'[q]
        BY <1>1, <1>2, <1>3, <3>2, <3>4, <3>5 DEF CountedOnce
      <4> QED BY <4>1, <4>2, <4>3 DEF CountedOnce
    <3>7. Gapless => CountedAlong(q)'
      <4> SUFFICES ASSUME Gapless PROVE CountedAlong(q)'
        OBVIOUS
      <4>1. /\ durable[q] <= position[q] /\ position[q] <= durable[q] + seen[q]
            /\ \A x \in handled[q] \cup skipped[q] : x < durable[q] + config.interval
        BY <1>1, <1>2 DEF CountedAlong
      <4>2. \A x \in handled'[q] \cup skipped'[q] : x < durable[q] + config.interval
        BY <1>1, <1>3, <2>1, <2>4, <4>1
      <4>3. durable[q] <= e /\ e <= durable[q] + seen'[q]
        BY <1>1, <3>2, <4>1
      <4> QED BY <1>1, <3>2, <4>2, <4>3 DEF CountedAlong
    <3> QED BY <2>4, <3>2, <3>6, <3>7
  <2>5. CASE ~(seen[q] + 1 < config.interval)
    <3>1. pc' = [pc EXCEPT ![q] = "storing"] /\ UNCHANGED <<position, seen>>
      BY <1>5, <2>3, <2>5 DEF Acknowledge
    <3>2. pc'[q] = "storing" /\ position'[q] = position[q] /\ seen'[q] = seen[q]
      BY <1>1, <3>1
    <3>3. Unstored(q)' \subseteq Unstored(q)
      BY <1>1, <2>1, <2>2, <3>2 DEF Unstored
    <3>4. Cardinality(Unstored(q)') <= Cardinality(Unstored(q)) /\ Cardinality(Unstored(q)') \in Nat
      BY <1>3, <3>3, FS_Subset, FS_CardinalityType
    <3>5. rebalances = 0 => CountedOnce(q)'
      <4> SUFFICES ASSUME rebalances = 0 PROVE CountedOnce(q)'
        OBVIOUS
      <4>1. \A x \in handled'[q] \cup skipped'[q] : x <= e
        BY <1>1, <1>2, <1>3, <2>1 DEF CountedOnce
      <4>2. Reach(q)' = e
        BY <3>2 DEF Reach
      <4>3. Cardinality(Unstored(q)') <= seen'[q]
        BY <1>1, <1>2, <1>3, <3>2, <3>4 DEF CountedOnce
      <4> QED BY <4>1, <4>2, <4>3 DEF CountedOnce
    <3>6. Gapless => CountedAlong(q)'
      BY <1>1, <1>2, <2>1, <3>2 DEF CountedAlong
    <3> QED BY <1>2, <3>2, <3>5, <3>6
  <2> QED BY <2>4, <2>5
<1>6. CASE /\ Failed(outcome) /\ ~config.atMostOnce /\ ~config.catch
           /\ InitiateStop(q) /\ UNCHANGED <<seen, skipped>>
  <2>1. /\ position'[q] = batchEnd[q] /\ pc'[q] = "idle" /\ subscription' # "open"
        /\ seen'[q] = seen[q] /\ handled'[q] = handled[q] /\ skipped'[q] = skipped[q]
    BY <1>1, <1>4, <1>6 DEF InitiateStop
  <2>2. Unstored(q)' = Unstored(q)
    BY <1>1, <2>1 DEF Unstored
  <2>3. rebalances = 0 => CountedOnce(q)'
    BY <1>1, <1>2, <1>3, <2>1, <2>2 DEF CountedOnce, Reach
  <2>4. Gapless => CountedAlong(q)'
    BY <1>1, <1>2, <1>6, <2>1 DEF CountedAlong
  <2> QED BY <1>2, <2>1, <2>3, <2>4
<1>7. CASE /\ Failed(outcome) /\ ~config.atMostOnce /\ config.catch
           /\ Skip(q) /\ skipped' = [skipped EXCEPT ![q] = @ \cup {e}] /\ UNCHANGED <<seen, subscription>>
  <2>1. /\ position'[q] = e /\ pc'[q] # "storing" /\ seen'[q] = seen[q]
        /\ handled'[q] = handled[q] /\ skipped'[q] = skipped[q] \cup {e}
    BY <1>1, <1>4, <1>7 DEF Skip, Advance, Histories, Modes
  <2>2. ~Gapless
    BY <1>7 DEF Gapless
  <2>3. rebalances = 0 => CountedOnce(q)'
    <3> SUFFICES ASSUME rebalances = 0 PROVE CountedOnce(q)'
      OBVIOUS
    <3>1. \A x \in handled[q] \cup skipped[q] : x <= position[q]
      BY <1>2 DEF CountedOnce
    <3>2. \A x \in handled'[q] \cup skipped'[q] : x <= e
      BY <1>1, <1>3, <2>1, <3>1
    <3>3. Unstored(q)' = Unstored(q)
      BY <1>1, <1>3, <1>7, <2>1, <3>1 DEF Unstored
    <3> QED BY <1>2, <2>1, <3>2, <3>3 DEF CountedOnce, Reach
  <2> QED BY <1>2, <2>1, <2>2, <2>3
<1> QED BY <1>5, <1>6, <1>7 DEF HandlerEnds

\* A store succeeds: everything acknowledged so far is stored, but for what a
\* rebalance has given back.
LEMMA ReplayStored ==
  ASSUME TypeInv, ReplayInv, Steady, NEW q \in Partitions, StoreResolves(q),
         UNCHANGED config, config.interval \in Nat \ {0}
  PROVE  /\ seen'[q] < config.interval
         /\ rebalances = 0 => CountedOnce(q)'
         /\ Gapless => CountedAlong(q)'
<1> DEFINE e == position[q] + 1
<1>1. /\ pc[q] = "storing" /\ position[q] \in Nat /\ durable[q] \in Nat
      /\ durable'[q] = e /\ seen'[q] = 0 /\ position'[q] = e /\ pc'[q] # "storing"
      /\ handled'[q] = handled[q] /\ skipped'[q] = skipped[q] /\ UNCHANGED subscription
  BY DEF StoreResolves, Advance, TypeInv, TypeOK, history
<1>2. /\ rebalances = 0 => CountedOnce(q)
      /\ Gapless => CountedAlong(q)
      /\ Reach(q) = e /\ Reach(q)' = e
  BY <1>1 DEF ReplayInv, Reach
<1>3. \A x \in handled[q] \cup skipped[q] : x \in Nat
  BY UnstoredFinite
<1>4. rebalances = 0 => CountedOnce(q)'
  <2> SUFFICES ASSUME rebalances = 0 PROVE CountedOnce(q)'
    OBVIOUS
  <2>1. \A x \in handled[q] \cup skipped[q] : x <= e
    BY <1>2 DEF CountedOnce
  <2>2. Unstored(q)' = {}
    BY <1>1, <1>3, <2>1 DEF Unstored
  <2>3. Cardinality(Unstored(q)') = 0
    BY <2>2, FS_EmptySet
  <2> QED BY <1>1, <1>2, <2>1, <2>3 DEF CountedOnce
<1>5. Gapless => CountedAlong(q)'
  BY <1>1, <1>2, <1>3 DEF CountedAlong
<1> QED BY <1>1, <1>4, <1>5

LEMMA ReplayStep == TypeInv /\ ReplayInv /\ [Next]_vars => ReplayInv'
<1> SUFFICES ASSUME TypeInv, ReplayInv, [Next]_vars, Steady', NEW q \in Partitions
             PROVE  /\ seen'[q] < config'.interval
                    /\ rebalances' = 0 => CountedOnce(q)'
                    /\ Gapless' => CountedAlong(q)'
  BY DEF ReplayInv
<1>1. /\ Steady /\ UNCHANGED config /\ (rebalances' = 0 => rebalances = 0)
      /\ (Gapless' <=> Gapless) /\ config.interval \in Nat \ {0}
      /\ UNCHANGED <<rejects, restarts>>
  BY SteadyBefore
<1>2. /\ seen[q] < config.interval
      /\ rebalances = 0 => CountedOnce(q)
      /\ Gapless => CountedAlong(q)
  BY <1>1 DEF ReplayInv
<1>3. /\ durable \in [Partitions -> Nat] /\ position \in [Partitions -> Nat] /\ seen \in [Partitions -> Nat]
      /\ pc \in [Partitions -> Modes] /\ handled \in Histories /\ skipped \in Histories
      /\ rejects \in Nat /\ restarts \in Nat /\ rebalances \in Nat
  BY DEF TypeInv, TypeOK, Modes
<1>4. ASSUME NEW p \in Partitions, p # q, Deliver(p) \/ SomeEnd(p) \/ StoreResolves(p) \/ Rebalance(p)
      PROVE  /\ durable'[q] = durable[q] /\ position'[q] = position[q] /\ pc'[q] = pc[q] /\ seen'[q] = seen[q]
             /\ handled'[q] = handled[q] /\ skipped'[q] = skipped[q]
             /\ subscription' = "open" => subscription = "open"
  <2>1. CASE Deliver(p)
    BY <1>3, <1>4, <2>1 DEF Deliver, history
  <2>2. CASE SomeEnd(p)
    <3>1. PICK outcome \in Outcomes : HandlerEnds(p, outcome)
      BY <2>2 DEF SomeEnd
    <3>2. handled'[q] = handled[q] /\ skipped'[q] = skipped[q] /\ durable'[q] = durable[q]
      BY <1>3, <1>4, <3>1 DEF HandlerEnds, Histories
    <3>3. Acknowledge(p) \/ (InitiateStop(p) /\ UNCHANGED seen) \/ (Advance(p) /\ UNCHANGED seen)
      BY <3>1 DEF HandlerEnds, Skip
    <3>4. position'[q] = position[q] /\ pc'[q] = pc[q] /\ seen'[q] = seen[q]
      BY <1>3, <1>4, <3>3 DEF Acknowledge, Advance, InitiateStop
    <3>5. subscription' = "open" => subscription = "open"
      BY <3>1 DEF HandlerEnds, InitiateStop
    <3> QED BY <3>2, <3>4, <3>5
  <2>3. CASE StoreResolves(p)
    BY <1>3, <1>4, <2>3 DEF StoreResolves, Advance, history
  <2>4. CASE Rebalance(p)
    BY <1>3, <1>4, <2>4 DEF Rebalance, history
  <2> QED BY <1>4, <2>1, <2>2, <2>3, <2>4
<1>5. ASSUME NEW p \in Partitions, p # q, Deliver(p) \/ SomeEnd(p) \/ StoreResolves(p) \/ Rebalance(p)
      PROVE  /\ seen'[q] < config'.interval
             /\ rebalances' = 0 => CountedOnce(q)'
             /\ Gapless' => CountedAlong(q)'
  BY <1>1, <1>2, <1>4, <1>5, ReplayKept
<1>6. CASE Deliver(q)
  <2>1. /\ pc[q] = "idle" /\ pc'[q] = "handling"
        /\ durable'[q] = durable[q] /\ position'[q] = position[q] /\ seen'[q] = seen[q]
        /\ handled'[q] = handled[q] /\ skipped'[q] = skipped[q] /\ UNCHANGED <<subscription, rebalances>>
        /\ subscription = "open" \/ ~config.stopsAtOnce
    BY <1>3, <1>6 DEF Deliver, history, budget
  <2>2. Unstored(q)' = Unstored(q) /\ Reach(q)' = Reach(q)
    BY <1>1, <2>1 DEF Unstored, Reach
  <2>3. rebalances = 0 => CountedOnce(q)'
    BY <1>2, <2>1, <2>2 DEF CountedOnce
  <2>4. Gapless => CountedAlong(q)'
    BY <1>1, <1>2, <2>1 DEF CountedAlong, Gapless
  <2> QED BY <1>1, <1>2, <2>1, <2>3, <2>4
<1>7. CASE SomeEnd(q)
  <2>1. PICK outcome \in Outcomes : HandlerEnds(q, outcome)
    BY <1>7 DEF SomeEnd
  <2> QED BY <1>1, <2>1, ReplayHandled
<1>8. CASE StoreResolves(q)
  BY <1>1, <1>8, ReplayStored
<1>9. CASE Rebalance(q)
  <2>1. /\ pc[q] = "idle" /\ pc'[q] = "idle" /\ rebalances' = rebalances + 1
        /\ durable'[q] = durable[q] /\ position'[q] = durable[q] /\ seen'[q] = seen[q]
        /\ handled'[q] = handled[q] /\ skipped'[q] = skipped[q] /\ UNCHANGED subscription
    BY <1>3, <1>9 DEF Rebalance, history
  <2>2. Gapless => CountedAlong(q)'
    BY <1>1, <1>2, <1>3, <2>1 DEF CountedAlong
  <2> QED BY <1>1, <1>2, <1>3, <2>1, <2>2
<1>10. ASSUME NEW p \in Partitions PROVE ~AutoCommits(p) /\ ~StoreRejects(p)
  BY <1>1, <1>3 DEF AutoCommits, AutoCommit, StoreRejects, Steady
<1>11. CASE StopBegins \/ CloseEnds \/ UNCHANGED vars
  <2>1. /\ UNCHANGED <<durable, position, pc, seen, handled, skipped>>
        /\ subscription' = "open" => subscription = "open"
    BY <1>11 DEF StopBegins, CloseEnds, vars, history
  <2> QED BY <1>1, <1>2, <2>1, ReplayKept
<1>12. ~Restart
  BY <1>1, <1>3 DEF Restart
<1> QED
  BY <1>5, <1>6, <1>7, <1>8, <1>9, <1>10, <1>11, <1>12 DEF Next

LEMMA ReplayInit == Init => ReplayInv
<1> SUFFICES ASSUME Init, NEW p \in Partitions
             PROVE  seen[p] < config.interval /\ CountedOnce(p) /\ CountedAlong(p)
  BY DEF ReplayInv
<1>1. /\ durable[p] = 0 /\ position[p] = 0 /\ seen[p] = 0 /\ handled[p] = {} /\ skipped[p] = {}
      /\ config.interval \in Nat \ {0}
  BY StreamAssumption DEF StreamAssumption, Init, Nothing, NoEvents
<1>2. Unstored(p) = {}
  BY <1>1 DEF Unstored
<1>3. Cardinality(Unstored(p)) = 0
  BY <1>2, FS_EmptySet
<1> QED BY <1>1, <1>3 DEF CountedOnce, CountedAlong

\* At most checkpointInterval - 1 events are acknowledged and not stored, so a
\* restart repeats no more, nor does a rebalance unless an event can be passed
\* over that does not count.
THEOREM StreamReplayBounded == Spec => []ReplayBounded
<1>1. TypeInv /\ ReplayInv => ReplayBounded
  <2> SUFFICES ASSUME TypeInv, ReplayInv, Steady, rebalances = 0 \/ Gapless, NEW p \in Partitions
               PROVE  Cardinality(Unstored(p)) < config.interval
    BY DEF ReplayBounded, Steady, Gapless
  <2>1. /\ IsFiniteSet(Unstored(p)) /\ Cardinality(Unstored(p)) \in Nat
        /\ \A e \in handled[p] \cup skipped[p] : e \in Nat
        /\ seen[p] \in Nat /\ durable[p] \in Nat /\ config.interval \in Nat \ {0}
    BY UnstoredFinite, StreamAssumption DEF StreamAssumption, TypeInv, TypeOK
  <2>2. CASE rebalances = 0
    BY <2>1, <2>2 DEF ReplayInv, CountedOnce
  <2>3. CASE Gapless
    <3> DEFINE Near == (durable[p] + 1) .. (durable[p] + (config.interval - 1))
    <3>1. Unstored(p) \subseteq Near
      BY <2>1, <2>3 DEF Unstored, ReplayInv, CountedAlong
    <3>2. IsFiniteSet(Near) /\ Cardinality(Near) = config.interval - 1
      <4> DEFINE a == durable[p] + 1
                 b == durable[p] + (config.interval - 1)
      <4>1. a \in Int /\ b \in Int /\ config.interval - 1 = IF a > b THEN 0 ELSE b - a + 1
        BY <2>1
      <4> HIDE DEF a, b
      <4>2. IsFiniteSet(a .. b) /\ Cardinality(a .. b) = IF a > b THEN 0 ELSE b - a + 1
        BY <4>1, FS_Interval
      <4> QED BY <4>1, <4>2 DEF a, b
    <3> HIDE DEF Near
    <3>3. Cardinality(Unstored(p)) <= Cardinality(Near)
      BY <3>1, <3>2, FS_Subset
    <3> QED BY <2>1, <3>2, <3>3
  <2> QED BY <2>2, <2>3
<1> QED
  BY <1>1, TypeInit, TypeStep, ReplayInit, ReplayStep, PTL DEF Spec
=============================================================================
