----------------------- MODULE ServiceBusWorker_proofs -----------------------
(***************************************************************************)
(* Type correctness, SettledAfterHandling, StoppedClosed and               *)
(* ServedOnceInOrder, for any messages, sessions, slots, delivery limit    *)
(* and configurations.  None is inductive: the first needs what a          *)
(* settlement under way says of its handler, the second who holds each     *)
(* lock, the third that what is being handled is what is locked.           *)
(***************************************************************************)
EXTENDS ServiceBusWorker, FiniteSetTheorems, TLAPS

\* A settlement that completes a message has a handler behind it.
Vouched ==
  config.explicit /\ ~config.atMostOnce /\ ~config.ignoreUnmatched =>
    \A d \in Deliveries : /\ call[d] = "complete" => succeeded[d[1]] > 0
                          /\ call[d] # "rescueComplete"

SettleInv == SettledAfterHandling /\ Vouched

Holder(s) == s = Orphaned \/ (s \in Slots /\ pc[s] \in {"receiving", "closing"})

\* Locks and, with receivers that wait for them, handlers belong to slots that
\* have yet to close their receiver, or to a receiver whose close() was rejected.
Attributed ==
  /\ \A ss \in Sessions : lock[ss] # None => Holder(lock[ss])
  /\ \A m \in Messages : place[m] = "locked" =>
       count[m] \in Counts /\ Holder(receiver[<<m, count[m]>>])
  /\ config.closeWaits => \A d \in Deliveries : Live(d) => Holder(receiver[d])

AllExited == stop = "stopped" => \A s \in Slots : pc[s] = "exited"

\* A session's lock and its messages' are one receiver's.  Without sessions a
\* stop ends with the first close() that is rejected.
Matched ==
  /\ config.sessions => \A m \in Messages : place[m] = "locked" =>
                          lock[SessionOf(m)] = receiver[<<m, count[m]>>]
  /\ ~config.sessions => \A d \in Deliveries : receiver[d] = Orphaned => stop = "failed"

StopInv == Attributed /\ Matched /\ AllExited

-----------------------------------------------------------------------------
(* Types.                                                                  *)

Modes == {"accepting", "backoff", "receiving", "closing", "exited"}
Places == {"queued", "locked", "completed", "dead"}
Calls == Overrides \cup {None, "handler", "rescueComplete", "rescueAbandon"}

\* A message that is queued may be delivered once more.
FewDelivered == \A m \in Messages : place[m] = "queued" => count[m] < MaxDeliveries

TypeInv == TypeOK /\ FewDelivered

\* A lock that is given back leaves a message in one of its places.
LEMMA ReturnedType ==
  ASSUME TypeInv, NEW ms
  PROVE  /\ Returned(ms) \in [Messages -> Places]
         /\ \A m \in Messages : Returned(ms)[m] = "queued" => count[m] < MaxDeliveries
<1> USE ServiceBusAssumption DEF ServiceBusAssumption
<1>1. \A m \in Messages : count[m] \in 0 .. MaxDeliveries
  BY DEF TypeInv, TypeOK
<1> QED
  BY <1>1 DEF Returned, TypeInv, TypeOK, FewDelivered, Places

\* What a settlement does to the queue keeps its type.
LEMMA AppliedType ==
  ASSUME TypeInv, NEW d \in Deliveries, Applied(d), UNCHANGED count
  PROVE  /\ place' \in [Messages -> Places]
         /\ FewDelivered'
<1> USE DEF FewDelivered
<1>1. /\ Returned({d[1]}) \in [Messages -> Places]
      /\ \A m \in Messages : Returned({d[1]})[m] = "queued" => count[m] < MaxDeliveries
  BY ReturnedType
<1>2. d[1] \in Messages
  BY DEF Deliveries
<1>3. CASE call[d] \in {"complete", "rescueComplete"}
  BY <1>3 DEF Applied, TypeInv, TypeOK, Places
<1>4. CASE call[d] = "aside"
  <2>1. place' = [place EXCEPT ![d[1]] = "dead"]
    BY <1>4 DEF Applied
  <2> QED
    BY <2>1 DEF TypeInv, TypeOK, Places
<1>5. CASE call[d] \notin {"complete", "rescueComplete", "aside"}
  <2>1. place' = [place EXCEPT ![d[1]] = Returned({d[1]})[d[1]]]
    BY <1>5 DEF Applied
  <2>2. Returned({d[1]})[d[1]] \in Places
    BY <1>1, <1>2
  <2> QED
    BY <1>1, <1>2, <2>1, <2>2 DEF TypeInv, TypeOK, Places
<1> QED
  BY <1>3, <1>4, <1>5

\* The end of a delivery keeps the types of what it changes.
LEMMA CallOverType ==
  ASSUME TypeOK, NEW d \in Deliveries, NEW throws \in BOOLEAN, CallOver(d, throws)
  PROVE  /\ call' \in [Deliveries -> Calls]
         /\ receiver' \in [Deliveries -> Slots \cup {None, Orphaned}]
         /\ pc' \in [Slots -> Modes]
<1>1. call' \in [Deliveries -> Calls]
  BY DEF CallOver, TypeOK, Calls
<1>2. receiver' \in [Deliveries -> Slots \cup {None, Orphaned}]
  BY DEF CallOver, TypeOK
<1>3. pc' \in [Slots -> Modes]
  BY DEF CallOver, Finished, TypeOK, Modes
<1> QED
  BY <1>1, <1>2, <1>3

\* Nothing is locked, called or settled at first.
LEMMA TypeInit == Init => TypeInv
<1> SUFFICES ASSUME Init PROVE TypeInv
  OBVIOUS
<1>1. config.slots \subseteq Slots /\ config.maxFaults \in Nat
  BY ServiceBusAssumption DEF ServiceBusAssumption, Init
<1>2. 0 \in 0 .. MaxDeliveries - 1 /\ 0 \in 0 .. config.maxFaults
  BY <1>1, ServiceBusAssumption DEF ServiceBusAssumption
<1>3. /\ place \in [Messages -> Places]
      /\ count \in [Messages -> 0 .. MaxDeliveries]
      /\ FewDelivered
  BY <1>2, ServiceBusAssumption DEF ServiceBusAssumption, Init, Places, FewDelivered
<1>4. /\ lock \in [Sessions -> Slots \cup {None, Orphaned}]
      /\ pc \in [Slots -> Modes]
      /\ receiver \in [Deliveries -> Slots \cup {None, Orphaned}]
      /\ call \in [Deliveries -> Calls]
  BY DEF Init, Modes, Calls
<1>5. /\ config \in Configs
      /\ aborted \in BOOLEAN
      /\ stop \in {"running", "stopping", "stopped", "failed"}
      /\ faults \in 0 .. config.maxFaults
      /\ succeeded \in [Messages -> Nat]
  BY <1>2 DEF Init
<1> QED
  BY <1>3, <1>4, <1>5 DEF TypeInv, TypeOK, Places, Modes, Calls

\* Every step of the slots, the deliveries, the broker and the host.
LEMMA TypeStep == TypeInv /\ [Next]_vars => TypeInv'
<1> SUFFICES ASSUME TypeInv, [Next]_vars PROVE TypeInv'
  OBVIOUS
<1> USE ServiceBusAssumption DEF ServiceBusAssumption, TypeInv
<1>1. ASSUME NEW s \in Slots, Accept(s)
      PROVE  TypeInv'
  BY <1>1 DEF Accept, TypeOK, FewDelivered
<1>2. ASSUME NEW s \in Slots, AcceptRejects(s)
      PROVE  TypeInv'
  <2>1. faults' \in 0 .. config.maxFaults
    BY <1>2 DEF AcceptRejects, Fault, TypeOK
  <2> QED
    BY <1>2, <2>1 DEF AcceptRejects, broker, TypeOK, FewDelivered
<1>3. ASSUME NEW s \in Slots, BackoffEnds(s) \/ SessionEnds(s)
      PROVE  TypeInv'
  BY <1>3 DEF BackoffEnds, SessionEnds, Finished, broker, TypeOK, FewDelivered
<1>12. ASSUME NEW s \in Slots, CloseFails(s)
       PROVE  TypeInv'
  <2>1. /\ lock' \in [Sessions -> Slots \cup {None, Orphaned}]
        /\ receiver' \in [Deliveries -> Slots \cup {None, Orphaned}]
        /\ pc' \in [Slots -> Modes]
        /\ stop' \in {"running", "stopping", "stopped", "failed"}
    BY <1>12 DEF CloseFails, TypeOK, Modes
  <2>2. faults' \in 0 .. config.maxFaults
    BY <1>12 DEF CloseFails, Fault, TypeOK
  <2> QED
    BY <1>12, <2>1, <2>2 DEF CloseFails, TypeOK, FewDelivered, Modes
<1>13. ASSUME NEW ss \in Sessions, OrphanExpires(ss)
       PROVE  TypeInv'
  <2>1. /\ place' = Returned({m \in Messages : SessionOf(m) = ss})
        /\ lock' = [lock EXCEPT ![ss] = None]
        /\ UNCHANGED <<config, count, pc, receiver, call, aborted, stop, faults, succeeded>>
    BY <1>13 DEF OrphanExpires
  <2>2. place' \in [Messages -> Places] /\ FewDelivered'
    BY <2>1, ReturnedType DEF FewDelivered
  <2>3. lock' \in [Sessions -> Slots \cup {None, Orphaned}]
    BY <2>1 DEF TypeOK
  <2> QED
    BY <2>1, <2>2, <2>3 DEF TypeOK, Places
<1>4. ASSUME NEW s \in Slots, CloseEnds(s)
      PROVE  TypeInv'
  <2> DEFINE freed == {m \in Messages : \E n \in Counts : receiver[<<m, n>>] = s /\ count[m] = n}
  <2>1. place' = Returned(freed)
    BY <1>4 DEF CloseEnds
  <2>2. place' \in [Messages -> Places] /\ FewDelivered'
    <3>1. UNCHANGED count
      BY <1>4 DEF CloseEnds
    <3> HIDE DEF freed
    <3> QED
      BY <2>1, <3>1, ReturnedType DEF FewDelivered
  <2>3. /\ lock' \in [Sessions -> Slots \cup {None, Orphaned}]
        /\ receiver' \in [Deliveries -> Slots \cup {None, Orphaned}]
        /\ pc' \in [Slots -> Modes]
    BY <1>4 DEF CloseEnds, TypeOK, Modes
  <2> QED
    BY <1>4, <2>2, <2>3 DEF CloseEnds, TypeOK, Places, Modes
<1>5. ASSUME NEW s \in Slots, NEW m \in Messages, Deliver(s, m)
      PROVE  TypeInv'
  <2>1. /\ place[m] = "queued"
        /\ place' = [place EXCEPT ![m] = "locked"]
        /\ count' = [count EXCEPT ![m] = @ + 1]
        /\ receiver' = [receiver EXCEPT ![<<m, count'[m]>>] = s]
        /\ call' = [call EXCEPT ![<<m, count'[m]>>] = "handler"]
        /\ UNCHANGED <<config, lock, pc, aborted, stop, faults, succeeded>>
    BY <1>5 DEF Deliver
  <2>2. count' \in [Messages -> 0 .. MaxDeliveries]
    BY <2>1 DEF TypeOK, FewDelivered
  <2>3. FewDelivered'
    BY <2>1 DEF TypeOK, FewDelivered
  <2>4. call' \in [Deliveries -> Calls]
    BY <2>1 DEF TypeOK, Calls
  <2> QED
    BY <2>1, <2>2, <2>3, <2>4 DEF TypeOK, Calls
<1>6. ASSUME NEW d \in Deliveries, NEW outcome \in Outcomes, NEW override \in Overrides \cup {None},
             HandlerEnds(d, outcome, override)
      PROVE  TypeInv'
  <2>1. call' \in [Deliveries -> Calls]
    BY <1>6 DEF HandlerEnds, DefaultSettlement, Rescue, TypeOK, Calls, Overrides
  <2>2. succeeded' \in [Messages -> Nat]
    <3>1. d[1] \in Messages /\ succeeded[d[1]] \in Nat
      BY DEF Deliveries, TypeOK
    <3>2. \/ succeeded' = [succeeded EXCEPT ![d[1]] = succeeded[d[1]] + 1]
          \/ succeeded' = [succeeded EXCEPT ![d[1]] = succeeded[d[1]]]
      BY <1>6 DEF HandlerEnds
    <3>3. succeeded \in [Messages -> Nat]
      BY DEF TypeOK
    <3> HIDE DEF TypeInv
    <3> QED
      BY <3>1, <3>2, <3>3
  <2> QED
    BY <1>6, <2>1, <2>2 DEF HandlerEnds, broker, TypeOK, FewDelivered, Calls
<1>7. ASSUME NEW d \in Deliveries, SettleResolves(d)
      PROVE  TypeInv'
  <2>1. /\ Applied(d) /\ CallOver(d, call[d] = "rescueAbandon")
        /\ UNCHANGED <<config, count, lock, aborted, stop, faults, succeeded>>
    BY <1>7 DEF SettleResolves
  <2>2. place' \in [Messages -> Places] /\ FewDelivered'
    BY <2>1, AppliedType
  <2>3. (call[d] = "rescueAbandon") \in BOOLEAN
    OBVIOUS
  <2>4. /\ call' \in [Deliveries -> Calls]
        /\ receiver' \in [Deliveries -> Slots \cup {None, Orphaned}]
        /\ pc' \in [Slots -> Modes]
    BY <2>1, <2>3, CallOverType
  <2> QED
    BY <2>1, <2>2, <2>4 DEF TypeOK, Places, Modes, Calls
<1>8. ASSUME NEW d \in Deliveries, SettleRejects(d)
      PROVE  TypeInv'
  <2>1. UNCHANGED <<config, count, lock, aborted, stop, succeeded>>
    BY <1>8 DEF SettleRejects
  <2>2. place' \in [Messages -> Places] /\ FewDelivered'
    <3>1. UNCHANGED place \/ Applied(d)
      BY <1>8 DEF SettleRejects
    <3>2. CASE UNCHANGED place
      BY <2>1, <3>2 DEF TypeOK, Places, FewDelivered
    <3> QED
      BY <2>1, <3>1, <3>2, AppliedType
  <2>3. faults' \in 0 .. config.maxFaults
    BY <1>8 DEF SettleRejects, Fault, TypeOK
  <2>4. /\ call' \in [Deliveries -> Calls]
        /\ receiver' \in [Deliveries -> Slots \cup {None, Orphaned}]
        /\ pc' \in [Slots -> Modes]
    <3>1. CASE CallOver(d, TRUE)
      BY <3>1, CallOverType
    <3>2. CASE call' = [call EXCEPT ![d] = Rescue] /\ UNCHANGED <<pc, receiver>>
      BY <3>2 DEF TypeOK, Calls, Modes, Rescue
    <3> QED
      BY <1>8, <3>1, <3>2 DEF SettleRejects
  <2> QED
    BY <2>1, <2>2, <2>3, <2>4 DEF TypeOK, Places, Modes, Calls
<1>9. ASSUME NEW m \in Messages, LockLost(m)
      PROVE  TypeInv'
  <2>1. /\ place' = Returned(UnderLockOf(m))
        /\ lock' = IF config.sessions THEN [lock EXCEPT ![SessionOf(m)] = None] ELSE lock
        /\ UNCHANGED <<config, count, pc, receiver, call, aborted, stop, succeeded>>
    BY <1>9 DEF LockLost
  <2>2. place' \in [Messages -> Places] /\ FewDelivered'
    BY <2>1, ReturnedType DEF FewDelivered
  <2>3. faults' \in 0 .. config.maxFaults
    BY <1>9 DEF LockLost, Fault, TypeOK
  <2>4. lock' \in [Sessions -> Slots \cup {None, Orphaned}]
    BY <2>1 DEF TypeOK
  <2> QED
    BY <2>1, <2>2, <2>3, <2>4 DEF TypeOK, Places
<1>10. ASSUME TokenAborts \/ StopBegins \/ StopEnds
       PROVE  TypeInv'
  <2>1. /\ UNCHANGED <<config, place, count, lock, receiver, call, succeeded>>
        /\ aborted' \in BOOLEAN
        /\ stop' \in {"running", "stopping", "stopped", "failed"}
    BY <1>10 DEF TokenAborts, StopBegins, StopEnds, broker, TypeOK
  <2>2. pc' \in [Slots -> Modes]
    <3>1. Interrupted \in [Slots -> Modes]
      BY DEF Interrupted, TypeOK, Modes
    <3>2. [s \in Slots |-> IF pc[s] = "receiving" THEN "closing" ELSE pc[s]] \in [Slots -> Modes]
      BY DEF TypeOK, Modes
    <3> QED
      BY <1>10, <3>1, <3>2 DEF TokenAborts, StopBegins, StopEnds, TypeOK, Modes
  <2>3. faults' \in 0 .. config.maxFaults
    BY <1>10 DEF TokenAborts, StopBegins, StopEnds, Fault, TypeOK
  <2> QED
    BY <2>1, <2>2, <2>3 DEF TypeOK, FewDelivered, Modes
<1>11. CASE UNCHANGED vars
  BY <1>11 DEF vars, TypeOK, FewDelivered
<1> QED
  BY <1>1, <1>2, <1>3, <1>4, <1>5, <1>6, <1>7, <1>8, <1>9, <1>10, <1>11, <1>12, <1>13
     DEF Next, SlotSteps, SomeEnd, Settles

\* ServiceBusWorker's variables keep their types in every reachable state.
THEOREM ServiceBusTypeOK == Spec => []TypeOK
<1>1. TypeInv => TypeOK
  BY DEF TypeInv
<1> QED
  BY <1>1, TypeInit, TypeStep, PTL DEF Spec

-----------------------------------------------------------------------------
(* Settlement.                                                             *)

\* A lock that is given back completes no message.
LEMMA ReturnedCompletesNothing ==
  ASSUME NEW ms, NEW m \in Messages, Returned(ms)[m] = "completed"
  PROVE  place[m] = "completed"
BY DEF Returned

\* A settlement completes its own message, when it is one that completes.
LEMMA AppliedCompletes ==
  ASSUME TypeInv, NEW d \in Deliveries, Applied(d), NEW m \in Messages, place'[m] = "completed"
  PROVE  \/ place[m] = "completed"
         \/ m = d[1] /\ call[d] \in {"complete", "rescueComplete"}
<1>1. place \in [Messages -> Places] /\ d[1] \in Messages
  BY DEF TypeInv, TypeOK, Places, Deliveries
<1>2. CASE call[d] \in {"complete", "rescueComplete"}
  <2>1. place' = [place EXCEPT ![d[1]] = "completed"]
    BY <1>2 DEF Applied
  <2> QED
    BY <1>1, <1>2, <2>1
<1>3. CASE call[d] = "aside"
  <2>1. place' = [place EXCEPT ![d[1]] = "dead"]
    BY <1>3 DEF Applied
  <2> QED
    BY <1>1, <2>1
<1>4. CASE call[d] \notin {"complete", "rescueComplete", "aside"}
  <2>1. place' = [place EXCEPT ![d[1]] = Returned({d[1]})[d[1]]]
    BY <1>4 DEF Applied
  <2> QED
    BY <1>1, <2>1, ReturnedCompletesNothing
<1> QED
  BY <1>2, <1>3, <1>4

\* What a handler's end awaits: a completion is vouched for by that handler.
LEMMA HandlerVouches ==
  ASSUME TypeInv, Vouched,
         NEW d \in Deliveries, NEW outcome \in Outcomes, NEW override \in Overrides \cup {None},
         HandlerEnds(d, outcome, override)
  PROVE  Vouched'
<1> SUFFICES ASSUME config.explicit, ~config.atMostOnce, ~config.ignoreUnmatched,
                    NEW e \in Deliveries
             PROVE  /\ call'[e] = "complete" => succeeded'[e[1]] > 0
                    /\ call'[e] # "rescueComplete"
  BY DEF HandlerEnds, Vouched
<1>1. /\ call \in [Deliveries -> Calls]
      /\ succeeded \in [Messages -> Nat]
      /\ d[1] \in Messages /\ e[1] \in Messages
  BY DEF TypeInv, TypeOK, Calls, Deliveries
<1>2. /\ call' = [call EXCEPT ![d] = call'[d]]
      /\ call'[d] = IF override \in Overrides /\ outcome # "throws"
                    THEN override ELSE DefaultSettlement(outcome)
  BY <1>1 DEF HandlerEnds
<1>3. DefaultSettlement(outcome) = IF outcome = "throws" THEN "rescueAbandon"
                                   ELSE IF outcome = "success" THEN "complete" ELSE "abandon"
  BY DEF DefaultSettlement, Rescue, IsSettledAsFailure, Outcomes, MessageResults
<1>4. call'[d] # "rescueComplete"
  BY <1>2, <1>3 DEF Overrides
<1>5. call'[d] = "complete" => outcome = "success" \/ override = "complete"
  BY <1>2, <1>3
<1>6. \A m \in Messages : succeeded'[m] >= succeeded[m]
  BY <1>1 DEF HandlerEnds
<1>7. call'[d] = "complete" => succeeded'[d[1]] > 0
  <2> SUFFICES ASSUME call'[d] = "complete" PROVE succeeded'[d[1]] > 0
    OBVIOUS
  <2>1. succeeded' = [succeeded EXCEPT ![d[1]] = succeeded[d[1]] + 1]
    BY <1>5 DEF HandlerEnds
  <2> QED
    BY <1>1, <2>1
<1>8. CASE e = d
  BY <1>4, <1>7, <1>8
<1>9. CASE e # d
  <2>1. call'[e] = call[e]
    BY <1>1, <1>2, <1>9
  <2>2. succeeded'[e[1]] \in Nat /\ succeeded[e[1]] \in Nat
    BY <1>1 DEF HandlerEnds
  <2> QED
    BY <1>1, <1>6, <2>1, <2>2 DEF Vouched
<1> QED
  BY <1>8, <1>9

\* Nothing else awaits a completion, and only a settlement completes.
LEMMA SettleKept ==
  ASSUME SettleInv, UNCHANGED <<config, succeeded>>,
         \A m \in Messages : place'[m] = "completed" =>
           \/ place[m] = "completed"
           \/ \E d \in Deliveries : m = d[1] /\ call[d] \in {"complete", "rescueComplete"},
         \A d \in Deliveries : call'[d] \in {call[d], None, "handler", Rescue}
  PROVE  SettleInv'
<1>1. config.explicit /\ ~config.atMostOnce => Rescue = "rescueAbandon"
  BY DEF Rescue
<1>2. Vouched'
  BY <1>1 DEF SettleInv, Vouched, None
<1>3. SettledAfterHandling'
  BY DEF SettleInv, SettledAfterHandling, Vouched
<1> QED
  BY <1>2, <1>3 DEF SettleInv

\* Every step completes a message with a handler behind it.
LEMMA SettleStep == TypeInv /\ SettleInv /\ [Next]_vars => SettleInv'
<1> SUFFICES ASSUME TypeInv, SettleInv, [Next]_vars PROVE SettleInv'
  OBVIOUS
<1>0. /\ place \in [Messages -> Places]
      /\ call \in [Deliveries -> Calls]
  BY DEF TypeInv, TypeOK, Places, Calls
<1>1. ASSUME NEW s \in Slots,
             Accept(s) \/ AcceptRejects(s) \/ BackoffEnds(s) \/ SessionEnds(s) \/ CloseFails(s)
      PROVE  SettleInv'
  <2>1. UNCHANGED <<config, succeeded, place, call>>
    BY <1>1 DEF Accept, AcceptRejects, BackoffEnds, SessionEnds, CloseFails, broker
  <2> QED
    BY <2>1, SettleKept
<1>2. ASSUME NEW s \in Slots, CloseEnds(s)
      PROVE  SettleInv'
  <2>1. UNCHANGED <<config, succeeded, call>>
    BY <1>2 DEF CloseEnds
  <2>2. \A m \in Messages : place'[m] = "completed" => place[m] = "completed"
    BY <1>2, ReturnedCompletesNothing DEF CloseEnds
  <2> QED
    BY <2>1, <2>2, SettleKept
<1>3. ASSUME NEW s \in Slots, NEW k \in Messages, Deliver(s, k)
      PROVE  SettleInv'
  <2>1. UNCHANGED <<config, succeeded>>
    BY <1>3 DEF Deliver
  <2>2. \A m \in Messages : place'[m] = "completed" => place[m] = "completed"
    BY <1>0, <1>3 DEF Deliver
  <2>3. \A d \in Deliveries : call'[d] \in {call[d], "handler"}
    BY <1>0, <1>3 DEF Deliver
  <2> QED
    BY <2>1, <2>2, <2>3, SettleKept
<1>4. ASSUME NEW d \in Deliveries, NEW outcome \in Outcomes, NEW override \in Overrides \cup {None},
             HandlerEnds(d, outcome, override)
      PROVE  SettleInv'
  <2>1. Vouched'
    BY <1>4, HandlerVouches DEF SettleInv
  <2>2. UNCHANGED <<config, place>>
    BY <1>4 DEF HandlerEnds, broker
  <2>3. \A m \in Messages : succeeded[m] > 0 => succeeded'[m] > 0
    BY <1>4 DEF HandlerEnds, TypeInv, TypeOK, Deliveries
  <2>4. SettledAfterHandling'
    BY <2>2, <2>3 DEF SettleInv, SettledAfterHandling
  <2> QED
    BY <2>1, <2>4 DEF SettleInv
<1>5. ASSUME NEW d \in Deliveries, Settles(d)
      PROVE  SettleInv'
  <2>1. UNCHANGED <<config, succeeded>>
    BY <1>5 DEF Settles, SettleResolves, SettleRejects
  <2>2. UNCHANGED place \/ Applied(d)
    BY <1>5 DEF Settles, SettleResolves, SettleRejects
  <2>3. \A m \in Messages : place'[m] = "completed" =>
          place[m] = "completed" \/ (m = d[1] /\ call[d] \in {"complete", "rescueComplete"})
    BY <2>2, AppliedCompletes
  <2>4. call' = [call EXCEPT ![d] = None] \/ call' = [call EXCEPT ![d] = Rescue]
    BY <1>5 DEF Settles, SettleResolves, SettleRejects, CallOver
  <2>5. \A e \in Deliveries : call'[e] \in {call[e], None, Rescue}
    BY <1>0, <2>4
  <2> QED
    BY <2>1, <2>3, <2>5, SettleKept
<1>6. ASSUME (\E k \in Messages : LockLost(k)) \/ (\E ss \in Sessions : OrphanExpires(ss))
      PROVE  SettleInv'
  <2>1. UNCHANGED <<config, succeeded, call>>
    BY <1>6 DEF LockLost, OrphanExpires
  <2>2. \A m \in Messages : place'[m] = "completed" => place[m] = "completed"
    BY <1>6, ReturnedCompletesNothing DEF LockLost, OrphanExpires
  <2> QED
    BY <2>1, <2>2, SettleKept
<1>7. ASSUME TokenAborts \/ StopBegins \/ StopEnds \/ UNCHANGED vars
      PROVE  SettleInv'
  <2>1. UNCHANGED <<config, succeeded, place, call>>
    BY <1>7 DEF TokenAborts, StopBegins, StopEnds, broker, vars
  <2> QED
    BY <2>1, SettleKept
<1> QED
  BY <1>1, <1>2, <1>3, <1>4, <1>5, <1>6, <1>7 DEF Next, SlotSteps, SomeEnd

\* Under Explicit a completed message was handled with success, or completed
\* by its handler's own word, whatever locks and settlements are lost.
THEOREM ServiceBusSettlesHandled == Spec => []SettledAfterHandling
<1>1. Init => SettleInv
  BY DEF Init, SettleInv, SettledAfterHandling, Vouched, None, Deliveries
<1>2. SettleInv => SettledAfterHandling
  BY DEF SettleInv
<1> QED
  BY <1>1, <1>2, TypeInit, TypeStep, SettleStep, PTL DEF Spec
-----------------------------------------------------------------------------
(* Stopping.                                                               *)

\* Serving slots stay so and nothing new is locked or called: what is locked
\* and called stays attributed.
LEMMA AttributedKept ==
  ASSUME Attributed, UNCHANGED <<config, count>>,
         \A s \in Slots : pc[s] \in {"receiving", "closing"} => pc'[s] \in {"receiving", "closing"},
         \A ss \in Sessions : lock'[ss] \in {lock[ss], None},
         \A m \in Messages : place'[m] = "locked" =>
           place[m] = "locked" /\ receiver'[<<m, count[m]>>] = receiver[<<m, count[m]>>],
         \A d \in Deliveries : call'[d] # None => call[d] # None /\ receiver'[d] = receiver[d]
  PROVE  Attributed'
<1>1. ASSUME NEW s, Holder(s) PROVE Holder(s)'
  BY <1>1 DEF Holder
<1>2. \A ss \in Sessions : lock'[ss] # None => Holder(lock[ss])' /\ lock'[ss] = lock[ss]
  BY <1>1 DEF Attributed
<1>3. \A m \in Messages : place'[m] = "locked" =>
        /\ count'[m] \in Counts
        /\ Holder(receiver[<<m, count[m]>>])
        /\ receiver'[<<m, count'[m]>>] = receiver[<<m, count[m]>>]
  BY DEF Attributed
<1>4. config'.closeWaits => \A d \in Deliveries : call'[d] # None => Holder(receiver[d]) /\ receiver'[d] = receiver[d]
  BY DEF Attributed, Live
<1> QED
  BY <1>1, <1>2, <1>3, <1>4 DEF Attributed, Live, Holder

\* A lock that is given back locks nothing.
LEMMA ReturnedLocksNothing ==
  ASSUME NEW ms, NEW m \in Messages, Returned(ms)[m] = "locked"
  PROVE  place[m] = "locked" /\ m \notin ms
BY DEF Returned

\* A settlement the broker makes leaves its own message unlocked.
LEMMA AppliedUnlocks ==
  ASSUME TypeInv, NEW d \in Deliveries, Applied(d), NEW m \in Messages, place'[m] = "locked"
  PROVE  place[m] = "locked" /\ m # d[1]
<1>1. place \in [Messages -> Places] /\ d[1] \in Messages
  BY DEF TypeInv, TypeOK, Places, Deliveries
<1>2. CASE call[d] \in {"complete", "rescueComplete"}
  <2>1. place' = [place EXCEPT ![d[1]] = "completed"]
    BY <1>2 DEF Applied
  <2> QED
    BY <1>1, <2>1
<1>3. CASE call[d] = "aside"
  <2>1. place' = [place EXCEPT ![d[1]] = "dead"]
    BY <1>3 DEF Applied
  <2> QED
    BY <1>1, <2>1
<1>4. CASE call[d] \notin {"complete", "rescueComplete", "aside"}
  <2>1. place' = [place EXCEPT ![d[1]] = Returned({d[1]})[d[1]]]
    BY <1>4 DEF Applied
  <2>2. Returned({d[1]})[d[1]] # "locked"
    BY <1>1, ReturnedLocksNothing
  <2> QED
    BY <1>1, <2>1, <2>2
<1> QED
  BY <1>2, <1>3, <1>4

\* The end of a delivery forgets its receiver only with its lock.
LEMMA CallOverAttributed ==
  ASSUME TypeInv, Attributed, NEW d \in Deliveries, NEW throws \in BOOLEAN, CallOver(d, throws),
         UNCHANGED <<config, count, lock>>,
         UNCHANGED place \/ Applied(d)
  PROVE  Attributed'
<1>1. /\ place \in [Messages -> Places]
      /\ pc \in [Slots -> Modes]
      /\ receiver \in [Deliveries -> Slots \cup {None, Orphaned}]
      /\ call \in [Deliveries -> Calls]
  BY DEF TypeInv, TypeOK, Places, Modes, Calls
<1>2. \A s \in Slots : pc[s] \in {"receiving", "closing"} => pc'[s] \in {"receiving", "closing"}
  BY <1>1 DEF CallOver, Finished
<1>3. \A m \in Messages : place'[m] = "locked" => place[m] = "locked"
  BY AppliedUnlocks
<1>4. \/ receiver' = receiver
      \/ place'[d[1]] # "locked" /\ receiver' = [receiver EXCEPT ![d] = None]
  BY DEF CallOver
<1>5. \A m \in Messages : place'[m] = "locked" =>
        receiver'[<<m, count[m]>>] = receiver[<<m, count[m]>>]
  <2> SUFFICES ASSUME NEW m \in Messages, place'[m] = "locked"
               PROVE  receiver'[<<m, count[m]>>] = receiver[<<m, count[m]>>]
    OBVIOUS
  <2>1. <<m, count[m]>> \in Deliveries
    BY <1>3 DEF Attributed, Deliveries
  <2>2. CASE receiver' = receiver
    BY <2>2
  <2>3. CASE place'[d[1]] # "locked" /\ receiver' = [receiver EXCEPT ![d] = None]
    <3>1. <<m, count[m]>> # d
      BY <2>3
    <3> QED
      BY <1>1, <2>1, <2>3, <3>1
  <2> QED
    BY <1>4, <2>2, <2>3
<1>6. \A e \in Deliveries : call'[e] # None => e # d /\ call[e] # None
  BY <1>1 DEF CallOver
<1>7. \A e \in Deliveries : e # d => receiver'[e] = receiver[e]
  BY <1>1, <1>4
<1> QED
  BY <1>2, <1>3, <1>5, <1>6, <1>7, AttributedKept

\* Slots serve what they have locked and called, until they close it.
LEMMA AttributedStep == TypeInv /\ Attributed /\ [Next]_vars => Attributed'
<1> SUFFICES ASSUME TypeInv, Attributed, [Next]_vars PROVE Attributed'
  OBVIOUS
<1>0. /\ place \in [Messages -> Places]
      /\ count \in [Messages -> 0 .. MaxDeliveries]
      /\ lock \in [Sessions -> Slots \cup {None, Orphaned}]
      /\ pc \in [Slots -> Modes]
      /\ receiver \in [Deliveries -> Slots \cup {None, Orphaned}]
      /\ call \in [Deliveries -> Calls]
  BY DEF TypeInv, TypeOK, Places, Modes, Calls
<1>1. ASSUME NEW s \in Slots, Accept(s)
      PROVE  Attributed'
  <2>1. /\ \E ss \in Sessions : lock' = [lock EXCEPT ![ss] = s]
        /\ pc[s] = "accepting"
        /\ pc' = [pc EXCEPT ![s] = IF aborted THEN "closing" ELSE "receiving"]
        /\ UNCHANGED <<config, place, count, receiver, call>>
    BY <1>1 DEF Accept
  <2>2. Holder(s)'
    BY <1>0, <2>1 DEF Holder
  <2>3. ASSUME NEW t, Holder(t) PROVE Holder(t)'
    BY <1>0, <2>1, <2>3 DEF Holder
  <2>4. \A ss \in Sessions : lock'[ss] # None => lock'[ss] = s \/ (lock'[ss] = lock[ss] /\ Holder(lock[ss]))
    BY <1>0, <2>1 DEF Attributed
  <2>5. \A ss \in Sessions : lock'[ss] # None =>
          lock'[ss] = Orphaned \/ (lock'[ss] \in Slots /\ pc'[lock'[ss]] \in {"receiving", "closing"})
    BY <2>2, <2>3, <2>4 DEF Holder
  <2> QED
    BY <2>1, <2>3, <2>5 DEF Attributed, Holder, Live
<1>2. ASSUME NEW s \in Slots, AcceptRejects(s) \/ BackoffEnds(s) \/ SessionEnds(s)
      PROVE  Attributed'
  <2>1. UNCHANGED <<config, place, count, lock, receiver, call>>
    BY <1>2 DEF AcceptRejects, BackoffEnds, SessionEnds, broker
  <2>2. \A t \in Slots : pc[t] \in {"receiving", "closing"} => pc'[t] \in {"receiving", "closing"}
    BY <1>0, <1>2 DEF AcceptRejects, BackoffEnds, SessionEnds, Finished
  <2> QED
    BY <2>1, <2>2, AttributedKept
<1>3. ASSUME NEW s \in Slots, CloseEnds(s)
      PROVE  Attributed'
  <2> DEFINE freed == {m \in Messages : \E n \in Counts : receiver[<<m, n>>] = s /\ count[m] = n}
  <2>1. /\ config.closeWaits => LiveOn(s) = {}
        /\ place' = Returned(freed)
        /\ lock' = [ss \in Sessions |-> IF lock[ss] = s THEN None ELSE lock[ss]]
        /\ receiver' = [d \in Deliveries |-> IF receiver[d] = s THEN None ELSE receiver[d]]
        /\ \A t \in Slots \ {s} : pc'[t] = pc[t]
        /\ UNCHANGED <<config, count, call>>
    BY <1>0, <1>3 DEF CloseEnds
  <2>2. ASSUME NEW t, t # s, Holder(t) PROVE Holder(t)'
    BY <2>1, <2>2 DEF Holder
  <2>3. \A ss \in Sessions : lock'[ss] # None => Holder(lock[ss])' /\ lock'[ss] = lock[ss]
    BY <2>1, <2>2 DEF Attributed
  <2>4. \A m \in Messages : place'[m] = "locked" =>
          /\ count[m] \in Counts
          /\ receiver[<<m, count[m]>>] # s
          /\ Holder(receiver[<<m, count[m]>>])
    <3>1. \A m \in Messages : place'[m] = "locked" => place[m] = "locked" /\ m \notin freed
      BY <2>1, ReturnedLocksNothing
    <3> QED
      BY <3>1 DEF Attributed
  <2>5. \A m \in Messages : place'[m] = "locked" =>
          receiver'[<<m, count[m]>>] = receiver[<<m, count[m]>>]
    BY <2>1, <2>4 DEF Deliveries
  <2>6. config.closeWaits => \A d \in Deliveries : call[d] # None =>
          receiver[d] # s /\ Holder(receiver[d]) /\ receiver'[d] = receiver[d]
    BY <2>1 DEF Attributed, LiveOn, Live
  <2> HIDE DEF freed
  <2>7. \A m \in Messages : place'[m] = "locked" =>
          /\ count'[m] \in Counts
          /\ receiver'[<<m, count'[m]>>] = receiver[<<m, count[m]>>]
          /\ \/ receiver[<<m, count[m]>>] = Orphaned
             \/ /\ receiver[<<m, count[m]>>] \in Slots
                /\ pc'[receiver[<<m, count[m]>>]] \in {"receiving", "closing"}
    BY <2>1, <2>4, <2>5 DEF Holder
  <2>8. config.closeWaits => \A d \in Deliveries : call[d] # None =>
          /\ receiver'[d] = receiver[d]
          /\ \/ receiver[d] = Orphaned
             \/ receiver[d] \in Slots /\ pc'[receiver[d]] \in {"receiving", "closing"}
    BY <2>1, <2>6 DEF Holder
  <2> QED
    BY <2>1, <2>3, <2>7, <2>8 DEF Attributed, Holder, Live
<1>10. ASSUME NEW s \in Slots, CloseFails(s)
       PROVE  Attributed'
  <2>1. /\ lock' = [ss \in Sessions |-> IF lock[ss] = s THEN Orphaned ELSE lock[ss]]
        /\ receiver' = [d \in Deliveries |-> IF receiver[d] = s THEN Orphaned ELSE receiver[d]]
        /\ \A t \in Slots \ {s} : pc'[t] = pc[t]
        /\ UNCHANGED <<config, place, count, call>>
    BY <1>0, <1>10 DEF CloseFails
  <2>2. ASSUME NEW t, t # s, Holder(t)
        PROVE  t = Orphaned \/ (t \in Slots /\ pc'[t] \in {"receiving", "closing"})
    BY <2>1, <2>2 DEF Holder
  <2>3. \A ss \in Sessions : lock'[ss] # None =>
          lock'[ss] = Orphaned \/ (lock'[ss] \in Slots /\ pc'[lock'[ss]] \in {"receiving", "closing"})
    BY <2>1, <2>2 DEF Attributed
  <2>4. ASSUME NEW d \in Deliveries, Holder(receiver[d])
        PROVE  receiver'[d] = Orphaned \/ (receiver'[d] \in Slots /\ pc'[receiver'[d]] \in {"receiving", "closing"})
    BY <2>1, <2>2, <2>4
  <2>5. \A m \in Messages : place[m] = "locked" =>
          <<m, count[m]>> \in Deliveries /\ count[m] \in Counts /\ Holder(receiver[<<m, count[m]>>])
    BY DEF Attributed, Deliveries
  <2>6. config.closeWaits => \A d \in Deliveries : call[d] # None => Holder(receiver[d])
    BY DEF Attributed, Live
  <2> QED
    BY <2>1, <2>3, <2>4, <2>5, <2>6 DEF Attributed, Holder, Live
<1>11. ASSUME NEW ss \in Sessions, OrphanExpires(ss)
       PROVE  Attributed'
  <2>1. /\ place' = Returned({m \in Messages : SessionOf(m) = ss})
        /\ lock' = [lock EXCEPT ![ss] = None]
        /\ UNCHANGED <<config, count, pc, receiver, call>>
    BY <1>11 DEF OrphanExpires
  <2>2. \A m \in Messages : place'[m] = "locked" => place[m] = "locked"
    BY <2>1, ReturnedLocksNothing
  <2>3. \A tt \in Sessions : lock'[tt] \in {lock[tt], None}
    BY <1>0, <2>1
  <2> QED
    BY <2>1, <2>2, <2>3, AttributedKept
<1>4. ASSUME NEW s \in Slots, NEW k \in Messages, Deliver(s, k)
      PROVE  Attributed'
  <2> DEFINE new == <<k, count[k] + 1>>
  <2>1. /\ pc[s] = "receiving" /\ place[k] = "queued"
        /\ place' = [place EXCEPT ![k] = "locked"]
        /\ count' = [count EXCEPT ![k] = count[k] + 1]
        /\ receiver' = [receiver EXCEPT ![<<k, count'[k]>>] = s]
        /\ call' = [call EXCEPT ![<<k, count'[k]>>] = "handler"]
        /\ UNCHANGED <<config, lock, pc>>
    BY <1>4 DEF Deliver
  <2>2. count'[k] = count[k] + 1 /\ count[k] + 1 \in Counts
    BY <1>0, <2>1, ServiceBusAssumption DEF ServiceBusAssumption, TypeInv, FewDelivered, Counts
  <2>3. new \in Deliveries
    BY <2>2 DEF Deliveries
  <2>4. /\ receiver' = [receiver EXCEPT ![new] = s]
        /\ call' = [call EXCEPT ![new] = "handler"]
    BY <2>1, <2>2
  <2>5. Holder(s)
    BY <2>1 DEF Holder
  <2>6. \A m \in Messages \ {k} : place'[m] = "locked" =>
          /\ count[m] \in Counts /\ count'[m] = count[m]
          /\ Holder(receiver[<<m, count[m]>>])
          /\ receiver'[<<m, count[m]>>] = receiver[<<m, count[m]>>]
    <3> SUFFICES ASSUME NEW m \in Messages \ {k}, place'[m] = "locked"
                 PROVE  /\ count[m] \in Counts /\ count'[m] = count[m]
                        /\ Holder(receiver[<<m, count[m]>>])
                        /\ receiver'[<<m, count[m]>>] = receiver[<<m, count[m]>>]
      OBVIOUS
    <3>1. place[m] = "locked" /\ count'[m] = count[m]
      BY <1>0, <2>1
    <3>2. count[m] \in Counts /\ Holder(receiver[<<m, count[m]>>])
      BY <3>1 DEF Attributed
    <3>3. <<m, count[m]>> \in Deliveries /\ <<m, count[m]>> # new
      BY <3>2 DEF Deliveries
    <3> QED
      BY <1>0, <2>3, <2>4, <3>1, <3>2, <3>3
  <2>7. receiver'[<<k, count'[k]>>] = s /\ count'[k] \in Counts
    BY <1>0, <2>2, <2>3, <2>4
  <2>8. config.closeWaits => \A d \in Deliveries : call'[d] # None => Holder(receiver'[d])
    <3> SUFFICES ASSUME config.closeWaits, NEW d \in Deliveries, call'[d] # None
                 PROVE  Holder(receiver'[d])
      OBVIOUS
    <3>1. CASE d = new
      BY <1>0, <2>3, <2>4, <2>5, <3>1
    <3>2. CASE d # new
      <4>1. call[d] # None /\ receiver'[d] = receiver[d]
        BY <1>0, <2>4, <3>2
      <4> QED
        BY <4>1 DEF Attributed, Live
    <3> QED
      BY <3>1, <3>2
  <2> HIDE DEF new
  <2>9. \A m \in Messages : place'[m] = "locked" =>
          count'[m] \in Counts /\ Holder(receiver'[<<m, count'[m]>>])
    BY <2>5, <2>6, <2>7
  <2> QED
    BY <2>1, <2>8, <2>9 DEF Attributed, Holder, Live
<1>5. ASSUME NEW d \in Deliveries, SomeEnd(d)
      PROVE  Attributed'
  <2>1. /\ UNCHANGED <<config, place, count, lock, pc, receiver>>
        /\ call[d] = "handler"
        /\ \A e \in Deliveries : e # d => call'[e] = call[e]
    BY <1>0, <1>5 DEF SomeEnd, HandlerEnds, broker
  <2>2. \A e \in Deliveries : call'[e] # None => call[e] # None
    BY <2>1 DEF None
  <2> QED
    BY <2>1, <2>2, AttributedKept
<1>6. ASSUME NEW d \in Deliveries, SettleResolves(d)
      PROVE  Attributed'
  <2>1. /\ Applied(d) /\ CallOver(d, call[d] = "rescueAbandon")
        /\ UNCHANGED <<config, count, lock>>
    BY <1>6 DEF SettleResolves
  <2>2. (call[d] = "rescueAbandon") \in BOOLEAN
    OBVIOUS
  <2> QED
    BY <2>1, <2>2, CallOverAttributed
<1>7. ASSUME NEW d \in Deliveries, SettleRejects(d)
      PROVE  Attributed'
  <2>1. /\ UNCHANGED <<config, count, lock>>
        /\ UNCHANGED place \/ Applied(d)
        /\ call[d] # None
    BY <1>7 DEF SettleRejects, Settling
  <2>2. CASE CallOver(d, TRUE)
    BY <2>1, <2>2, CallOverAttributed
  <2>3. CASE call' = [call EXCEPT ![d] = Rescue] /\ UNCHANGED <<pc, receiver>>
    <3>1. \A e \in Deliveries : call'[e] # None => call[e] # None
      BY <1>0, <2>1, <2>3
    <3>2. \A m \in Messages : place'[m] = "locked" => place[m] = "locked"
      BY <2>1, AppliedUnlocks
    <3> QED
      BY <2>1, <2>3, <3>1, <3>2, AttributedKept
  <2> QED
    BY <1>7, <2>2, <2>3 DEF SettleRejects
<1>8. ASSUME NEW k \in Messages, LockLost(k)
      PROVE  Attributed'
  <2>1. /\ place' = Returned(UnderLockOf(k))
        /\ lock' = IF config.sessions THEN [lock EXCEPT ![SessionOf(k)] = None] ELSE lock
        /\ UNCHANGED <<config, count, pc, receiver, call>>
    BY <1>8 DEF LockLost
  <2>2. \A m \in Messages : place'[m] = "locked" => place[m] = "locked"
    BY <2>1, ReturnedLocksNothing
  <2>3. \A ss \in Sessions : lock'[ss] \in {lock[ss], None}
    BY <1>0, <2>1
  <2> QED
    BY <2>1, <2>2, <2>3, AttributedKept
<1>9. ASSUME TokenAborts \/ StopBegins \/ StopEnds \/ UNCHANGED vars
      PROVE  Attributed'
  <2>1. UNCHANGED <<config, place, count, lock, receiver, call>>
    BY <1>9 DEF TokenAborts, StopBegins, StopEnds, broker, vars
  <2>2. \A s \in Slots : pc[s] \in {"receiving", "closing"} => pc'[s] \in {"receiving", "closing"}
    BY <1>0, <1>9 DEF TokenAborts, StopBegins, StopEnds, Interrupted, vars
  <2> QED
    BY <2>1, <2>2, AttributedKept
<1> QED
  BY <1>1, <1>2, <1>3, <1>4, <1>5, <1>6, <1>7, <1>8, <1>9, <1>10, <1>11 DEF Next, SlotSteps, Settles

\* A step that leaves receivers to their deliveries, and to those still locked
\* their session's lock.
LEMMA MatchedKept ==
  ASSUME Matched, UNCHANGED <<config, count>>, stop = "failed" => stop' = "failed",
         \A m \in Messages : place'[m] = "locked" =>
           /\ place[m] = "locked" /\ receiver'[<<m, count[m]>>] = receiver[<<m, count[m]>>]
           /\ config.sessions => lock'[SessionOf(m)] = lock[SessionOf(m)],
         \A d \in Deliveries : receiver'[d] = Orphaned => receiver[d] = Orphaned
  PROVE  Matched'
BY DEF Matched, SessionOf

\* Every step leaves a session to one receiver.
LEMMA MatchedStep == TypeInv /\ Attributed /\ Matched /\ [Next]_vars => Matched'
<1> SUFFICES ASSUME TypeInv, Attributed, Matched, [Next]_vars PROVE Matched'
  OBVIOUS
<1>0. /\ place \in [Messages -> Places]
      /\ count \in [Messages -> 0 .. MaxDeliveries]
      /\ lock \in [Sessions -> Slots \cup {None, Orphaned}]
      /\ receiver \in [Deliveries -> Slots \cup {None, Orphaned}]
      /\ \A m \in Messages : SessionOf(m) \in Sessions
      /\ \A m \in Messages : place[m] = "locked" => <<m, count[m]>> \in Deliveries
  BY ServiceBusAssumption DEF ServiceBusAssumption, TypeInv, TypeOK, Places, SessionOf, Attributed, Deliveries
<1>1. ASSUME NEW s \in Slots, Accept(s)
      PROVE  Matched'
  <2>1. PICK ss \in Sessions : lock[ss] = None /\ lock' = [lock EXCEPT ![ss] = s]
    BY <1>1 DEF Accept
  <2>2. UNCHANGED <<config, place, count, receiver, stop>>
    BY <1>1 DEF Accept
  <2>3. ASSUME NEW m \in Messages, place[m] = "locked", config.sessions
        PROVE  lock'[SessionOf(m)] = lock[SessionOf(m)]
    <3>1. lock[SessionOf(m)] # None
      BY <2>3, SlotAssumption DEF Matched, Attributed, Holder, None, Orphaned
    <3> QED
      BY <1>0, <2>1, <3>1
  <2> QED
    BY <2>2, <2>3, MatchedKept
<1>2. ASSUME NEW s \in Slots, AcceptRejects(s) \/ BackoffEnds(s) \/ SessionEnds(s)
      PROVE  Matched'
  <2>1. UNCHANGED <<config, place, count, lock, receiver, stop>>
    BY <1>2 DEF AcceptRejects, BackoffEnds, SessionEnds, broker
  <2> QED
    BY <2>1, MatchedKept
<1>3. ASSUME NEW s \in Slots, CloseEnds(s)
      PROVE  Matched'
  <2> DEFINE freed == {m \in Messages : \E n \in Counts : receiver[<<m, n>>] = s /\ count[m] = n}
  <2>1. /\ place' = Returned(freed)
        /\ lock' = [ss \in Sessions |-> IF lock[ss] = s THEN None ELSE lock[ss]]
        /\ receiver' = [d \in Deliveries |-> IF receiver[d] = s THEN None ELSE receiver[d]]
        /\ UNCHANGED <<config, count, stop>>
    BY <1>3 DEF CloseEnds
  <2>2. ASSUME NEW m \in Messages, place'[m] = "locked"
        PROVE  /\ place[m] = "locked" /\ receiver'[<<m, count[m]>>] = receiver[<<m, count[m]>>]
               /\ config.sessions => lock'[SessionOf(m)] = lock[SessionOf(m)]
    <3>1. place[m] = "locked" /\ m \notin freed
      BY <2>1, <2>2, ReturnedLocksNothing
    <3>2. receiver[<<m, count[m]>>] # s /\ <<m, count[m]>> \in Deliveries
      BY <1>0, <3>1 DEF Attributed
    <3>3. config.sessions => lock[SessionOf(m)] # s /\ SessionOf(m) \in Sessions
      BY <1>0, <3>1, <3>2 DEF Matched
    <3> QED
      BY <2>1, <3>1, <3>2, <3>3
  <2>3. \A d \in Deliveries : receiver'[d] = Orphaned => receiver[d] = Orphaned
    BY <2>1 DEF None, Orphaned
  <2> HIDE DEF freed
  <2> QED
    BY <2>1, <2>2, <2>3, MatchedKept
<1>4. ASSUME NEW s \in Slots, CloseFails(s)
      PROVE  Matched'
  <2>1. /\ lock' = [ss \in Sessions |-> IF lock[ss] = s THEN Orphaned ELSE lock[ss]]
        /\ receiver' = [d \in Deliveries |-> IF receiver[d] = s THEN Orphaned ELSE receiver[d]]
        /\ ~config.sessions => stop' = "failed"
        /\ UNCHANGED <<config, place, count>>
    BY <1>4 DEF CloseFails
  <2>2. ASSUME config.sessions, NEW m \in Messages, place[m] = "locked"
        PROVE  lock'[SessionOf(m)] = receiver'[<<m, count[m]>>]
    <3>1. lock[SessionOf(m)] = receiver[<<m, count[m]>>]
      BY <2>2 DEF Matched
    <3> QED
      BY <1>0, <2>1, <2>2, <3>1
  <2> QED
    BY <2>1, <2>2 DEF Matched, SessionOf
<1>5. ASSUME NEW s \in Slots, NEW k \in Messages, Deliver(s, k)
      PROVE  Matched'
  <2>1. /\ place' = [place EXCEPT ![k] = "locked"]
        /\ count' = [count EXCEPT ![k] = count[k] + 1]
        /\ receiver' = [receiver EXCEPT ![<<k, count'[k]>>] = s]
        /\ config.sessions => lock[SessionOf(k)] = s
        /\ UNCHANGED <<config, lock, stop>>
    BY <1>5 DEF Deliver
  <2>2. count'[k] = count[k] + 1 /\ <<k, count'[k]>> \in Deliveries
    BY <1>0, <1>5, <2>1, ServiceBusAssumption
       DEF Deliver, ServiceBusAssumption, TypeInv, FewDelivered, Counts, Deliveries
  <2>3. receiver'[<<k, count'[k]>>] = s
    BY <1>0, <2>1, <2>2
  <2>4. ASSUME NEW m \in Messages \ {k}, place'[m] = "locked"
        PROVE  /\ place[m] = "locked" /\ count'[m] = count[m]
               /\ receiver'[<<m, count[m]>>] = receiver[<<m, count[m]>>]
    <3>1. place[m] = "locked" /\ count'[m] = count[m]
      BY <1>0, <2>1, <2>4
    <3>2. <<m, count[m]>> \in Deliveries /\ <<m, count[m]>> # <<k, count'[k]>>
      BY <1>0, <3>1
    <3> QED
      BY <1>0, <2>1, <2>2, <3>1, <3>2
  <2>5. \A d \in Deliveries : receiver'[d] = Orphaned => receiver[d] = Orphaned
    BY <1>0, <2>1, <2>2, SlotAssumption
  <2> QED
    BY <2>1, <2>3, <2>4, <2>5 DEF Matched, SessionOf
<1>6. ASSUME NEW d \in Deliveries, SomeEnd(d)
      PROVE  Matched'
  <2>1. UNCHANGED <<config, place, count, lock, receiver, stop>>
    BY <1>6 DEF SomeEnd, HandlerEnds, broker
  <2> QED
    BY <2>1, MatchedKept
<1>7. ASSUME NEW d \in Deliveries, Settles(d)
      PROVE  Matched'
  <2>1. UNCHANGED <<config, count, lock, stop>> /\ (UNCHANGED place \/ Applied(d))
    BY <1>7 DEF Settles, SettleResolves, SettleRejects
  <2>2. \/ receiver' = receiver
        \/ place'[d[1]] # "locked" /\ receiver' = [receiver EXCEPT ![d] = None]
    BY <1>7 DEF Settles, SettleResolves, SettleRejects, CallOver
  <2>3. ASSUME NEW m \in Messages, place'[m] = "locked"
        PROVE  place[m] = "locked" /\ receiver'[<<m, count[m]>>] = receiver[<<m, count[m]>>]
    <3>1. place[m] = "locked"
      BY <2>1, <2>3, AppliedUnlocks
    <3>2. place'[d[1]] # "locked" => <<m, count[m]>> # d
      BY <2>3
    <3> QED
      BY <1>0, <2>2, <3>1, <3>2
  <2>4. \A e \in Deliveries : receiver'[e] = Orphaned => receiver[e] = Orphaned
    BY <1>0, <2>2 DEF None, Orphaned
  <2> QED
    BY <2>1, <2>3, <2>4, MatchedKept
<1>8. ASSUME NEW k \in Messages, LockLost(k)
      PROVE  Matched'
  <2>1. /\ place' = Returned(UnderLockOf(k))
        /\ lock' = IF config.sessions THEN [lock EXCEPT ![SessionOf(k)] = None] ELSE lock
        /\ UNCHANGED <<config, count, receiver, stop>>
    BY <1>8 DEF LockLost
  <2>2. ASSUME NEW m \in Messages, place'[m] = "locked"
        PROVE  /\ place[m] = "locked"
               /\ config.sessions => lock'[SessionOf(m)] = lock[SessionOf(m)]
    <3>1. place[m] = "locked" /\ m \notin UnderLockOf(k)
      BY <2>1, <2>2, ReturnedLocksNothing
    <3>2. config.sessions => SessionOf(m) # SessionOf(k)
      BY <3>1 DEF UnderLockOf
    <3> QED
      BY <1>0, <2>1, <3>1, <3>2
  <2> QED
    BY <2>1, <2>2, MatchedKept
<1>9. ASSUME NEW ss \in Sessions, OrphanExpires(ss)
      PROVE  Matched'
  <2>1. /\ place' = Returned({m \in Messages : SessionOf(m) = ss})
        /\ lock' = [lock EXCEPT ![ss] = None]
        /\ UNCHANGED <<config, count, receiver, stop>>
    BY <1>9 DEF OrphanExpires
  <2>2. ASSUME NEW m \in Messages, place'[m] = "locked"
        PROVE  place[m] = "locked" /\ lock'[SessionOf(m)] = lock[SessionOf(m)]
    <3>1. place[m] = "locked" /\ SessionOf(m) # ss
      BY <2>1, <2>2, ReturnedLocksNothing
    <3> QED
      BY <1>0, <2>1, <3>1
  <2> QED
    BY <2>1, <2>2, MatchedKept
<1>10. ASSUME TokenAborts \/ StopBegins \/ StopEnds \/ UNCHANGED vars
       PROVE  Matched'
  <2>1. UNCHANGED <<config, place, count, lock, receiver>> /\ (stop = "failed" => stop' = "failed")
    BY <1>10 DEF TokenAborts, StopBegins, StopEnds, broker, vars
  <2> QED
    BY <2>1, MatchedKept
<1> QED
  BY <1>1, <1>2, <1>3, <1>4, <1>5, <1>6, <1>7, <1>8, <1>9, <1>10 DEF Next, SlotSteps

\* No slot leaves its loop's end, and stopAsync returns only there.
LEMMA ExitedStep == TypeInv /\ AllExited /\ [Next]_vars => AllExited'
<1> SUFFICES ASSUME TypeInv, AllExited, [Next]_vars, stop' = "stopped", NEW t \in Slots
             PROVE  pc'[t] = "exited"
  BY DEF AllExited
<1>0. pc \in [Slots -> Modes]
  BY DEF TypeInv, TypeOK, Modes
<1>1. CASE StopEnds
  BY <1>1 DEF StopEnds
<1>2. ASSUME ~StopEnds
      PROVE  pc'[t] = "exited"
  <2>1. stop = "stopped"
    BY <1>2 DEF Next, SlotSteps, SomeEnd, Settles, Accept, AcceptRejects, BackoffEnds, CloseEnds,
         SessionEnds, CloseFails, Deliver, HandlerEnds, SettleResolves, SettleRejects, LockLost,
         OrphanExpires, TokenAborts, StopBegins, vars
  <2>2. \A s \in Slots : pc[s] = "exited"
    BY <2>1 DEF AllExited
  <2>3. ASSUME NEW s \in Slots, Accept(s) \/ SlotSteps(s) \/ SessionEnds(s) \/ CloseFails(s)
        PROVE  FALSE
    BY <2>2, <2>3 DEF Accept, SlotSteps, AcceptRejects, BackoffEnds, CloseEnds, SessionEnds, CloseFails
  <2>4. ASSUME NEW s \in Slots, NEW m \in Messages, Deliver(s, m)
        PROVE  FALSE
    BY <2>2, <2>4 DEF Deliver
  <2>5. ASSUME NEW d \in Deliveries, SomeEnd(d)
        PROVE  UNCHANGED pc
    BY <2>5 DEF SomeEnd, HandlerEnds
  <2>6. ASSUME NEW d \in Deliveries, Settles(d)
        PROVE  pc'[t] = "exited"
    BY <1>0, <2>2, <2>6 DEF Settles, SettleResolves, SettleRejects, CallOver, Finished
  <2>7. ASSUME (\E m \in Messages : LockLost(m)) \/ (\E ss \in Sessions : OrphanExpires(ss))
        PROVE  UNCHANGED pc
    BY <2>7 DEF LockLost, OrphanExpires
  <2>8. ASSUME TokenAborts \/ StopBegins \/ UNCHANGED vars
        PROVE  pc'[t] = "exited"
    BY <1>0, <2>1, <2>2, <2>8 DEF TokenAborts, StopBegins, Interrupted, vars
  <2> QED
    BY <1>2, <2>2, <2>3, <2>4, <2>5, <2>6, <2>7, <2>8 DEF Next
<1> QED
  BY <1>1, <1>2

\* After stopAsync nothing is locked, and no handler a receiver waits for runs,
\* but for what receivers had whose close() was rejected.
THEOREM ServiceBusStopsClosed == Spec => []StoppedClosed
<1>1. Init => StopInv
  <2> SUFFICES ASSUME Init PROVE StopInv
    OBVIOUS
  <2>1. /\ \A ss \in Sessions : lock[ss] = None
        /\ \A m \in Messages : place[m] = "queued"
        /\ \A d \in Deliveries : call[d] = None /\ receiver[d] = None
        /\ stop = "running"
    BY DEF Init
  <2> QED
    BY <2>1 DEF StopInv, Attributed, Matched, AllExited, Live, None, Orphaned
<1>2. TypeInv /\ StopInv /\ [Next]_vars => StopInv'
  BY AttributedStep, MatchedStep, ExitedStep DEF StopInv
<1>3. StopInv => StoppedClosed
  <2> SUFFICES ASSUME StopInv, stop = "stopped" PROVE StoppedClosed
    BY DEF StoppedClosed
  <2>1. \A s : Holder(s) => s = Orphaned
    BY DEF StopInv, AllExited, Holder
  <2>2. ASSUME NEW m \in Messages, place[m] = "locked" PROVE lock[SessionOf(m)] = Orphaned
    <3>1. /\ receiver[<<m, count[m]>>] = Orphaned
          /\ <<m, count[m]>> \in Deliveries
      BY <2>1, <2>2 DEF StopInv, Attributed, Deliveries
    <3> QED
      BY <2>2, <3>1 DEF StopInv, Matched
  <2>3. \A ss \in Sessions : lock[ss] \in {None, Orphaned}
    BY <2>1 DEF StopInv, Attributed
  <2>4. config.closeWaits => \A d \in Deliveries : Live(d) => receiver[d] = Orphaned
    BY <2>1 DEF StopInv, Attributed
  <2> QED
    BY <2>2, <2>3, <2>4 DEF StoppedClosed
<1> QED
  BY <1>1, <1>2, <1>3, TypeInit, TypeStep, PTL DEF Spec

-----------------------------------------------------------------------------
(* Serving.  With receivers that wait for their handlers and a broker that *)
(* loses nothing, a delivery keeps its lock until it is settled.           *)

Calm == config.closeWaits /\ faults = 0

\* Deliveries that are handled or settled and messages that are locked are the
\* same, one delivery each.
Held ==
  /\ \A d \in Deliveries : Live(d) => LockHeld(d)
  /\ \A m \in Messages : place[m] = "locked" => count[m] \in Counts /\ Live(<<m, count[m]>>)

\* A message that was handled with success is completed, or about to be.
Once ==
  \A m \in Messages :
    /\ succeeded[m] <= 1
    /\ succeeded[m] > 0 =>
         place[m] = "completed" \/ \E n \in Counts : call[<<m, n>>] = "complete"

\* The delivery of a session is made by the slot that has its lock, alone, and
\* nothing sent before it is left.
InTurn ==
  config.sessions /\ config.calls = 1 =>
    \A d \in Deliveries : Live(d) =>
      /\ receiver[d] = lock[SessionOf(d[1])]
      /\ \A e \in Deliveries : SessionOf(e[1]) = SessionOf(d[1]) =>
           /\ Live(e) => e = d
           /\ e[1] < d[1] => place[e[1]] \notin {"queued", "locked"}

ServeInv == Calm => Held /\ Once /\ InTurn

\* A delivery is its message and count.
LEMMA DeliveryPair ==
  ASSUME NEW d \in Deliveries
  PROVE  d[1] \in Messages /\ d[2] \in Counts /\ d = <<d[1], d[2]>>
BY DEF Deliveries

\* A slot with no room has a live delivery.
LEMMA NoLive ==
  ASSUME TypeInv, NEW s, config.calls = 1, Cardinality(LiveOn(s)) < config.calls
  PROVE  LiveOn(s) = {}
<1>1. MessageCount \in Nat /\ MaxDeliveries \in Nat
  BY ServiceBusAssumption DEF ServiceBusAssumption
<1>2. IsFiniteSet(Messages) /\ IsFiniteSet(Counts)
  BY <1>1, FS_Interval DEF Messages, Counts
<1>3. IsFiniteSet(Deliveries)
  BY <1>2, FS_Product DEF Deliveries
<1>4. IsFiniteSet(LiveOn(s))
  BY <1>3, FS_Subset DEF LiveOn
<1>5. Cardinality(LiveOn(s)) \in Nat /\ (Cardinality(LiveOn(s)) = 0 <=> LiveOn(s) = {})
  BY <1>4, FS_EmptySet, FS_CardinalityType
<1> QED
  BY <1>5

\* Faults are not forgotten.
LEMMA CalmBefore ==
  ASSUME TypeInv, [Next]_vars, Calm'
  PROVE  Calm
<1>1. config \in Configs /\ faults \in Nat
  BY ServiceBusAssumption DEF ServiceBusAssumption, TypeInv, TypeOK
<1>2. config' = config /\ (faults' = faults \/ faults' = faults + 1)
  BY DEF Next, SlotSteps, SomeEnd, Settles, Accept, AcceptRejects, BackoffEnds, CloseEnds,
     SessionEnds, CloseFails, Deliver, HandlerEnds, SettleResolves, SettleRejects, LockLost,
     OrphanExpires, TokenAborts, StopBegins, StopEnds, Fault, vars
<1> QED
  BY <1>1, <1>2 DEF Calm

\* No lock is orphaned without a fault.
Tended == faults = 0 => \A ss \in Sessions : lock[ss] # Orphaned

LEMMA TendedStep == TypeInv /\ Tended /\ [Next]_vars => Tended'
<1> SUFFICES ASSUME TypeInv, Tended, [Next]_vars, faults' = 0, NEW tt \in Sessions
             PROVE  lock'[tt] # Orphaned
  BY DEF Tended
<1>0. faults \in Nat /\ config \in Configs /\ lock \in [Sessions -> Slots \cup {None, Orphaned}]
  BY ServiceBusAssumption DEF ServiceBusAssumption, TypeInv, TypeOK
<1>1. ~Fault
  BY <1>0 DEF Fault
<1>2. faults = 0 /\ lock[tt] # Orphaned
  <2>1. faults' = faults
    BY <1>1 DEF Next, SlotSteps, SomeEnd, Settles, Accept, AcceptRejects, BackoffEnds, CloseEnds,
       SessionEnds, CloseFails, Deliver, HandlerEnds, SettleResolves, SettleRejects, LockLost,
       OrphanExpires, TokenAborts, StopBegins, StopEnds, vars
  <2> QED
    BY <2>1 DEF Tended
<1>3. ASSUME NEW s \in Slots, Accept(s) \/ CloseEnds(s)
      PROVE  lock'[tt] # Orphaned
  BY <1>0, <1>2, <1>3, SlotAssumption DEF Accept, CloseEnds, None, Orphaned
<1>4. ASSUME NEW m \in Messages, LockLost(m)
      PROVE  lock'[tt] # Orphaned
  <2>1. lock'[tt] \in {lock[tt], None}
    BY <1>0, <1>4 DEF LockLost
  <2> QED
    BY <1>2, <2>1 DEF None, Orphaned
<1>5. CASE UNCHANGED lock
  BY <1>2, <1>5
<1>6. ASSUME NEW ss \in Sessions, OrphanExpires(ss)
      PROVE  FALSE
  BY <1>2, <1>6 DEF OrphanExpires, Tended
<1>7. \A s \in Slots : ~CloseFails(s)
  BY <1>1 DEF CloseFails
<1> QED
  BY <1>3, <1>4, <1>5, <1>6, <1>7
     DEF Next, SlotSteps, SomeEnd, Settles, AcceptRejects, BackoffEnds, SessionEnds, Deliver, HandlerEnds,
         SettleResolves, SettleRejects, TokenAborts, StopBegins, StopEnds, broker, vars

\* A session is accepted only when its lock is free: nothing of it is live.
LEMMA AcceptServes ==
  ASSUME TypeInv, Attributed, Calm, Held, Once, InTurn, NEW s \in Slots, Accept(s)
  PROVE  Held' /\ Once' /\ InTurn'
<1>1. PICK ss \in Sessions : lock[ss] = None /\ lock' = [lock EXCEPT ![ss] = s]
  BY DEF Accept
<1>2. UNCHANGED <<config, place, count, receiver, call, succeeded>>
  BY DEF Accept
<1>3. ASSUME config.sessions, config.calls = 1, NEW d \in Deliveries, Live(d)
      PROVE  lock'[SessionOf(d[1])] = lock[SessionOf(d[1])]
  <2>1. receiver[d] # None /\ receiver[d] = lock[SessionOf(d[1])]
    BY <1>3, SlotAssumption DEF Attributed, Calm, Holder, InTurn, None, Orphaned
  <2>2. SessionOf(d[1]) # ss
    BY <1>1, <2>1, SlotAssumption
  <2> QED
    BY <1>1, <2>2 DEF TypeInv, TypeOK
<1>4. Held' /\ Once'
  BY <1>2 DEF Held, Once, Live, LockHeld
<1>5. InTurn'
  BY <1>2, <1>3 DEF InTurn, Live, SessionOf
<1> QED
  BY <1>4, <1>5

\* A receiver closes with no live delivery: it gives back what others wait for.
LEMMA CloseServes ==
  ASSUME TypeInv, Attributed, Calm, Held, Once, InTurn, NEW s \in Slots, CloseEnds(s)
  PROVE  Held' /\ Once' /\ InTurn'
<1> DEFINE freed == {m \in Messages : \E n \in Counts : receiver[<<m, n>>] = s /\ count[m] = n}
<1>1. /\ LiveOn(s) = {}
      /\ place' = Returned(freed)
      /\ lock' = [ss \in Sessions |-> IF lock[ss] = s THEN None ELSE lock[ss]]
      /\ receiver' = [d \in Deliveries |-> IF receiver[d] = s THEN None ELSE receiver[d]]
      /\ UNCHANGED <<config, count, call, succeeded>>
  BY DEF CloseEnds, Calm
<1>2. \A m \in Messages : /\ place'[m] = "locked" => place[m] = "locked"
                          /\ place[m] # "locked" => place'[m] = place[m]
                          /\ m \notin freed => place'[m] = place[m]
  BY <1>1 DEF Returned
<1>3. ASSUME NEW d \in Deliveries, Live(d)
      PROVE  receiver[d] # s /\ receiver'[d] = receiver[d] /\ place'[d[1]] = place[d[1]]
  <2>1. receiver[d] # s
    BY <1>1, <1>3 DEF LiveOn
  <2>2. count[d[1]] = d[2] /\ d[1] \in Messages /\ d = <<d[1], d[2]>>
    BY <1>3, DeliveryPair DEF Held, LockHeld
  <2>3. d[1] \notin freed
    BY <2>1, <2>2
  <2> HIDE DEF freed
  <2> QED
    BY <1>1, <1>2, <2>1, <2>2, <2>3
<1> HIDE DEF freed
<1>4. Held'
  BY <1>1, <1>2, <1>3 DEF Held, Live, LockHeld
<1>5. Once'
  BY <1>1, <1>2 DEF Once
<1>6. InTurn'
  <2> SUFFICES ASSUME config.sessions, config.calls = 1, NEW d \in Deliveries, Live(d)
               PROVE  /\ receiver'[d] = lock'[SessionOf(d[1])]
                      /\ \A e \in Deliveries : SessionOf(e[1]) = SessionOf(d[1]) =>
                           /\ Live(e) => e = d
                           /\ e[1] < d[1] => place'[e[1]] \notin {"queued", "locked"}
    BY <1>1 DEF InTurn, Live, SessionOf
  <2>1. /\ receiver[d] = lock[SessionOf(d[1])]
        /\ \A e \in Deliveries : SessionOf(e[1]) = SessionOf(d[1]) =>
             /\ Live(e) => e = d
             /\ e[1] < d[1] => place[e[1]] \notin {"queued", "locked"}
    BY DEF InTurn
  <2>2. SessionOf(d[1]) \in Sessions
    <3>1. config \in Configs /\ d[1] \in Messages
      BY DeliveryPair DEF TypeInv, TypeOK
    <3> QED
      BY <3>1, ServiceBusAssumption DEF ServiceBusAssumption, SessionOf
  <2>3. receiver'[d] = lock'[SessionOf(d[1])]
    BY <1>1, <1>3, <2>1, <2>2
  <2>4. \A e \in Deliveries : place[e[1]] \notin {"queued", "locked"} =>
          place'[e[1]] \notin {"queued", "locked"}
    BY <1>2, DeliveryPair
  <2> QED
    BY <2>1, <2>3, <2>4
<1> QED
  BY <1>4, <1>5, <1>6

\* A delivery is made while its session has no other, to the slot that has the
\* session, and after all that was sent before it.
LEMMA DeliverServes ==
  ASSUME TypeInv, Attributed, Calm, Held, Once, InTurn,
         NEW s \in Slots, NEW k \in Messages, Deliver(s, k)
  PROVE  Held' /\ Once' /\ InTurn'
<1> DEFINE new == <<k, count[k] + 1>>
<1>0. /\ place \in [Messages -> Places]
      /\ count \in [Messages -> 0 .. MaxDeliveries]
      /\ receiver \in [Deliveries -> Slots \cup {None, Orphaned}]
      /\ call \in [Deliveries -> Calls]
  BY DEF TypeInv, TypeOK, Places, Calls
<1>1. /\ place[k] = "queued"
      /\ place' = [place EXCEPT ![k] = "locked"]
      /\ count' = [count EXCEPT ![k] = count[k] + 1]
      /\ receiver' = [receiver EXCEPT ![<<k, count'[k]>>] = s]
      /\ call' = [call EXCEPT ![<<k, count'[k]>>] = "handler"]
      /\ UNCHANGED <<config, lock, succeeded>>
  BY DEF Deliver
<1>2. count'[k] = count[k] + 1 /\ count[k] + 1 \in Counts
  BY <1>0, <1>1, ServiceBusAssumption DEF ServiceBusAssumption, TypeInv, FewDelivered, Counts
<1>3. new \in Deliveries /\ new[1] = k /\ new[2] = count[k] + 1
  BY <1>2 DEF Deliveries
<1>4. /\ call' = [call EXCEPT ![new] = "handler"]
      /\ receiver' = [receiver EXCEPT ![new] = s]
  BY <1>1, <1>2
<1> HIDE DEF new
<1>5. \A d \in Deliveries : Live(d) => d[1] # k /\ d # new
  BY <1>1, <1>3 DEF Held, LockHeld
<1>6. /\ \A d \in Deliveries \ {new} : call'[d] = call[d] /\ receiver'[d] = receiver[d]
      /\ call'[new] = "handler" /\ receiver'[new] = s
  BY <1>0, <1>3, <1>4
<1>7. /\ \A m \in Messages \ {k} : place'[m] = place[m] /\ count'[m] = count[m]
      /\ place'[k] = "locked"
  BY <1>0, <1>1
<1>8. \A d \in Deliveries : call'[d] # None => d = new \/ (Live(d) /\ d # new)
  BY <1>6 DEF Live
<1>9. Held'
  <2>1. ASSUME NEW d \in Deliveries, call'[d] # None
        PROVE  place'[d[1]] = "locked" /\ count'[d[1]] = d[2]
    <3>1. CASE d = new
      BY <1>2, <1>3, <1>7, <3>1
    <3>2. CASE d # new
      <4>1. Live(d) /\ d[1] \in Messages \ {k}
        BY <1>5, <1>8, <2>1, <3>2, DeliveryPair
      <4> QED
        BY <1>7, <4>1 DEF Held, LockHeld
    <3> QED
      BY <3>1, <3>2
  <2>2. ASSUME NEW m \in Messages, place'[m] = "locked"
        PROVE  count'[m] \in Counts /\ call'[<<m, count'[m]>>] # None
    <3>1. CASE m = k
      <4>1. <<m, count'[m]>> = new
        BY <1>2, <3>1 DEF new
      <4> QED
        BY <1>2, <1>6, <3>1, <4>1 DEF None
    <3>2. CASE m # k
      <4>1. place[m] = "locked" /\ count'[m] = count[m]
        BY <1>7, <2>2, <3>2
      <4>2. count[m] \in Counts /\ Live(<<m, count[m]>>)
        BY <4>1 DEF Held
      <4>3. <<m, count[m]>> \in Deliveries \ {new}
        BY <3>2, <4>2 DEF Deliveries, new
      <4> QED
        BY <1>6, <4>1, <4>2, <4>3 DEF Live
    <3> QED
      BY <3>1, <3>2
  <2> QED
    BY <2>1, <2>2 DEF Held, Live, LockHeld
<1>10. Once'
  <2> SUFFICES ASSUME NEW m \in Messages
               PROVE  /\ succeeded[m] <= 1
                      /\ succeeded[m] > 0 => \/ place'[m] = "completed"
                                             \/ \E n \in Counts : call'[<<m, n>>] = "complete"
    BY <1>1 DEF Once
  <2>1. place[m] = "completed" => place'[m] = "completed"
    BY <1>1, <1>7
  <2>2. ASSUME NEW n \in Counts, call[<<m, n>>] = "complete"
        PROVE  call'[<<m, n>>] = "complete"
    <3>1. <<m, n>> \in Deliveries /\ Live(<<m, n>>)
      BY <2>2 DEF Deliveries, Live, None
    <3> QED
      BY <1>5, <1>6, <2>2, <3>1
  <2> QED
    BY <2>1, <2>2 DEF Once
<1>11. InTurn'
  <2> SUFFICES ASSUME config.sessions, config.calls = 1,
                      NEW d \in Deliveries, call'[d] # None
               PROVE  /\ receiver'[d] = lock[SessionOf(d[1])]
                      /\ \A e \in Deliveries : SessionOf(e[1]) = SessionOf(d[1]) =>
                           /\ call'[e] # None => e = d
                           /\ e[1] < d[1] => place'[e[1]] \notin {"queued", "locked"}
    BY <1>1 DEF InTurn, Live, SessionOf
  <2>1. /\ lock[SessionOf(k)] = s
        /\ \A m \in Messages : SessionOf(m) = SessionOf(k) /\ m < k => place[m] # "queued"
        /\ LiveOn(s) = {}
    BY NoLive DEF Deliver
  <2>2. \A e \in Deliveries : Live(e) =>
          receiver[e] = lock[SessionOf(e[1])] /\ SessionOf(e[1]) # SessionOf(k)
    BY <2>1 DEF InTurn, LiveOn
  <2>3. \A m \in Messages : SessionOf(m) = SessionOf(k) => place[m] # "locked"
    <3> SUFFICES ASSUME NEW m \in Messages, SessionOf(m) = SessionOf(k), place[m] = "locked"
                 PROVE  FALSE
      OBVIOUS
    <3>1. count[m] \in Counts /\ Live(<<m, count[m]>>)
      BY DEF Held
    <3>2. <<m, count[m]>> \in Deliveries /\ <<m, count[m]>>[1] = m
      BY <3>1 DEF Deliveries
    <3> QED
      BY <2>2, <3>1, <3>2
  <2>4. CASE d = new
    <3>1. ASSUME NEW e \in Deliveries, SessionOf(e[1]) = SessionOf(k), call'[e] # None
          PROVE  e = new
      BY <1>8, <2>2, <3>1
    <3>2. ASSUME NEW e \in Deliveries, SessionOf(e[1]) = SessionOf(k), e[1] < k
          PROVE  place'[e[1]] \notin {"queued", "locked"}
      <4>1. e[1] \in Messages /\ e[1] # k
        BY <3>2, DeliveryPair DEF Messages
      <4> QED
        BY <1>7, <2>1, <2>3, <3>2, <4>1
    <3> QED
      BY <1>3, <1>6, <2>1, <2>4, <3>1, <3>2
  <2>5. CASE d # new
    <3>1. Live(d) /\ SessionOf(d[1]) # SessionOf(k)
      BY <1>8, <2>2, <2>5
    <3>2. ASSUME NEW e \in Deliveries, SessionOf(e[1]) = SessionOf(d[1])
          PROVE  /\ e[1] \in Messages \ {k} /\ e # new
                 /\ Live(e) => e = d
                 /\ e[1] < d[1] => place[e[1]] \notin {"queued", "locked"}
      BY <1>3, <3>1, <3>2, DeliveryPair DEF InTurn
    <3>3. ASSUME NEW e \in Deliveries, SessionOf(e[1]) = SessionOf(d[1])
          PROVE  /\ call'[e] # None => e = d
                 /\ e[1] < d[1] => place'[e[1]] \notin {"queued", "locked"}
      BY <1>7, <1>8, <3>2, <3>3
    <3> QED
      BY <1>6, <2>2, <2>5, <3>1, <3>3
  <2> QED
    BY <2>4, <2>5
<1> QED
  BY <1>9, <1>10, <1>11

\* A handler ends on a lock, so its message has not been handled before.
LEMMA HandlerServes ==
  ASSUME TypeInv, Calm, Held, Once, InTurn,
         NEW d \in Deliveries, NEW outcome \in Outcomes, NEW override \in Overrides \cup {None},
         HandlerEnds(d, outcome, override)
  PROVE  Held' /\ Once' /\ InTurn'
<1>0. /\ call \in [Deliveries -> Calls] /\ succeeded \in [Messages -> Nat]
      /\ d[1] \in Messages /\ d[2] \in Counts /\ d = <<d[1], d[2]>>
  BY DeliveryPair DEF TypeInv, TypeOK, Calls
<1>1. /\ call[d] = "handler" /\ Live(d)
      /\ UNCHANGED <<config, place, count, lock, receiver>>
  BY DEF HandlerEnds, broker, Live, None
<1>2. /\ \A e \in Deliveries \ {d} : call'[e] = call[e]
      /\ call'[d] # None
  BY <1>0 DEF HandlerEnds, DefaultSettlement, Rescue, Overrides, None
<1>3. \A e \in Deliveries : Live(e)' <=> Live(e)
  BY <1>1, <1>2 DEF Live
<1>4. LockHeld(d) /\ place[d[1]] = "locked"
  BY <1>1 DEF Held, LockHeld
<1>5. Held'
  <2>1. \A m \in Messages : count[m] \in Counts => <<m, count[m]>> \in Deliveries
    BY DEF Deliveries
  <2> QED
    BY <1>1, <1>3, <2>1 DEF Held, LockHeld
<1>6. InTurn'
  BY <1>1, <1>3 DEF InTurn, SessionOf
<1>7. succeeded[d[1]] = 0
  <2>1. ASSUME NEW n \in Counts, call[<<d[1], n>>] = "complete"
        PROVE  FALSE
    <3>1. <<d[1], n>> \in Deliveries /\ Live(<<d[1], n>>)
      BY <1>0, <2>1 DEF Deliveries, Live, None
    <3>2. count[d[1]] = n
      BY <3>1 DEF Held, LockHeld
    <3>3. <<d[1], n>> = d
      BY <1>0, <1>4, <3>2 DEF LockHeld
    <3> QED
      BY <1>1, <2>1, <3>3
  <2>2. place[d[1]] # "completed"
    BY <1>4
  <2>3. ~(succeeded[d[1]] > 0)
    BY <1>0, <2>1, <2>2 DEF Once
  <2>4. succeeded[d[1]] \in Nat
    BY <1>0
  <2> QED
    BY <2>3, <2>4
<1>8. Once'
  <2> SUFFICES ASSUME NEW m \in Messages
               PROVE  /\ succeeded'[m] <= 1
                      /\ succeeded'[m] > 0 => \/ place[m] = "completed"
                                              \/ \E n \in Counts : call'[<<m, n>>] = "complete"
    BY <1>1 DEF Once
  <2>1. CASE m = d[1]
    <3>1. succeeded'[m] \in {0, 1} /\ (succeeded'[m] = 1 => call'[d] = "complete")
      BY <1>0, <1>7, <2>1 DEF HandlerEnds
    <3>2. call'[d] = "complete" => \E n \in Counts : call'[<<m, n>>] = "complete"
      BY <1>0, <2>1
    <3> QED
      BY <3>1, <3>2
  <2>2. CASE m # d[1]
    <3>1. succeeded'[m] = succeeded[m]
      BY <1>0, <2>2 DEF HandlerEnds
    <3>2. \A n \in Counts : <<m, n>> \in Deliveries \ {d}
      BY <1>0, <2>2 DEF Deliveries
    <3> QED
      BY <1>2, <3>1, <3>2 DEF Once
  <2> QED
    BY <2>1, <2>2
<1> QED
  BY <1>5, <1>6, <1>8

\* A settlement the broker makes ends the one delivery of its message.
LEMMA ResolveServes ==
  ASSUME TypeInv, Calm, Held, Once, InTurn, NEW d \in Deliveries, SettleResolves(d)
  PROVE  Held' /\ Once' /\ InTurn'
<1>0. /\ call \in [Deliveries -> Calls] /\ place \in [Messages -> Places]
      /\ receiver \in [Deliveries -> Slots \cup {None, Orphaned}]
      /\ d[1] \in Messages /\ d[2] \in Counts /\ d = <<d[1], d[2]>>
  BY DeliveryPair DEF TypeInv, TypeOK, Calls, Places
<1>1. /\ call[d] \notin {None, "handler"} /\ Live(d) /\ LockHeld(d) /\ Applied(d)
      /\ call' = [call EXCEPT ![d] = None]
      /\ UNCHANGED <<config, count, lock, succeeded>>
  BY DEF SettleResolves, Settling, CallOver, Live
<1>2. /\ \A e \in Deliveries \ {d} : call'[e] = call[e] /\ receiver'[e] = receiver[e]
      /\ call'[d] = None
  BY <1>0, <1>1 DEF SettleResolves, CallOver
<1>3. /\ \A m \in Messages \ {d[1]} : place'[m] = place[m]
      /\ place[d[1]] = "locked" /\ place'[d[1]] # "locked"
      /\ call[d] = "complete" => place'[d[1]] = "completed"
  <2>1. place'[d[1]] # "locked"
    BY <1>0, <1>1, AppliedUnlocks
  <2>2. \E p : place' = [place EXCEPT ![d[1]] = p]
    BY <1>1 DEF Applied
  <2>3. call[d] = "complete" => place' = [place EXCEPT ![d[1]] = "completed"]
    BY <1>1 DEF Applied
  <2> QED
    BY <1>0, <1>1, <2>1, <2>2, <2>3 DEF LockHeld
<1>4. \A e \in Deliveries : call'[e] # None => Live(e) /\ e # d /\ e[1] \in Messages \ {d[1]}
  <2> SUFFICES ASSUME NEW e \in Deliveries, call'[e] # None
               PROVE  Live(e) /\ e # d /\ e[1] \in Messages \ {d[1]}
    OBVIOUS
  <2>1. Live(e) /\ e # d
    BY <1>2 DEF Live
  <2>2. LockHeld(e) /\ e[1] \in Messages /\ e = <<e[1], e[2]>>
    BY <2>1, DeliveryPair DEF Held
  <2>3. e[1] # d[1]
    BY <1>0, <1>1, <2>1, <2>2 DEF LockHeld
  <2> QED
    BY <2>1, <2>2, <2>3
<1>5. Held'
  <2>1. \A e \in Deliveries : call'[e] # None => place'[e[1]] = "locked" /\ count[e[1]] = e[2]
    BY <1>3, <1>4 DEF Held, LockHeld
  <2>2. ASSUME NEW m \in Messages, place'[m] = "locked"
        PROVE  count[m] \in Counts /\ call'[<<m, count[m]>>] # None
    <3>1. m # d[1] /\ place[m] = "locked"
      BY <1>3, <2>2
    <3>2. count[m] \in Counts /\ Live(<<m, count[m]>>)
      BY <3>1 DEF Held
    <3>3. <<m, count[m]>> \in Deliveries \ {d}
      BY <1>0, <3>1, <3>2 DEF Deliveries
    <3> QED
      BY <1>2, <3>2, <3>3 DEF Live
  <2> QED
    BY <1>1, <2>1, <2>2 DEF Held, Live, LockHeld
<1>6. Once'
  <2> SUFFICES ASSUME NEW m \in Messages
               PROVE  /\ succeeded[m] <= 1
                      /\ succeeded[m] > 0 => \/ place'[m] = "completed"
                                             \/ \E n \in Counts : call'[<<m, n>>] = "complete"
    BY <1>1 DEF Once
  <2>1. place[m] = "completed" => place'[m] = "completed"
    BY <1>3
  <2>2. ASSUME NEW n \in Counts, call[<<m, n>>] = "complete"
        PROVE  place'[m] = "completed" \/ call'[<<m, n>>] = "complete"
    <3>1. <<m, n>> \in Deliveries
      BY DEF Deliveries
    <3>2. CASE <<m, n>> = d
      BY <1>3, <2>2, <3>2
    <3>3. CASE <<m, n>> # d
      BY <1>2, <2>2, <3>1, <3>3
    <3> QED
      BY <3>2, <3>3
  <2> QED
    BY <2>1, <2>2 DEF Once
<1>7. InTurn'
  <2> SUFFICES ASSUME config.sessions, config.calls = 1,
                      NEW e \in Deliveries, call'[e] # None
               PROVE  /\ receiver'[e] = lock[SessionOf(e[1])]
                      /\ \A f \in Deliveries : SessionOf(f[1]) = SessionOf(e[1]) =>
                           /\ call'[f] # None => f = e
                           /\ f[1] < e[1] => place'[f[1]] \notin {"queued", "locked"}
    BY <1>1 DEF InTurn, Live, SessionOf
  <2>1. Live(e) /\ e # d
    BY <1>4
  <2>2. /\ receiver[e] = lock[SessionOf(e[1])]
        /\ \A f \in Deliveries : SessionOf(f[1]) = SessionOf(e[1]) =>
             /\ Live(f) => f = e
             /\ f[1] < e[1] => place[f[1]] \notin {"queued", "locked"}
    BY <2>1 DEF InTurn
  <2>3. \A f \in Deliveries : place[f[1]] \notin {"queued", "locked"} => place'[f[1]] = place[f[1]]
    BY <1>3, DeliveryPair
  <2> QED
    BY <1>2, <1>4, <2>1, <2>2, <2>3
<1> QED
  BY <1>5, <1>6, <1>7

\* No step of a calm broker serves a message twice or a session out of turn.
LEMMA ServeStep == TypeInv /\ Attributed /\ Tended /\ ServeInv /\ [Next]_vars => ServeInv'
<1> SUFFICES ASSUME TypeInv, Attributed, Tended, ServeInv, [Next]_vars, Calm'
             PROVE  Held' /\ Once' /\ InTurn'
  BY DEF ServeInv
<1>1. Calm /\ Held /\ Once /\ InTurn
  BY CalmBefore DEF ServeInv
<1>2. faults' = 0 /\ faults = 0
  BY <1>1 DEF Calm
<1>3. ~Fault
  BY <1>2 DEF Fault
<1>4. ASSUME NEW s \in Slots, Accept(s) \/ CloseEnds(s) \/ \E m \in Messages : Deliver(s, m)
      PROVE  Held' /\ Once' /\ InTurn'
  BY <1>1, <1>4, AcceptServes, CloseServes, DeliverServes
<1>5. ASSUME NEW d \in Deliveries, SomeEnd(d) \/ SettleResolves(d)
      PROVE  Held' /\ Once' /\ InTurn'
  BY <1>1, <1>5, HandlerServes, ResolveServes DEF SomeEnd
<1>6. ASSUME NEW d \in Deliveries, SettleRejects(d)
      PROVE  FALSE
  <2>1. Live(d)
    BY <1>6 DEF SettleRejects, Settling, Live
  <2> QED
    BY <1>1, <1>3, <1>6, <2>1 DEF SettleRejects, Held
<1>7. ASSUME NEW m \in Messages, LockLost(m)
      PROVE  FALSE
  BY <1>1, <1>3, <1>7 DEF LockLost, Held
<1>9. /\ \A s \in Slots : ~CloseFails(s)
      /\ \A ss \in Sessions : ~OrphanExpires(ss)
  BY <1>2, <1>3 DEF CloseFails, OrphanExpires, Tended
<1>8. ASSUME \/ \E s \in Slots : AcceptRejects(s) \/ BackoffEnds(s) \/ SessionEnds(s)
             \/ TokenAborts \/ StopBegins \/ StopEnds \/ UNCHANGED vars
      PROVE  Held' /\ Once' /\ InTurn'
  <2>1. UNCHANGED <<config, place, count, lock, receiver, call, succeeded>>
    BY <1>8 DEF AcceptRejects, BackoffEnds, SessionEnds, TokenAborts, StopBegins, StopEnds,
                broker, vars
  <2> QED
    BY <1>1, <2>1 DEF Held, Once, InTurn, Live, LockHeld, SessionOf
<1> QED
  BY <1>4, <1>5, <1>6, <1>7, <1>8, <1>9 DEF Next, SlotSteps, Settles

\* For any messages, sessions and slots: as long as no lock is lost and no call
\* fails, and receivers wait for their handlers, no message is handled with
\* success twice and a session is handled one message at a time, in order.
THEOREM ServiceBusServesOnceInOrder == Spec => []ServedOnceInOrder
<1>1. Init => Attributed /\ Tended /\ ServeInv
  <2> SUFFICES ASSUME Init PROVE Attributed /\ Tended /\ ServeInv
    OBVIOUS
  <2>1. /\ \A ss \in Sessions : lock[ss] = None
        /\ \A m \in Messages : place[m] = "queued" /\ succeeded[m] = 0
        /\ \A d \in Deliveries : call[d] = None
    BY DEF Init
  <2> QED
    BY <2>1 DEF Attributed, Tended, ServeInv, Held, Once, InTurn, Live, None, Orphaned
<1>2. TypeInv /\ ServeInv => ServedOnceInOrder
  <2> SUFFICES ASSUME ServeInv, Calm PROVE ServedOnceInOrder
    BY DEF ServedOnceInOrder, Calm
  <2>1. Once /\ InTurn
    BY DEF ServeInv
  <2>2. \A m \in Messages : succeeded[m] <= 1
    BY <2>1 DEF Once
  <2> QED
    BY <2>1, <2>2 DEF InTurn, ServedOnceInOrder
<1> QED
  BY <1>1, <1>2, TypeInit, TypeStep, AttributedStep, TendedStep, ServeStep, PTL DEF Spec
=============================================================================
