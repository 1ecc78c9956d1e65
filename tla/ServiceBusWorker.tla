-------------------------- MODULE ServiceBusWorker --------------------------
(***************************************************************************)
(* The Service Bus worker: one receiver, or a pump of session slots, each  *)
(* of which accepts a session, is pushed its messages, and lets it go when *)
(* it is idle, failed or stopped.  Explicit settlement makes one call by   *)
(* the outcome and, when that call or the handler fails, a second one.     *)
(*                                                                         *)
(* The broker is external: message and session locks, delivery counts with *)
(* the dead letter queue at their limit, locks that are lost, settlements  *)
(* that are rejected, made or not.  Messages of a session are numbered in  *)
(* the order they were sent.                                               *)
(*                                                                         *)
(* Bounds: MaxDeliveries is the broker's own; config.maxFaults lost locks  *)
(* and rejected calls.                                                     *)
(***************************************************************************)
EXTENDS Integers, FiniteSets, Settlement

CONSTANTS
  MessageCount, Sessions,
  Slots,
  MaxDeliveries,
  Configs

Messages == 1 .. MessageCount
Counts == 1 .. MaxDeliveries
Deliveries == Messages \X Counts      \* a message and its delivery count

ASSUME ServiceBusAssumption ==
  /\ MessageCount \in Nat
  /\ MaxDeliveries \in Nat \ {0}
  /\ Configs \subseteq
       [sessions : BOOLEAN, explicit : BOOLEAN, atMostOnce : BOOLEAN,
        ignoreUnmatched : BOOLEAN, closeWaits : BOOLEAN, maxFaults : Nat,
        calls : Nat \ {0}, slots : (SUBSET Slots) \ {{}}, sessionOf : [Messages -> Sessions]]

None == "none"
Orphaned == "orphaned"    \* a receiver whose close() was rejected
ASSUME SlotAssumption == None \notin Slots /\ Orphaned \notin Slots

\* aside stands for DeadLetter and Defer, which take a message out of the queue.
Overrides == {"complete", "abandon", "aside"}

VARIABLES
  config,      \* BenzeneServiceBusConfig, with calls the maxConcurrentCalls or
               \* ...PerSession and slots the maxConcurrentSessions (a queue without
               \* sessions has one, for good); and choices of the outside:
               \* closeWaits, whether close() of a receiver waits for the handlers
               \* it has called, sessionOf, the session of a message, and maxFaults
  place,       \* broker: where a message is
  count,       \* broker: its delivery count
  lock,        \* broker: the slot whose receiver has a session's lock, or Orphaned
  pc,          \* what a slot awaits
  receiver,    \* the slot whose open receiver made a delivery, or Orphaned
  call,        \* what a delivery awaits: its handler or a settlement
  aborted,     \* sessionsController.signal, or the token given to subscribe
  stop,        \* stopAsync
  faults,
  succeeded    \* history: handler runs of a message that asked to complete it

broker == <<place, count, lock>>
vars == <<config, place, count, lock, pc, receiver, call, aborted, stop, faults, succeeded>>

SessionOf(m) == config.sessionOf[m]
Live(d) == call[d] # None
LiveOn(s) == {d \in Deliveries : receiver[d] = s /\ Live(d)}
LockHeld(d) == place[d[1]] = "locked" /\ count[d[1]] = d[2]
Fault == faults < config.maxFaults /\ faults' = faults + 1

\* The messages one lock covers.
UnderLockOf(m) ==
  IF config.sessions THEN {k \in Messages : SessionOf(k) = SessionOf(m)} ELSE {m}

\* The place of messages whose lock is gone.
Returned(ms) ==
  [m \in Messages |->
     IF m \in ms /\ place[m] = "locked"
     THEN IF count[m] = MaxDeliveries THEN "dead" ELSE "queued"
     ELSE place[m]]

-----------------------------------------------------------------------------
(* The slots.                                                              *)

\* acceptNextSession resolves; an abort may already have come, and then
\* runSession resolves without subscribing.
Accept(s) ==
  /\ pc[s] = "accepting"
  /\ \E ss \in Sessions :
       /\ lock[ss] = None
       /\ \E m \in Messages : SessionOf(m) = ss /\ place[m] = "queued"
       /\ lock' = [lock EXCEPT ![ss] = s]
  /\ pc' = [pc EXCEPT ![s] = IF aborted THEN "closing" ELSE "receiving"]
  /\ UNCHANGED <<config, place, count, receiver, call, aborted, stop, faults, succeeded>>

\* acceptNextSession rejects: aborted, no session within its time, or a fault.
AcceptRejects(s) ==
  /\ pc[s] = "accepting"
  /\ \/ aborted /\ UNCHANGED faults
     \/ /\ \A m \in Messages : place[m] = "queued" => lock[SessionOf(m)] # None
        /\ UNCHANGED faults
     \/ Fault
  /\ pc' = [pc EXCEPT ![s] = IF aborted THEN "exited" ELSE "backoff"]
  /\ UNCHANGED <<config, broker, receiver, call, aborted, stop, succeeded>>

\* The delay is over, or cut short by the abort.
BackoffEnds(s) ==
  /\ pc[s] = "backoff"
  /\ pc' = [pc EXCEPT ![s] = IF stop = "running" THEN "accepting" ELSE "exited"]
  /\ UNCHANGED <<config, broker, receiver, call, aborted, stop, faults, succeeded>>

\* finish of runSession, when slot s is receiving one.
Finished(s) ==
  pc' = [pc EXCEPT ![s] = IF config.sessions /\ @ = "receiving" THEN "closing" ELSE @]

\* The idle timer, reset when a message arrives and when its handler ends, so
\* that it may fire under a long one; or processError for a lost session.
SessionEnds(s) ==
  /\ config.sessions /\ pc[s] = "receiving"
  /\ Finished(s)
  /\ UNCHANGED <<config, broker, receiver, call, aborted, stop, faults, succeeded>>

\* Mutant: the session receiver is not closed before the next is accepted.
MutCloseEnds(s) ==
  /\ pc[s] = "closing"
  /\ pc' = [pc EXCEPT ![s] = IF config.sessions /\ stop = "running"
                             THEN "accepting" ELSE "exited"]
  /\ UNCHANGED <<config, broker, receiver, call, aborted, stop, faults, succeeded>>

\* close() of a receiver resolves: what it had locked is free again.
CloseEnds(s) ==
  /\ pc[s] = "closing"
  /\ config.closeWaits => LiveOn(s) = {}
  /\ place' = Returned({m \in Messages : \E n \in Counts : receiver[<<m, n>>] = s /\ count[m] = n})
  /\ lock' = [ss \in Sessions |-> IF lock[ss] = s THEN None ELSE lock[ss]]
  /\ receiver' = [d \in Deliveries |-> IF receiver[d] = s THEN None ELSE receiver[d]]
  /\ pc' = [pc EXCEPT ![s] = IF config.sessions /\ stop = "running"
                             THEN "accepting" ELSE "exited"]
  /\ UNCHANGED <<config, count, call, aborted, stop, faults, succeeded>>

\* close() of a receiver rejects.  closeQuietly logs it and the slot goes on,
\* leaving the locks to expire; without sessions stopAsync ends there.
CloseFails(s) ==
  /\ pc[s] = "closing" /\ Fault
  /\ lock' = [ss \in Sessions |-> IF lock[ss] = s THEN Orphaned ELSE lock[ss]]
  /\ receiver' = [d \in Deliveries |-> IF receiver[d] = s THEN Orphaned ELSE receiver[d]]
  /\ pc' = [pc EXCEPT ![s] = IF config.sessions /\ stop = "running"
                             THEN "accepting" ELSE "exited"]
  /\ stop' = IF config.sessions THEN stop ELSE "failed"
  /\ UNCHANGED <<config, place, count, call, aborted, succeeded>>

-----------------------------------------------------------------------------
(* Messages.                                                               *)

\* Mutant: a session is subscribed to without its own limit of calls.
MutDeliver(s, m) ==
  /\ pc[s] = "receiving" /\ ~aborted
  /\ place[m] = "queued"
  /\ config.sessions => lock[SessionOf(m)] = s
  /\ place' = [place EXCEPT ![m] = "locked"]
  /\ count' = [count EXCEPT ![m] = @ + 1]
  /\ receiver' = [receiver EXCEPT ![<<m, count'[m]>>] = s]
  /\ call' = [call EXCEPT ![<<m, count'[m]>>] = "handler"]
  /\ UNCHANGED <<config, lock, pc, aborted, stop, faults, succeeded>>

\* The receiver calls processMessage, in order within a session.
Deliver(s, m) ==
  /\ pc[s] = "receiving" /\ ~aborted
  /\ place[m] = "queued"
  /\ Cardinality(LiveOn(s)) < config.calls
  /\ config.sessions => /\ lock[SessionOf(m)] = s
                        /\ \A k \in Messages : SessionOf(k) = SessionOf(m) /\ k < m
                                                 => place[k] # "queued"
  /\ place' = [place EXCEPT ![m] = "locked"]
  /\ count' = [count EXCEPT ![m] = @ + 1]
  /\ receiver' = [receiver EXCEPT ![<<m, count'[m]>>] = s]
  /\ call' = [call EXCEPT ![<<m, count'[m]>>] = "handler"]
  /\ UNCHANGED <<config, lock, pc, aborted, stop, faults, succeeded>>

\* The settlement of a throw, and of a settlement that was rejected.
Rescue == IF config.atMostOnce THEN "rescueComplete" ELSE "rescueAbandon"

\* Mutant: the result is not consulted.
MutDefaultSettlement(outcome) == IF outcome = "throws" THEN Rescue ELSE "complete"

\* Without an override.  AutoComplete is settled by the receiver, from
\* whether processMessage threw.
DefaultSettlement(outcome) ==
  IF outcome = "throws"
  THEN IF config.explicit \/ ~config.atMostOnce THEN Rescue ELSE "complete"
  ELSE IF /\ config.explicit /\ ~config.atMostOnce
          /\ IsSettledAsFailure(outcome, TRUE, config.ignoreUnmatched)
       THEN "abandon" ELSE "complete"

HandlerEnds(d, outcome, override) ==
  /\ call[d] = "handler"
  /\ call' = [call EXCEPT ![d] =
       IF config.explicit /\ override \in Overrides /\ outcome # "throws"
       THEN override ELSE DefaultSettlement(outcome)]
  /\ succeeded' = [succeeded EXCEPT ![d[1]] =
       IF /\ call'[d] = "complete"
          /\ outcome = "success" \/ override = "complete" THEN @ + 1 ELSE @]
  /\ UNCHANGED <<config, broker, pc, receiver, aborted, stop, faults>>

\* What the broker does for a settlement whose lock is held.
Applied(d) ==
  place' = [place EXCEPT ![d[1]] =
    CASE call[d] \in {"complete", "rescueComplete"} -> "completed"
      [] call[d] = "aside" -> "dead"
      [] OTHER -> Returned({d[1]})[d[1]]]

\* The delivery is over, and of no account to its receiver if it was settled.
\* A throw out of processMessage calls processError, which ends the session
\* unless its receiver was closed.
CallOver(d, throws) ==
  /\ call' = [call EXCEPT ![d] = None]
  /\ receiver' = IF place'[d[1]] = "locked" THEN receiver ELSE [receiver EXCEPT ![d] = None]
  /\ IF throws /\ receiver[d] \in Slots THEN Finished(receiver[d]) ELSE UNCHANGED pc

Settling(d) == call[d] \notin {None, "handler"}

SettleResolves(d) ==
  /\ Settling(d) /\ LockHeld(d)
  /\ Applied(d)
  /\ CallOver(d, call[d] = "rescueAbandon")
  /\ UNCHANGED <<config, count, lock, aborted, stop, faults, succeeded>>

\* A settlement rejects: the lock is gone, or the call failed, made or not.
\* Under Explicit the first rejection is caught and settled once more.
SettleRejects(d) ==
  /\ Settling(d)
  /\ \/ ~LockHeld(d) /\ UNCHANGED <<place, faults>>
     \/ LockHeld(d) /\ Fault /\ (UNCHANGED place \/ Applied(d))
  /\ IF config.explicit /\ call[d] \in Overrides
     THEN call' = [call EXCEPT ![d] = Rescue] /\ UNCHANGED <<pc, receiver>>
     ELSE CallOver(d, TRUE)
  /\ UNCHANGED <<config, count, lock, aborted, stop, succeeded>>

\* The broker takes back a lock: renewal failed, or no call will settle it.
LockLost(m) ==
  /\ place[m] = "locked"
  /\ \/ Fault
     \/ ~config.sessions /\ ~Live(<<m, count[m]>>) /\ UNCHANGED faults
  /\ place' = Returned(UnderLockOf(m))
  /\ lock' = IF config.sessions THEN [lock EXCEPT ![SessionOf(m)] = None] ELSE lock
  /\ UNCHANGED <<config, count, pc, receiver, call, aborted, stop, succeeded>>

\* A session lock that no slot knows of any more expires.
OrphanExpires(ss) ==
  /\ lock[ss] = Orphaned
  /\ lock' = [lock EXCEPT ![ss] = None]
  /\ place' = Returned({m \in Messages : SessionOf(m) = ss})
  /\ UNCHANGED <<config, count, pc, receiver, call, aborted, stop, faults, succeeded>>

-----------------------------------------------------------------------------
(* The abort signal and stopAsync.                                         *)

\* The abort ends every session and backoff; accepts hear it themselves.
Interrupted ==
  [s \in Slots |-> IF config.sessions /\ pc[s] = "receiving" THEN "closing" ELSE pc[s]]

\* The host's token aborts.
TokenAborts ==
  /\ ~aborted /\ aborted' = TRUE
  /\ pc' = Interrupted
  /\ UNCHANGED <<config, broker, receiver, call, stop, faults, succeeded>>

StopBegins ==
  /\ stop = "running" /\ stop' = "stopping"
  /\ aborted' = TRUE
  /\ pc' = IF config.sessions THEN Interrupted
           ELSE [s \in Slots |-> IF pc[s] = "receiving" THEN "closing" ELSE pc[s]]
  /\ UNCHANGED <<config, broker, receiver, call, faults, succeeded>>

\* Mutant: the session receivers open when stopAsync looked are all it waits for.
MutStopEnds ==
  /\ stop = "stopping" /\ stop' = "stopped"
  /\ \A s \in Slots : pc[s] # "closing"
  /\ UNCHANGED <<config, broker, pc, receiver, call, aborted, faults, succeeded>>

\* Every receiver is closed and every slot loop has ended; the close() of the
\* client resolves, or rejects.
StopEnds ==
  /\ stop = "stopping"
  /\ \A s \in Slots : pc[s] = "exited"
  /\ \/ stop' = "stopped" /\ UNCHANGED faults
     \/ stop' = "failed" /\ Fault
  /\ UNCHANGED <<config, broker, pc, receiver, call, aborted, succeeded>>

-----------------------------------------------------------------------------
Init ==
  /\ config \in Configs
  /\ place = [m \in Messages |-> "queued"]
  /\ count = [m \in Messages |-> 0]
  /\ lock = [ss \in Sessions |-> None]
  /\ pc = [s \in Slots |-> IF s \notin config.slots THEN "exited"
                           ELSE IF config.sessions THEN "accepting" ELSE "receiving"]
  /\ receiver = [d \in Deliveries |-> None]
  /\ call = [d \in Deliveries |-> None]
  /\ aborted = FALSE /\ stop = "running"
  /\ faults = 0
  /\ succeeded = [m \in Messages |-> 0]

SlotSteps(s) == AcceptRejects(s) \/ BackoffEnds(s) \/ CloseEnds(s)
Settles(d) == SettleResolves(d) \/ SettleRejects(d)
SomeEnd(d) == \E outcome \in Outcomes, override \in Overrides \cup {None} :
                HandlerEnds(d, outcome, override)

Next ==
  \/ \E s \in Slots : \/ Accept(s) \/ SlotSteps(s) \/ SessionEnds(s) \/ CloseFails(s)
                      \/ \E m \in Messages : Deliver(s, m)
  \/ \E d \in Deliveries : SomeEnd(d) \/ Settles(d)
  \/ \E m \in Messages : LockLost(m)
  \/ \E ss \in Sessions : OrphanExpires(ss)
  \/ TokenAborts \/ StopBegins \/ StopEnds

Spec == Init /\ [][Next]_vars

\* The event loop runs its continuations, the broker answers and delivers,
\* locks that nothing will use expire, and idle timers fire.  A slot waiting
\* for a session competes for it with the others, and the idle timer does not
\* come before a waiting message each time.
Fairness ==
  /\ \A s \in Slots : /\ SF_vars(Accept(s)) /\ WF_vars(SlotSteps(s))
                      /\ WF_vars(LiveOn(s) = {} /\ SessionEnds(s))
  /\ \A d \in Deliveries : WF_vars(SomeEnd(d)) /\ WF_vars(Settles(d))
  /\ \A m \in Messages : /\ SF_vars(\E s \in Slots : Deliver(s, m))
                         /\ WF_vars(LockLost(m))
  /\ \A ss \in Sessions : WF_vars(OrphanExpires(ss))
  /\ WF_vars(StopEnds)

FairSpec == Spec /\ Fairness

-----------------------------------------------------------------------------
(* Properties.                                                             *)

\* Every variable stays within its type.
TypeOK ==
  /\ config \in Configs
  /\ place \in [Messages -> {"queued", "locked", "completed", "dead"}]
  /\ count \in [Messages -> 0 .. MaxDeliveries]
  /\ lock \in [Sessions -> Slots \cup {None, Orphaned}]
  /\ pc \in [Slots -> {"accepting", "backoff", "receiving", "closing", "exited"}]
  /\ receiver \in [Deliveries -> Slots \cup {None, Orphaned}]
  /\ call \in [Deliveries -> Overrides \cup {None, "handler", "rescueComplete",
                                             "rescueAbandon"}]
  /\ aborted \in BOOLEAN
  /\ stop \in {"running", "stopping", "stopped", "failed"}
  /\ faults \in 0 .. config.maxFaults
  /\ succeeded \in [Messages -> Nat]

\* Under Explicit a message is completed only if its handler, or the override
\* it chose, said so, whatever locks are lost and settlements rejected.
SettledAfterHandling ==
  config.explicit /\ ~config.atMostOnce /\ ~config.ignoreUnmatched =>
    \A m \in Messages : place[m] = "completed" => succeeded[m] > 0

\* With a receiver that waits for its handlers and a broker that loses nothing,
\* neither the idle timer, a failing neighbour, an abort nor a stop handles a
\* message with success twice, or hands a session to a second slot while a
\* message of it is being handled: a session's messages are handled one at a
\* time and in order.
ServedOnceInOrder ==
  config.closeWaits /\ faults = 0 =>
    /\ \A m \in Messages : succeeded[m] <= 1
    /\ config.sessions /\ config.calls = 1 =>
         \A d \in Deliveries : Live(d) =>
           \A e \in Deliveries \ {d} : SessionOf(e[1]) = SessionOf(d[1]) =>
             /\ ~Live(e)
             /\ e[1] < d[1] => place[e[1]] \notin {"queued", "locked"}

\* After stopAsync returned no session and no message is locked, and no handler
\* of a receiver that waits for them is running: also when a slot was accepting a
\* session, which stopAsync could not see, when it began.  All that may be left is
\* what receivers had whose close() was rejected, until their locks expire.
StoppedClosed ==
  stop = "stopped" =>
    /\ \A ss \in Sessions : lock[ss] \in {None, Orphaned}
    /\ \A m \in Messages : place[m] = "locked" => lock[SessionOf(m)] = Orphaned
    /\ config.closeWaits => \A d \in Deliveries : Live(d) => receiver[d] = Orphaned

\* stopAsync settles, and unless the worker is aborted a queued message is
\* settled: a session that is idle, lost or failing does not keep a slot from
\* the others for ever, and a slot never stops trying.
StopsAndServes ==
  /\ stop = "stopping" ~> stop \in {"stopped", "failed"}
  /\ \A m \in Messages :
       place[m] = "queued" ~> place[m] \in {"completed", "dead"} \/ aborted
=============================================================================
