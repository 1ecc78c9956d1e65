---------------------------- MODULE StreamWorkers ----------------------------
(***************************************************************************)
(* The Event Hubs and the Kafka worker: each partition's events are handed *)
(* to a callback in order, in batches or one by one, and the position a    *)
(* restart resumes from is stored by the worker (every checkpointInterval  *)
(* events; after each one under commitOnlyOnSuccess) or by kafkajs, which  *)
(* counts an event as consumed once its callback returned.                 *)
(*                                                                         *)
(* A failed event is acknowledged, skipped, or stops the worker: it asks   *)
(* its client to close and returns.  The client is external: it delivers,  *)
(* auto-commits, closes once its callbacks have returned, stops or retries *)
(* when a callback throws, and loses and regains partitions.               *)
(*                                                                         *)
(* Bounds: Published(p) events, MaxBatch, MaxRestarts, MaxRejects stores   *)
(* that fail, MaxRebalances.                                               *)
(***************************************************************************)
EXTENDS Integers, FiniteSets, Settlement

CONSTANTS Partitions, Published(_), MaxBatch, Configs, MaxRestarts, MaxRejects,
          MaxRebalances

Events(p) == 1 .. Published(p)

ASSUME StreamAssumption ==
  /\ \A p \in Partitions : Published(p) \in Nat
  /\ MaxBatch \in Nat \ {0}
  /\ MaxRestarts \in Nat /\ MaxRejects \in Nat /\ MaxRebalances \in Nat
  /\ Configs \subseteq
       [platform : {"eventhub", "kafka"}, atMostOnce : BOOLEAN, catch : BOOLEAN,
        raise : BOOLEAN, ignoreUnmatched : BOOLEAN, interval : Nat \ {0},
        manual : BOOLEAN, stopsAtOnce : BOOLEAN]

VARIABLES
  config,      \* the worker's config: catch for catchHandlerExceptions, raise for
               \* raiseOnFailureStatus, manual for commitOnlyOnSuccess; and
               \* stopsAtOnce: a client asked to close makes no further callback
  durable,     \* the events of a partition the stored position covers
  position,    \* those the callback is through with
  batchEnd,    \* the last event it was given
  pc,          \* what the callback awaits
  seen,        \* uncheckpointedCounts
  subscription,
  attempted, handled, skipped,     \* history: events whose handler ended, ended
                                   \* with success, was passed over by config
  restarts, rejects, rebalances

history == <<attempted, handled, skipped>>
budget == <<restarts, rejects, rebalances>>
vars == <<config, durable, position, batchEnd, pc, seen, subscription, history, budget>>

EventHub == config.platform = "eventhub"
AutoCommit == ~EventHub /\ ~config.manual

-----------------------------------------------------------------------------
(* The callback.                                                           *)

\* onProcessEventsAsync is given a batch, onEachMessage one record.
Deliver(p) ==
  /\ pc[p] = "idle" /\ position[p] < Published(p)
  /\ subscription = "open" \/ (subscription = "closing" /\ ~config.stopsAtOnce)
  /\ \E n \in 1 .. (IF EventHub THEN MaxBatch ELSE 1) :
       /\ position[p] + n \in Events(p)
       /\ batchEnd' = [batchEnd EXCEPT ![p] = position[p] + n]
  /\ pc' = [pc EXCEPT ![p] = "handling"]
  /\ UNCHANGED <<config, durable, position, seen, subscription, history, budget>>

\* The callback goes on to its next event, or returns.
Advance(p) ==
  /\ position' = [position EXCEPT ![p] = @ + 1]
  /\ pc' = [pc EXCEPT ![p] = IF position'[p] = batchEnd[p] THEN "idle" ELSE "handling"]

\* Mutant: the interval is measured against the count before this event.
MutAcknowledge(p) ==
  IF EventHub /\ seen[p] < config.interval
  THEN /\ seen' = [seen EXCEPT ![p] = @ + 1]
       /\ Advance(p)
  ELSE IF EventHub \/ config.manual
  THEN pc' = [pc EXCEPT ![p] = "storing"] /\ UNCHANGED <<position, seen>>
  ELSE Advance(p) /\ UNCHANGED seen

\* What follows an event that counts as handled.
Acknowledge(p) ==
  IF EventHub /\ seen[p] + 1 < config.interval
  THEN /\ seen' = [seen EXCEPT ![p] = @ + 1]
       /\ Advance(p)
  ELSE IF EventHub \/ config.manual
  THEN pc' = [pc EXCEPT ![p] = "storing"] /\ UNCHANGED <<position, seen>>
  ELSE Advance(p) /\ UNCHANGED seen

Failed(outcome) ==
  \/ outcome = "throws"
  \/ /\ ~config.atMostOnce /\ config.raise
     /\ IsSettledAsFailure(outcome, FALSE, config.ignoreUnmatched)

\* Mutant: a failed event ends its own turn only.
MutInitiateStop(p) ==
  /\ subscription' = IF subscription = "open" THEN "closing" ELSE subscription
  /\ Advance(p)

\* initiateStop, and the callback returns with its batch unfinished.  To the
\* client it is through with it.
InitiateStop(p) ==
  /\ subscription' = IF subscription = "open" THEN "closing" ELSE subscription
  /\ position' = [position EXCEPT ![p] = batchEnd[p]]
  /\ pc' = [pc EXCEPT ![p] = "idle"]

\* Mutant: the callback returns instead of going on.
MutSkip(p) ==
  /\ position' = [position EXCEPT ![p] = batchEnd[p]]
  /\ pc' = [pc EXCEPT ![p] = "idle"]

\* A failure that is caught and does not count.
Skip(p) == Advance(p)

HandlerEnds(p, outcome) ==
  LET e == position[p] + 1
      failed == Failed(outcome)
  IN /\ pc[p] = "handling"
     /\ attempted' = [attempted EXCEPT ![p] = @ \cup {e}]
     /\ handled' = [handled EXCEPT ![p] = IF failed THEN @ ELSE @ \cup {e}]
     /\ \/ /\ ~failed \/ config.atMostOnce
           /\ Acknowledge(p)
           /\ skipped' = [skipped EXCEPT ![p] = IF failed THEN @ \cup {e} ELSE @]
           /\ UNCHANGED subscription
        \/ /\ failed /\ ~config.atMostOnce /\ ~config.catch
           /\ InitiateStop(p)
           /\ UNCHANGED <<seen, skipped>>
        \/ /\ failed /\ ~config.atMostOnce /\ config.catch
           /\ Skip(p)
           /\ skipped' = [skipped EXCEPT ![p] = @ \cup {e}]
           /\ UNCHANGED <<seen, subscription>>
     /\ UNCHANGED <<config, durable, batchEnd, budget>>

\* updateCheckpoint or commitOffsets.
StoreResolves(p) ==
  /\ pc[p] = "storing"
  /\ durable' = [durable EXCEPT ![p] = position[p] + 1]
  /\ seen' = [seen EXCEPT ![p] = 0]
  /\ Advance(p)
  /\ UNCHANGED <<config, batchEnd, subscription, history, budget>>

\* It rejects, stored or not, and the callback throws.  kafkajs hands the
\* record out again; the Event Hubs client gives the partition up and, once it
\* has it again, resumes from what is stored.
StoreRejects(p) ==
  /\ pc[p] = "storing"
  /\ rejects < MaxRejects /\ rejects' = rejects + 1
  /\ durable' \in {durable, [durable EXCEPT ![p] = position[p] + 1]}
  /\ position' = IF EventHub THEN [position EXCEPT ![p] = durable'[p]] ELSE position
  /\ pc' = [pc EXCEPT ![p] = "idle"]
  /\ UNCHANGED <<config, batchEnd, seen, subscription, history, restarts, rebalances>>

\* kafkajs commits what its callbacks are through with.
AutoCommits(p) ==
  /\ AutoCommit /\ subscription # "closed"
  /\ durable[p] < position[p]
  /\ durable' = [durable EXCEPT ![p] = position[p]]
  /\ UNCHANGED <<config, position, batchEnd, pc, seen, subscription, history, budget>>

\* A partition is lost and regained between two callbacks: the client resumes
\* from what is stored, the worker keeps its count.
Rebalance(p) ==
  /\ subscription = "open" /\ pc[p] = "idle"
  /\ rebalances < MaxRebalances /\ rebalances' = rebalances + 1
  /\ position' = [position EXCEPT ![p] = durable[p]]
  /\ UNCHANGED <<config, durable, batchEnd, pc, seen, subscription, history, restarts, rejects>>

-----------------------------------------------------------------------------
(* The worker.                                                             *)

\* stopAsync; a stop the worker itself initiated may be under way.
StopBegins ==
  /\ subscription = "open" /\ subscription' = "closing"
  /\ UNCHANGED <<config, durable, position, batchEnd, pc, seen, history, budget>>

\* close or disconnect has waited for the callbacks.
CloseEnds ==
  /\ subscription = "closing"
  /\ \A p \in Partitions : pc[p] = "idle"
  /\ subscription' = "closed"
  /\ UNCHANGED <<config, durable, position, batchEnd, pc, seen, history, budget>>

\* The process ends, at any moment, and another one starts.
Restart ==
  /\ restarts < MaxRestarts /\ restarts' = restarts + 1
  /\ position' = durable /\ batchEnd' = durable
  /\ pc' = [p \in Partitions |-> "idle"]
  /\ seen' = [p \in Partitions |-> 0]
  /\ subscription' = "open"
  /\ UNCHANGED <<config, durable, history, rejects, rebalances>>

-----------------------------------------------------------------------------
Nothing == [p \in Partitions |-> 0]
NoEvents == [p \in Partitions |-> {}]

Init ==
  /\ config \in Configs
  /\ durable = Nothing /\ position = Nothing /\ batchEnd = Nothing /\ seen = Nothing
  /\ pc = [p \in Partitions |-> "idle"]
  /\ subscription = "open"
  /\ attempted = NoEvents /\ handled = NoEvents /\ skipped = NoEvents
  /\ restarts = 0 /\ rejects = 0 /\ rebalances = 0

SomeEnd(p) == \E outcome \in Outcomes : HandlerEnds(p, outcome)

Next ==
  \/ \E p \in Partitions : \/ Deliver(p) \/ SomeEnd(p) \/ AutoCommits(p)
                           \/ StoreResolves(p) \/ StoreRejects(p) \/ Rebalance(p)
  \/ StopBegins \/ CloseEnds \/ Restart

Spec == Init /\ [][Next]_vars

\* The client delivers, handlers end, the store answers and a close completes.
Fairness ==
  /\ \A p \in Partitions : /\ WF_vars(Deliver(p)) /\ WF_vars(SomeEnd(p))
                           /\ WF_vars(StoreResolves(p) \/ StoreRejects(p))
  /\ WF_vars(CloseEnds)

FairSpec == Spec /\ Fairness

-----------------------------------------------------------------------------
(* Properties.                                                             *)

\* Every variable stays within its type.
TypeOK ==
  /\ config \in Configs
  /\ durable \in [Partitions -> Nat] /\ position \in [Partitions -> Nat]
  /\ batchEnd \in [Partitions -> Nat] /\ seen \in [Partitions -> Nat]
  /\ \A p \in Partitions : durable[p] \in 0 .. Published(p)
  /\ pc \in [Partitions -> {"idle", "handling", "storing"}]
  /\ subscription \in {"open", "closing", "closed"}
  /\ \A p \in Partitions : attempted[p] \cup handled[p] \cup skipped[p] \subseteq Events(p)
  /\ restarts \in Nat /\ rejects \in Nat /\ rebalances \in Nat

\* Whether a failed event can be expected back: it stops a worker that stores
\* positions itself, over a client that stops when it is told to.
Exacting ==
  ~config.catch /\ ~config.atMostOnce /\ ~AutoCommit /\ config.stopsAtOnce

\* No restart resumes behind an event that was neither handled nor skipped by
\* configuration: whatever the interval, rebalances, stores that fail or a stop
\* with other partitions at work.
DurableCovered ==
  Exacting \/ config.catch \/ config.atMostOnce =>
    \A p \in Partitions : 1 .. durable[p] \subseteq handled[p] \cup skipped[p]

\* The events acknowledged that are neither stored nor being stored.
Unstored(p) ==
  {e \in handled[p] \cup skipped[p] :
     /\ durable[p] < e /\ ~(pc[p] = "storing" /\ e = position[p] + 1)
     /\ e \in handled[p] \/ config.atMostOnce}

\* In a process whose stores do not fail at most checkpointInterval - 1 events of
\* a partition are acknowledged but not stored, so a restart repeats no more; nor
\* does a rebalance change that, unless an event can be passed over that does not
\* count: a failure skipped, or what a stop leaves of a batch while more follows.
ReplayBounded ==
  /\ EventHub /\ rejects = 0 /\ restarts = 0
  /\ rebalances = 0 \/ config.atMostOnce \/ (~config.catch /\ config.stopsAtOnce)
  => \A p \in Partitions : Cardinality(Unstored(p)) < config.interval

\* A close that was asked for completes; and an event is attempted unless the
\* worker stops, however many fail before it.
StopsAndAttempts ==
  /\ subscription = "closing" ~> subscription # "closing"
  /\ \A p \in Partitions : \A e \in Events(p) :
       <>(e \in attempted[p] \/ subscription = "closed")
=============================================================================
