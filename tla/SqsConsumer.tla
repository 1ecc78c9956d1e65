----------------------------- MODULE SqsConsumer -----------------------------
(***************************************************************************)
(* The SQS consumer: a loop that receives a batch, fans it out over a      *)
(* semaphore, deletes what succeeded and backs off when calls fail; and    *)
(* the two middlewares a message may pass on its way to its handler, the   *)
(* rate limiter and the retries.  A task is a message in a batch.  Under   *)
(* WholeBatch a throw ends the batch while its other tasks go on.          *)
(*                                                                         *)
(* The queue is external: a message received is hidden until it is deleted *)
(* or its visibility timeout passes.  The clock is the limiter's.          *)
(*                                                                         *)
(* Bounds: MaxBatches non-empty batches; MaxFaults calls that fail and     *)
(* timeouts that pass under a message being handled.                       *)
(***************************************************************************)
EXTENDS RateLimiters, FiniteSetsExt, Settlement

CONSTANTS MessageCount, MaxNumberOfMessages, MaxBatches, MaxFaults, Cost(_), Configs

Messages == 1 .. MessageCount
Batches == 1 .. MaxBatches
Tasks == Messages \X Batches

ASSUME SqsAssumption ==
  /\ {MessageCount, MaxBatches, MaxFaults} \subseteq Nat
  /\ MaxNumberOfMessages \in Nat \ {0}
  /\ \A m \in Messages : Cost(m) \in Nat
  /\ Configs \subseteq
       [wholeBatch : BOOLEAN, atMostOnce : BOOLEAN, ignoreUnmatched : BOOLEAN,
        parallelism : Nat, limited : BOOLEAN, retries : Nat]

VARIABLES
  config,       \* SqsConsumerOptions, 0 for no maxDegreeOfParallelism; whether the
                \* pipeline has a rate limiter, and its numberOfRetries
  place,        \* the queue
  pc,           \* what startAsync awaits
  batch,        \* the number of the batch last received
  permits,      \* of each batch's semaphore, whose waiters its tasks are
  task,         \* what a task awaits, or how it ended
  attempt,      \* of RetryMiddleware
  failures,     \* consecutiveFailures
  aborted,      \* the cancellation token
  faults,
  succeeded,    \* history: handlings of a message that ended with success
  clean         \* history: messages with a handling that did not throw

consumerVars == <<config, place, pc, batch, failures, aborted, faults>>
taskVars == <<permits, task, attempt, succeeded, clean>>
vars == <<consumerVars, taskVars, limiterVars>>

Ends == {"ok", "failed", "threw"}
TasksOf(b) == {t \in Tasks : t[2] = b /\ task[t] # "none"}
Waiting(b) == {t \in TasksOf(b) : task[t] = "waiting"}
Active(b) == {t \in TasksOf(b) : task[t] \notin Ends \cup {"waiting"}}
Fault == faults < MaxFaults /\ faults' = faults + 1

-----------------------------------------------------------------------------
(* The loop.                                                               *)

Loop == pc' = IF aborted THEN "returned" ELSE "polling"

\* A call rejected, or the batch did.  The first failure is retried at once.
Caught ==
  IF aborted THEN Loop /\ UNCHANGED failures
  ELSE /\ failures' = IF failures < 2 THEN failures + 1 ELSE failures
       /\ pc' = IF failures > 0 THEN "backoff" ELSE "polling"

\* whenAllAsync: every task asks for a permit, in the order received.
FanOut(ms) ==
  LET first == IF config.parallelism = 0 THEN ms
               ELSE {m \in ms : Cardinality({k \in ms : k < m}) < config.parallelism}
  IN /\ permits' = [permits EXCEPT ![batch'] =
                    IF config.parallelism = 0 THEN 0 ELSE config.parallelism - Cardinality(first)]
     /\ task' = [t \in Tasks |-> IF t[2] # batch' \/ t[1] \notin ms THEN task[t]
                                 ELSE IF t[1] \in first THEN "permitted" ELSE "waiting"]

Receive ==
  /\ pc = "polling" /\ ~aborted /\ batch < MaxBatches
  /\ batch' = batch + 1 /\ failures' = 0 /\ pc' = "handling"
  /\ \E ms \in SUBSET {m \in Messages : place[m] = "visible"} :
       /\ ms # {} /\ Cardinality(ms) <= MaxNumberOfMessages
       /\ place' = [m \in Messages |-> IF m \in ms THEN "hidden" ELSE place[m]]
       /\ FanOut(ms)
  /\ UNCHANGED <<config, attempt, aborted, faults, succeeded, clean, limiterVars>>

ReceiveNothing ==
  /\ pc = "polling"
  /\ failures' = 0 /\ Loop
  /\ UNCHANGED <<config, place, batch, aborted, faults, taskVars, limiterVars>>

ReceiveRejects ==
  /\ pc = "polling"
  /\ (aborted /\ UNCHANGED faults) \/ Fault
  /\ Caught
  /\ UNCHANGED <<config, place, batch, aborted, taskVars, limiterVars>>

\* Promise.all resolves.
Handled == \A t \in TasksOf(batch) : task[t] \in {"ok", "failed"}

\* Mutant: what failed is deleted too.
MutToDelete == TasksOf(batch)

ToDelete ==
  IF config.wholeBatch THEN TasksOf(batch) ELSE {t \in TasksOf(batch) : task[t] = "ok"}

BatchHandled ==
  /\ pc = "handling" /\ Handled
  /\ IF ToDelete = {} THEN Loop ELSE pc' = "deleting"
  /\ UNCHANGED <<config, place, batch, failures, aborted, faults, taskVars, limiterVars>>

\* Promise.all rejects, at the first throw.
BatchThrows ==
  /\ pc = "handling"
  /\ \E t \in TasksOf(batch) : task[t] = "threw"
  /\ Caught
  /\ UNCHANGED <<config, place, batch, aborted, faults, taskVars, limiterVars>>

Deleted(ts) ==
  place' = [m \in Messages |-> IF <<m, batch>> \in ts THEN "deleted" ELSE place[m]]

\* Entries of a deletion may fail one by one; the loop goes on.
DeleteResolves ==
  /\ pc = "deleting"
  /\ \/ Deleted(ToDelete) /\ UNCHANGED faults
     \/ Fault /\ \E t \in ToDelete : Deleted(ToDelete \ {t})
  /\ Loop
  /\ UNCHANGED <<config, batch, failures, aborted, taskVars, limiterVars>>

\* A deletion that rejects, aborted or failed, may have been made.
DeleteRejects ==
  /\ pc = "deleting"
  /\ (aborted /\ UNCHANGED faults) \/ Fault
  /\ UNCHANGED place \/ Deleted(ToDelete)
  /\ Caught
  /\ UNCHANGED <<config, batch, aborted, taskVars, limiterVars>>

BackoffEnds ==
  /\ pc = "backoff" /\ Loop
  /\ UNCHANGED <<config, place, batch, failures, aborted, faults, taskVars, limiterVars>>

\* The token is signalled; every wait of the loop hears it.
Abort ==
  /\ ~aborted /\ aborted' = TRUE
  /\ UNCHANGED <<config, place, pc, batch, failures, faults, taskVars, limiterVars>>

-----------------------------------------------------------------------------
(* A task.                                                                 *)

\* Mutant: the permit is counted as well as handed on.
MutReleased(t, end) ==
  LET b == t[2]
      served == {w \in Waiting(b) : \A x \in Waiting(b) : w[1] <= x[1]}
  IN /\ permits' = [permits EXCEPT ![b] = @ + 1]
     /\ task' = [x \in Tasks |-> IF x = t THEN end
                                 ELSE IF x \in served THEN "permitted" ELSE task[x]]

\* Mutant: a task that does not succeed keeps its permit.
MutKeeps(t, end) ==
  LET b == t[2]
      served == {w \in Waiting(b) : end = "ok" /\ \A x \in Waiting(b) : w[1] <= x[1]}
  IN /\ permits' = [permits EXCEPT ![b] =
                    IF end = "ok" /\ served = {} /\ config.parallelism > 0 THEN @ + 1 ELSE @]
     /\ task' = [x \in Tasks |-> IF x = t THEN end
                                 ELSE IF x \in served THEN "permitted" ELSE task[x]]

\* The permit goes to the first waiter.
Released(t, end) ==
  LET b == t[2]
      served == {w \in Waiting(b) : \A x \in Waiting(b) : w[1] <= x[1]}
  IN /\ permits' = [permits EXCEPT ![b] =
                    IF served = {} /\ config.parallelism > 0 THEN @ + 1 ELSE @]
     /\ task' = [x \in Tasks |-> IF x = t THEN end
                                 ELSE IF x \in served THEN "permitted" ELSE task[x]]

\* How a message's pipeline settles it.
EndOf(outcome) ==
  IF outcome = "throws"
  THEN IF config.atMostOnce THEN "ok" ELSE IF config.wholeBatch THEN "threw" ELSE "failed"
  ELSE IF ~config.atMostOnce /\ IsSettledAsFailure(outcome, TRUE, config.ignoreUnmatched)
       THEN "failed" ELSE "ok"

\* The pipeline runs up to its handler, if the limiter lets it.
Start(t) ==
  /\ task[t] = "permitted"
  /\ IF ~config.limited \/ Grants(Cost(t[1]))
     THEN task' = [task EXCEPT ![t] = "running"] /\ UNCHANGED permits
     ELSE Released(t, EndOf("failure"))
  /\ IF config.limited THEN Acquire(Cost(t[1])) ELSE UNCHANGED limiterVars
  /\ clean' = IF task'[t] = "running" THEN clean ELSE clean \cup {t[1]}
  /\ UNCHANGED <<consumerVars, attempt, succeeded>>

\* The handler ends, and is called again after a delay if it threw and has
\* attempts left.  Else the lease is disposed of and the permit released.
HandlerEnds(t, outcome) ==
  /\ task[t] = "running"
  /\ IF outcome = "throws" /\ attempt[t] < config.retries
     THEN /\ task' = [task EXCEPT ![t] = "delayed"]
          /\ attempt' = [attempt EXCEPT ![t] = @ + 1]
          /\ UNCHANGED <<permits, succeeded, clean, limiterVars>>
     ELSE /\ Released(t, EndOf(outcome))
          /\ IF config.limited THEN Dispose(Cost(t[1])) ELSE UNCHANGED limiterVars
          /\ succeeded' = [succeeded EXCEPT ![t[1]] = IF outcome = "success" THEN @ + 1 ELSE @]
          /\ clean' = IF outcome = "throws" THEN clean ELSE clean \cup {t[1]}
          /\ UNCHANGED attempt
  /\ UNCHANGED consumerVars

RetryDelayEnds(t) ==
  /\ task[t] = "delayed"
  /\ task' = [task EXCEPT ![t] = "running"]
  /\ UNCHANGED <<consumerVars, permits, attempt, succeeded, clean, limiterVars>>

\* The queue shows a message again, which the consumer is through with unless
\* the timeout was too short.
VisibilityExpires(m) ==
  /\ place[m] = "hidden"
  /\ \/ Fault
     \/ /\ \A t \in Tasks : t[1] = m => task[t] \in Ends \cup {"none"}
        /\ <<m, batch>> \in TasksOf(batch) => pc \notin {"handling", "deleting"}
        /\ UNCHANGED faults
  /\ place' = [place EXCEPT ![m] = "visible"]
  /\ UNCHANGED <<config, pc, batch, failures, aborted, taskVars, limiterVars>>

ClockTicks ==
  /\ config.limited /\ kind # "concurrency"
  /\ Tick
  /\ UNCHANGED <<consumerVars, taskVars>>

-----------------------------------------------------------------------------
Init ==
  /\ config \in Configs
  /\ place = [m \in Messages |-> "visible"]
  /\ pc = "polling" /\ batch = 0 /\ failures = 0 /\ aborted = FALSE /\ faults = 0
  /\ permits = [b \in Batches |-> 0]
  /\ task = [t \in Tasks |-> "none"]
  /\ attempt = [t \in Tasks |-> 0]
  /\ succeeded = [m \in Messages |-> 0] /\ clean = {}
  /\ LimiterInit
  /\ ~config.limited => kind = "concurrency"

LoopSteps ==
  \/ ReceiveRejects \/ BatchHandled \/ BatchThrows
  \/ DeleteResolves \/ DeleteRejects \/ BackoffEnds

TaskSteps(t) ==
  Start(t) \/ RetryDelayEnds(t) \/ \E outcome \in Outcomes : HandlerEnds(t, outcome)

Next ==
  \/ LoopSteps \/ Receive \/ ReceiveNothing \/ Abort
  \/ \E t \in Tasks : TaskSteps(t)
  \/ \E m \in Messages : VisibilityExpires(m)
  \/ ClockTicks

Spec == Init /\ [][Next]_vars

\* The queue answers, delays end, and handlers end.
FairSpec ==
  /\ Spec
  /\ WF_vars(LoopSteps \/ Receive) /\ WF_vars(aborted /\ ReceiveNothing)
  /\ \A t \in Tasks : WF_vars(TaskSteps(t))

-----------------------------------------------------------------------------
(* Properties.                                                             *)

\* Every variable stays within its type.
TypeOK ==
  /\ config \in Configs
  /\ place \in [Messages -> {"visible", "hidden", "deleted"}]
  /\ pc \in {"polling", "handling", "deleting", "backoff", "returned"}
  /\ batch \in 0 .. MaxBatches
  /\ permits \in [Batches -> Nat]
  /\ task \in [Tasks -> Ends \cup {"none", "waiting", "permitted", "running", "delayed"}]
  /\ attempt \in [Tasks -> Nat]
  /\ failures \in 0 .. 2 /\ aborted \in BOOLEAN /\ faults \in 0 .. MaxFaults
  /\ succeeded \in [Messages -> Nat] /\ clean \subseteq Messages
  /\ now \in Times /\ kind \in Kinds
  /\ available \in 0 .. Limit /\ mark \in 0 .. now
  /\ granted \in [Times -> Nat]

\* Nothing leaves the queue unless it was handled: with success, or under
\* WholeBatch without a throw; and while no call fails, no timeout is too short
\* and nothing aborts a deletion, no message is handled with success again.
DeletedHandled ==
  /\ ~config.atMostOnce => \A m \in Messages : place[m] = "deleted" =>
       /\ m \in clean
       /\ ~config.wholeBatch /\ ~config.ignoreUnmatched => succeeded[m] > 0
  /\ faults = 0 /\ ~aborted /\ (config.wholeBatch => config.atMostOnce) =>
       \A m \in Messages : succeeded[m] <= 1

\* No batch runs more of its messages at once than maxDegreeOfParallelism, no
\* permit is lost while a task waits for one, and the consumer asks for more
\* only when it is through with the batch, unless a throw ended that.
FanOutBounded ==
  \A b \in 1 .. batch :
    /\ config.parallelism > 0 =>
         /\ permits[b] + Cardinality(Active(b)) = config.parallelism
         /\ Cardinality(Active(b)) <= config.parallelism
         /\ Waiting(b) # {} => permits[b] = 0
    /\ b < batch \/ pc # "handling" =>
         (~config.wholeBatch => Active(b) \cup Waiting(b) = {})

\* The permits granted from time s to time t, and the permits held.
GrantedIn(s, t) == granted[t] - (IF s = 0 THEN 0 ELSE granted[s - 1])

\* The promise of each limiter, over every span of time: a window's limit in two
\* windows at most, a full bucket and what the periods brought; and never more
\* than its limit held at once by the messages being handled.
RateBounded ==
  config.limited =>
    /\ kind = "window" => \A s \in Times : \A t \in s .. now :
         t - s < Period => GrantedIn(s, t) <= 2 * Limit
    /\ kind = "bucket" => \A s \in Times : \A t \in s .. now :
         GrantedIn(s, t) <= Limit + PerPeriod * ((t \div Period) - (s \div Period))
    /\ kind = "concurrency" =>
         /\ available >= 0
         /\ available = Limit - FoldSet(LAMBDA t, sum : Cost(t[1]) + sum, 0,
                                        {t \in Tasks : task[t] \in {"running", "delayed"}})

\* Every task of a batch gets its permit and ends, the loop goes on, and an
\* abort ends it.
BatchesEnd ==
  /\ \A t \in Tasks : task[t] = "waiting" ~> task[t] \in Ends
  /\ pc = "handling" ~> pc # "handling"
  /\ aborted ~> pc = "returned"
=============================================================================
