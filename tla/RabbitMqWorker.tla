--------------------------- MODULE RabbitMqWorker ---------------------------
(***************************************************************************)
(* The RabbitMQ worker: startAsync and stopAsync as two unsynchronised     *)
(* calls over the worker's four fields, the consume callback, and the      *)
(* settlement of a delivery by its handler's outcome.  Its dispatcher is   *)
(* LaneContract, which BoundedDispatcher implements.  The broker (the      *)
(* queue, prefetch, the redelivered flag, requeueing what a closed channel *)
(* left unacknowledged) is external, as the worker and amqplib use it.     *)
(*                                                                         *)
(* An action is the code between two awaits.  The handlers' continuations, *)
(* the consume callback, both calls and the broker interleave freely.      *)
(*                                                                         *)
(* Bounds: DeliveryCount deliveries per process, MaxRestarts processes     *)
(* after the first.                                                        *)
(***************************************************************************)
EXTENDS Integers, FiniteSets, Sequences

CONSTANTS
  Messages,
  DeliveryCount,          \* deliveries the broker makes to one process
  Prefetch,               \* prefetchCount
  ConcurrentRequests,     \* concurrentRequests: the dispatcher's lanes
  Configs,                \* the configurations a behaviour may have
  MaxRestarts

Deliveries == 1 .. DeliveryCount
Lanes == 1 .. ConcurrentRequests

ASSUME RabbitMqAssumption ==
  /\ DeliveryCount \in Nat /\ MaxRestarts \in Nat
  /\ Prefetch \in Nat \ {0} /\ ConcurrentRequests \in Nat \ {0}
  /\ Configs \subseteq [autoAck : BOOLEAN, atMostOnce : BOOLEAN, requeueOnFailure : BOOLEAN]

VARIABLES
  config,                   \* RabbitMqConfig: ackMode, atMostOnce and
                            \* requeueOnFailure
  place, redelivered,       \* the broker: where a message is, and its flag
  consuming,                \* the broker: the consumer is registered
  deliveries, received,     \* pushed on this channel; read by the client
  status, laneOf, phase,    \* the dispatcher, as LaneContract
  worker,                   \* the worker's four fields
  startPc, stopPc,          \* startAsync; stopAsync as called by the host and
                            \* by startAsync's catch
  succeeded, failed,        \* history: handler runs of a message that ended
  killed,                   \* history: an exit ended a handler in flight
  disturbed,                \* history: the worst so far of nothing, an exit on an
                            \* unhandled "rejection" and a "fault": a crash or a
                            \* drain timeout
  overtook,                 \* history: the host's stop was called before
                            \* startAsync had resolved
  restarts

queue == <<place, redelivered>>
lanes == <<status, laneOf, phase>>
history == <<config, succeeded, failed, killed, disturbed, overtook, restarts>>
vars == <<place, redelivered, consuming, deliveries, received, status, laneOf,
          phase, worker, startPc, stopPc, history>>

Callers == {"host", "catch"}
\* A stop ends, its close() is rejected, or it is outrun: it calls close() on
\* what the other call is closing already, which throws.
Ended == {"done", "failed", "outrun"}

Dispatcher == INSTANCE LaneContract WITH Items <- Deliveries, CatchExceptions <- TRUE

Idle == [d \in Deliveries |-> "idle"]
Unassigned == [d \in Deliveries |-> 0]
Unset == [connection |-> "undefined", channel |-> "undefined",
          consumerTag |-> FALSE, dispatcher |-> FALSE]
NotCalled == [p \in Callers |-> "none"]

Unacked == {m \in Messages : place[m] = "unacked"}
HasHeld == \E d \in Deliveries : status[d] \in Dispatcher!Held

-----------------------------------------------------------------------------
(* The broker.                                                             *)

\* What a channel leaves unacknowledged goes back to the queue, flagged.
ReturnUnacked ==
  /\ place' = [m \in Messages |-> IF m \in Unacked THEN "ready" ELSE place[m]]
  /\ redelivered' = [m \in Messages |-> redelivered[m] \/ m \in Unacked]

\* A delivery within the prefetch window; under noAck it counts as settled.
Push(m) ==
  /\ consuming /\ worker.channel = "open"
  /\ place[m] = "ready"
  /\ Len(deliveries) < DeliveryCount
  /\ \/ config.autoAck /\ place' = [place EXCEPT ![m] = "acked"]
     \/ /\ ~config.autoAck /\ Cardinality(Unacked) < Prefetch
        /\ place' = [place EXCEPT ![m] = "unacked"]
  /\ deliveries' = Append(deliveries, [message |-> m, redelivered |-> redelivered[m]])
  /\ UNCHANGED <<redelivered, consuming, received, lanes, worker, startPc, stopPc, history>>

\* The broker cancels the consumer; onReceivedAsync ignores the null message
\* that says so.
ConsumerCancelled ==
  /\ consuming /\ startPc = "started"
  /\ consuming' = FALSE
  /\ UNCHANGED <<queue, deliveries, received, lanes, worker, startPc, stopPc, history>>

\* The consumer is registered while startAsync awaits consume's reply.
ConsumerRegistered ==
  /\ startPc = "consuming" /\ worker.channel = "open" /\ ~consuming
  /\ consuming' = TRUE
  /\ UNCHANGED <<queue, deliveries, received, lanes, worker, startPc, stopPc, history>>

-----------------------------------------------------------------------------
(* stopAsync: each definition is the code from one await to the next, for  *)
(* a call by p that finds the fields f.  The fields are read again after   *)
(* every await.                                                            *)

StopAt(p, pc, f) == stopPc' = [stopPc EXCEPT ![p] = pc] /\ worker' = f

CloseConnection(p, f) ==
  \/ f.connection = "open" /\ StopAt(p, "closingConnection", [f EXCEPT !.connection = "closing"])
  \/ f.connection = "closing" /\ StopAt(p, "outrun", f)
  \/ f.connection = "undefined" /\ StopAt(p, "done", f)

CloseChannel(p, f) ==
  \/ f.channel = "open" /\ StopAt(p, "closingChannel", [f EXCEPT !.channel = "closing"])
  \/ f.channel = "closing" /\ StopAt(p, "outrun", f)
  \/ f.channel = "undefined" /\ CloseConnection(p, f)

\* Mutant: the channel is closed without draining the dispatcher.
MutCloseWithoutDrain(p, f) == CloseChannel(p, f) /\ UNCHANGED lanes

\* Mutant: the lanes are awaited without being completed.
MutDrainWithoutComplete(p, f) ==
  /\ UNCHANGED lanes
  /\ \/ f.dispatcher /\ StopAt(p, "draining", f)
     \/ ~f.dispatcher /\ CloseChannel(p, f)

DrainDispatcher(p, f) ==
  \/ /\ f.dispatcher
     /\ StopAt(p, "draining", f)
     /\ \/ Dispatcher!Drain
        \/ phase # "open" /\ UNCHANGED lanes
  \/ ~f.dispatcher /\ CloseChannel(p, f) /\ UNCHANGED lanes

StopBegin(p) ==
  \/ /\ worker.channel # "undefined" /\ worker.consumerTag
     /\ StopAt(p, "cancelling", worker)
     /\ UNCHANGED lanes
  \/ /\ worker.channel = "undefined" \/ ~worker.consumerTag
     /\ DrainDispatcher(p, worker)

\* BenzeneHost calls stopAsync on the shutdown signal or when startAsync
\* failed, without waiting for startAsync to settle.
HostStops ==
  /\ stopPc["host"] = "none"
  /\ startPc # "idle"
  /\ StopBegin("host")
  /\ overtook' = (startPc # "started")
  /\ UNCHANGED <<queue, consuming, deliveries, received, startPc,
                 config, succeeded, failed, killed, disturbed, restarts>>

\* cancel has been answered, after every delivery pushed before it.  A
\* failure is logged and the stop goes on.
CancelEnds(p) ==
  /\ stopPc[p] = "cancelling"
  /\ worker.channel = "open" => received = Len(deliveries)
  /\ consuming' = FALSE
  /\ DrainDispatcher(p, [worker EXCEPT !.consumerTag = FALSE])
  /\ UNCHANGED <<queue, deliveries, received, startPc, history>>

\* drainAsync settles, or its timeout abandons the handlers.
DrainEnds(p) ==
  /\ stopPc[p] = "draining"
  /\ \/ Dispatcher!Settle /\ UNCHANGED disturbed
     \/ phase = "settled" /\ UNCHANGED <<lanes, disturbed>>
     \/ HasHeld /\ disturbed' = "fault" /\ UNCHANGED lanes
  /\ CloseChannel(p, [worker EXCEPT !.dispatcher = FALSE])
  /\ UNCHANGED <<queue, consuming, deliveries, received, startPc,
                 config, succeeded, failed, killed, overtook, restarts>>

\* channel.close() resolves, or rejects and stopAsync ends there.
ChannelCloseEnds(p) ==
  /\ stopPc[p] = "closingChannel"
  /\ ReturnUnacked
  /\ consuming' = FALSE
  /\ \/ CloseConnection(p, [worker EXCEPT !.channel = "undefined"])
     \/ StopAt(p, "failed", worker)
  /\ UNCHANGED <<deliveries, received, lanes, startPc, history>>

\* connection.close() resolves, or rejects.
ConnectionCloseEnds(p) ==
  /\ stopPc[p] = "closingConnection"
  /\ \/ StopAt(p, "done", [worker EXCEPT !.connection = "undefined"])
     \/ StopAt(p, "failed", worker)
  /\ UNCHANGED <<queue, consuming, deliveries, received, lanes, startPc, history>>

-----------------------------------------------------------------------------
(* startAsync.                                                             *)

StartBegin ==
  /\ startPc = "idle"
  /\ startPc' = "connecting"
  /\ worker' = [worker EXCEPT !.dispatcher = TRUE]
  /\ UNCHANGED <<queue, consuming, deliveries, received, lanes, stopPc, history>>

ConnectionOpened ==
  /\ startPc = "connecting"
  /\ startPc' = "opening"
  /\ worker' = [worker EXCEPT !.connection = "open"]
  /\ UNCHANGED <<queue, consuming, deliveries, received, lanes, stopPc, history>>

\* createChannel is answered; prefetch and consume follow.
ChannelOpened ==
  /\ startPc = "opening" /\ worker.connection = "open"
  /\ startPc' = "consuming"
  /\ worker' = [worker EXCEPT !.channel = "open"]
  /\ UNCHANGED <<queue, consuming, deliveries, received, lanes, stopPc, history>>

ConsumeAnswered ==
  /\ startPc = "consuming" /\ consuming /\ worker.channel = "open"
  /\ startPc' = "started"
  /\ worker' = [worker EXCEPT !.consumerTag = TRUE]
  /\ UNCHANGED <<queue, consuming, deliveries, received, lanes, stopPc, history>>

\* Mutant: the catch does not tear anything down.
MutStartFailsOnly ==
  /\ startPc \in {"connecting", "opening", "consuming"}
  /\ startPc' = "failed"
  /\ UNCHANGED <<queue, consuming, deliveries, received, lanes, worker, stopPc, history>>

\* An await of startAsync rejects; its catch calls stopAsync.  Once the
\* consumer is registered only a close of the channel can make consume reject.
StartFails ==
  /\ \/ startPc \in {"connecting", "opening"}
     \/ startPc = "consuming" /\ (~consuming \/ worker.channel # "open")
  /\ startPc' = "failing"
  /\ StopBegin("catch")
  /\ UNCHANGED <<queue, consuming, deliveries, received, history>>

StartRethrows ==
  /\ startPc = "failing" /\ stopPc["catch"] \in Ended
  /\ startPc' = "failed"
  /\ UNCHANGED <<queue, consuming, deliveries, received, lanes, worker, stopPc, history>>

-----------------------------------------------------------------------------
(* Deliveries.                                                             *)

\* The consume callback: onReceivedAsync up to enqueueAsync's first await.
\* No signal is passed to enqueueAsync, so an open dispatcher refuses nothing.
OnReceived ==
  /\ worker.channel = "open" /\ received < Len(deliveries)
  /\ received' = received + 1
  /\ \/ /\ worker.dispatcher
        /\ \E l \in Lanes : Dispatcher!Call(received', l)
        /\ phase = "open" => status'[received'] # "refused"
     \/ ~worker.dispatcher /\ UNCHANGED lanes
  /\ UNCHANGED <<queue, consuming, deliveries, worker, startPc, stopPc, history>>

\* The lane takes or starts a delivery, or the drain refuses one.
DispatcherSteps(d) ==
  /\ \/ Dispatcher!Accept(d)
     \/ Dispatcher!Run(d)
     \/ phase # "open" /\ Dispatcher!Refuse(d)
  /\ UNCHANGED <<queue, consuming, deliveries, received, worker, startPc, stopPc, history>>

\* The acknowledgement reaches the broker while the channel is open; on a
\* closed or closing one it is skipped, or throws and is logged.
Ack(m) ==
  \/ worker.channel = "open" /\ place' = [place EXCEPT ![m] = "acked"] /\ UNCHANGED redelivered
  \/ worker.channel # "open" /\ UNCHANGED queue

\* Mutant: the redelivered flag is not consulted.
MutAlwaysRequeue(m, wasRedelivered) ==
  /\ place' = [place EXCEPT ![m] = "ready"]
  /\ redelivered' = [redelivered EXCEPT ![m] = TRUE]

Nack(m, wasRedelivered) ==
  LET requeue == config.requeueOnFailure /\ ~wasRedelivered
  IN \/ /\ worker.channel = "open"
        /\ place' = [place EXCEPT ![m] = IF requeue THEN "ready" ELSE "dropped"]
        /\ redelivered' = [redelivered EXCEPT ![m] = @ \/ requeue]
     \/ worker.channel # "open" /\ UNCHANGED queue

\* Mutant: a failure is acknowledged as well.
MutAckEverything(m, ok, wasRedelivered) ==
  \/ config.autoAck /\ UNCHANGED queue
  \/ ~config.autoAck /\ Ack(m)

\* Mutant: a failure is left unsettled until the channel closes.
MutSettleSuccessOnly(m, ok, wasRedelivered) ==
  \/ (config.autoAck \/ ~ok) /\ UNCHANGED queue
  \/ ~config.autoAck /\ ok /\ Ack(m)

\* Settlement of a handled delivery; a throw counts as a failure.
Settle(m, ok, wasRedelivered) ==
  \/ config.autoAck /\ UNCHANGED queue
  \/ ~config.autoAck /\ (ok \/ config.atMostOnce) /\ Ack(m)
  \/ ~config.autoAck /\ ~ok /\ ~config.atMostOnce /\ Nack(m, wasRedelivered)

HandlerEnds(d, ok) ==
  LET m == deliveries[d].message
  IN /\ Dispatcher!Finish(d)
     /\ Settle(m, ok, deliveries[d].redelivered)
     /\ \/ ok /\ succeeded' = [succeeded EXCEPT ![m] = @ + 1] /\ UNCHANGED failed
        \/ ~ok /\ failed' = [failed EXCEPT ![m] = @ + 1] /\ UNCHANGED succeeded
     /\ UNCHANGED <<consuming, deliveries, received, worker, startPc, stopPc,
                    config, killed, disturbed, overtook, restarts>>

-----------------------------------------------------------------------------
(* The process.                                                            *)

\* The process ends and another one starts with a worker of its own.
Exit ==
  /\ restarts < MaxRestarts
  /\ restarts' = restarts + 1
  /\ killed' = (killed \/ \E d \in Deliveries : status[d] = "running")
  /\ ReturnUnacked
  /\ consuming' = FALSE /\ deliveries' = <<>> /\ received' = 0
  /\ status' = Idle /\ laneOf' = Unassigned /\ phase' = "open"
  /\ worker' = Unset /\ startPc' = "idle" /\ stopPc' = NotCalled
  /\ overtook' = FALSE
  /\ UNCHANGED <<config, succeeded, failed>>

Crash ==
  /\ disturbed' = "fault"
  /\ Exit

\* runWorkerAsync returned and no connection keeps the process alive, or it
\* rejected with what stopAsync or startAsync threw.
HostReturns ==
  /\ \/ /\ stopPc["host"] = "done" /\ startPc \in {"started", "failed"}
        /\ worker.connection = "undefined"
     \/ stopPc["host"] = "done" /\ startPc = "failed"
     \/ stopPc["host"] \in {"failed", "outrun"}
  /\ UNCHANGED disturbed
  /\ Exit

\* onReceivedAsync is not awaited: a refused enqueueAsync is an unhandled
\* rejection, which ends the process unless it was started otherwise or has a
\* handler of its own for them.
RejectionEndsProcess ==
  /\ \E d \in Deliveries : status[d] = "refused"
  /\ disturbed' = IF disturbed = "fault" THEN "fault" ELSE "rejection"
  /\ Exit

-----------------------------------------------------------------------------
Init ==
  /\ config \in Configs
  /\ place = [m \in Messages |-> "ready"]
  /\ redelivered = [m \in Messages |-> FALSE]
  /\ consuming = FALSE /\ deliveries = <<>> /\ received = 0
  /\ status = Idle /\ laneOf = Unassigned /\ phase = "open"
  /\ worker = Unset /\ startPc = "idle" /\ stopPc = NotCalled
  /\ succeeded = [m \in Messages |-> 0]
  /\ failed = [m \in Messages |-> 0]
  /\ killed = FALSE /\ disturbed = "nothing" /\ overtook = FALSE /\ restarts = 0

Next ==
  \/ StartBegin \/ ConnectionOpened \/ ChannelOpened \/ ConsumeAnswered
  \/ StartFails \/ StartRethrows
  \/ HostStops
  \/ \E p \in Callers : \/ CancelEnds(p) \/ DrainEnds(p)
                        \/ ChannelCloseEnds(p) \/ ConnectionCloseEnds(p)
  \/ \E m \in Messages : Push(m)
  \/ ConsumerRegistered \/ ConsumerCancelled \/ OnReceived
  \/ \E d \in Deliveries : \/ DispatcherSteps(d)
                           \/ \E ok \in BOOLEAN : HandlerEnds(d, ok)
  \/ Crash \/ HostReturns \/ RejectionEndsProcess

Spec == Init /\ [][Next]_vars

\* The broker answers and delivers, the event loop runs what is queued, and
\* handlers end; nothing makes the host stop or the process crash.
Fairness ==
  /\ WF_vars(StartBegin \/ ConnectionOpened \/ ChannelOpened \/ ConsumeAnswered
             \/ StartFails \/ StartRethrows)
  /\ \A p \in Callers : WF_vars(\/ CancelEnds(p) \/ DrainEnds(p)
                                \/ ChannelCloseEnds(p) \/ ConnectionCloseEnds(p))
  /\ \A m \in Messages : WF_vars(Push(m))
  /\ WF_vars(ConsumerRegistered) /\ WF_vars(OnReceived)
  /\ \A d \in Deliveries : /\ WF_vars(DispatcherSteps(d))
                           /\ WF_vars(\E ok \in BOOLEAN : HandlerEnds(d, ok))

FairSpec == Spec /\ Fairness

-----------------------------------------------------------------------------
(* Properties.                                                             *)

\* Every variable stays within its type.
TypeOK ==
  /\ config \in Configs
  /\ place \in [Messages -> {"ready", "unacked", "acked", "dropped"}]
  /\ redelivered \in [Messages -> BOOLEAN]
  /\ consuming \in BOOLEAN
  /\ deliveries \in Seq([message : Messages, redelivered : BOOLEAN])
  /\ Len(deliveries) <= DeliveryCount
  /\ received \in 0 .. Len(deliveries)
  /\ status \in [Deliveries -> {"idle", "pending", "accepted", "running",
                                "finished", "refused"}]
  /\ laneOf \in [Deliveries -> Lanes \cup {0}]
  /\ phase \in {"open", "draining", "settled"}
  /\ worker \in [connection : {"undefined", "open", "closing"},
                 channel : {"undefined", "open", "closing"},
                 consumerTag : BOOLEAN, dispatcher : BOOLEAN]
  /\ startPc \in {"idle", "connecting", "opening", "consuming", "started",
                  "failing", "failed"}
  /\ stopPc \in [Callers -> {"none", "cancelling", "draining", "closingChannel",
                             "closingConnection", "done", "failed", "outrun"}]
  /\ succeeded \in [Messages -> Nat] /\ failed \in [Messages -> Nat]
  /\ killed \in BOOLEAN /\ overtook \in BOOLEAN
  /\ disturbed \in {"nothing", "rejection", "fault"}
  /\ restarts \in 0 .. MaxRestarts

\* Under Explicit nothing leaves the queue before its handler has run: an
\* acknowledged message succeeded, a dropped one failed, across crashes.
SettledAfterHandling ==
  ~config.autoAck /\ ~config.atMostOnce =>
    \A m \in Messages : /\ place[m] = "acked" => succeeded[m] > 0
                        /\ place[m] = "dropped" => failed[m] > 0

\* No process crashed and no drain timed out.
Calm == disturbed # "fault"

\* Without a crash or a drain timeout a message whose handler keeps failing is
\* handled at most twice, restarts included: no hot loop; and once if it is to be
\* attempted at most once, which AutoAck keeps to whatever happens.
PoisonBounded ==
  \A m \in Messages :
    /\ Calm /\ ~config.autoAck => failed[m] <= 2
    /\ config.autoAck \/ (config.atMostOnce /\ Calm)
         => succeeded[m] + failed[m] <= 1

\* Without a crash or a drain timeout no message is handled successfully twice,
\* restarts included: stopAsync keeps the channel open until every handler in
\* flight has acknowledged.  A handler is cut short by a crash, a timeout or the
\* exit on an unhandled rejection and by nothing else, and no delivery is refused,
\* which is what rejects, before a stop drains the dispatcher.  That a stop spares
\* handlers of such an exit is NOT so: see StopSparesHandlers.
HandledOnce ==
  /\ Calm => \A m \in Messages : succeeded[m] <= 1
  /\ disturbed = "nothing" => ~killed
  /\ (\E d \in Deliveries : status[d] = "refused") =>
       \E p \in Callers : stopPc[p] \notin {"none", "cancelling"}

\* VIOLATED (MCRabbitStop.cfg).  When a worker that had started is stopped, no
\* handler in flight is cut short but by a crash or a drain timeout ("drains
\* in-flight handlers (up to drainTimeoutMs), then closes", stopAsync).
StopSparesHandlers ==
  [][startPc = "started" /\ ~overtook /\ Calm' => UNCHANGED killed]_vars

\* Once every stopAsync call made has returned and the broker rejected no close(),
\* a worker whose start failed or that was stopped holds nothing: no consumer,
\* channel, connection or dispatcher.  That includes a stop of the host before or
\* beside that of the failed start's catch.  The one exception is a stop that
\* overtook a start which resolved all the same: the dispatcher is gone, and
\* channel and connection are both closed or BOTH LEFT OPEN, the consumer
\* registered with nobody to hand a delivery to.
StoppedClosed ==
  /\ startPc = "failed" \/ (startPc = "started" /\ stopPc["host"] # "none")
  /\ \A p \in Callers : stopPc[p] \in {"none", "done", "outrun"}
  => \/ worker = Unset /\ ~consuming
     \/ /\ overtook /\ startPc = "started"
        /\ ~worker.dispatcher /\ worker.channel = worker.connection
        /\ worker.channel = "undefined" => ~consuming

\* stopAsync always settles.
StopSettles == stopPc["host"] # "none" ~> stopPc["host"] \in Ended \cup {"none"}

\* While the worker runs and the broker keeps its consumer, every message of the
\* queue is settled.
MessagesSettle ==
  \A m \in Messages :
    startPc = "started" /\ consuming ~>
      place[m] \in {"acked", "dropped"} \/ stopPc["host"] # "none" \/ ~consuming
=============================================================================
