------------------------ MODULE RabbitMqWorker_proofs ------------------------
(***************************************************************************)
(* Types, SettledAfterHandling, PoisonBounded, HandledOnce and             *)
(* StoppedClosed, for any messages, deliveries, prefetch, lanes,           *)
(* configurations and restarts, with every fault the module knows.         *)
(*                                                                         *)
(* What may be settled follows from where a message is and what its        *)
(* handlers did.  How often it is handled needs more, in two parts.        *)
(* Orderly: until something crashes or times out, the channel leaves open  *)
(* only after every accepted delivery is finished, whoever starts, fails   *)
(* and stops.  Ledger: what each message was through follows from its      *)
(* place, its redelivered flag and its one unfinished delivery.            *)
(* What a stop leaves open is told by how far each of its two callers is:  *)
(* what the start holds by then, and what either has torn down             *)
(* (TeardownInv).                                                          *)
(***************************************************************************)
EXTENDS RabbitMqWorker, TLAPS

SettleType ==
  /\ place \in [Messages -> {"ready", "unacked", "acked", "dropped"}]
  /\ succeeded \in [Messages -> Nat] /\ failed \in [Messages -> Nat]

SettleInv == SettleType /\ SettledAfterHandling

\* A step that settles nothing and forgets no handler.
LEMMA NothingSettled ==
  ASSUME SettleInv, UNCHANGED <<config, succeeded, failed>>,
         place' \in [Messages -> {"ready", "unacked", "acked", "dropped"}],
         ~config.autoAck =>
           \A m \in Messages : place'[m] \in {place[m], "ready", "unacked"}
  PROVE  SettleInv'
BY DEF SettleInv, SettleType, SettledAfterHandling

\* What a closed channel gives back is ready.
LEMMA ReturnKeeps ==
  ASSUME SettleInv, ReturnUnacked, UNCHANGED <<config, succeeded, failed>>
  PROVE  SettleInv'
<1>1. \A m \in Messages : place'[m] \in {place[m], "ready"}
  BY DEF ReturnUnacked
<1>2. place' \in [Messages -> {"ready", "unacked", "acked", "dropped"}]
  BY DEF ReturnUnacked, SettleInv, SettleType
<1> QED
  BY <1>1, <1>2, NothingSettled

\* The settlement that follows a handler's end says what that handler said.
LEMMA HandlerSettles ==
  ASSUME SettleInv, NEW d \in Deliveries, NEW ok \in BOOLEAN, HandlerEnds(d, ok)
  PROVE  SettleInv'
<1> DEFINE k == deliveries[d].message
           requeue == config.requeueOnFailure /\ ~deliveries[d].redelivered
<1>1. /\ UNCHANGED config
      /\ Settle(k, ok, deliveries[d].redelivered)
      /\ \/ ok /\ succeeded' = [succeeded EXCEPT ![k] = succeeded[k] + 1] /\ UNCHANGED failed
         \/ ~ok /\ failed' = [failed EXCEPT ![k] = failed[k] + 1] /\ UNCHANGED succeeded
  BY DEF HandlerEnds
<1>2. \/ UNCHANGED place
      \/ ok /\ place' = [place EXCEPT ![k] = "acked"]
      \/ config.atMostOnce /\ place' = [place EXCEPT ![k] = "acked"]
      \/ ~ok /\ place' = [place EXCEPT ![k] = IF requeue THEN "ready" ELSE "dropped"]
  BY <1>1 DEF Settle, Ack, Nack, queue
<1> HIDE DEF k, requeue
<1>3. /\ succeeded' \in [Messages -> Nat] /\ failed' \in [Messages -> Nat]
      /\ place' \in [Messages -> {"ready", "unacked", "acked", "dropped"}]
  BY <1>1, <1>2 DEF SettleInv, SettleType
<1>4. \A m \in Messages : /\ succeeded'[m] >= succeeded[m] /\ failed'[m] >= failed[m]
                          /\ m = k => IF ok THEN succeeded'[m] > 0 ELSE failed'[m] > 0
  BY <1>1 DEF SettleInv, SettleType
<1>5. ASSUME ~config.atMostOnce, NEW m \in Messages
      PROVE  place'[m] \in {place[m], "ready"} \/ (m = k /\ place'[m] = IF ok THEN "acked" ELSE "dropped")
  BY <1>2, <1>5 DEF SettleInv, SettleType
<1>6. SettledAfterHandling'
  <2> SUFFICES ASSUME ~config.autoAck, ~config.atMostOnce, NEW m \in Messages
               PROVE  /\ place'[m] = "acked" => succeeded'[m] > 0
                      /\ place'[m] = "dropped" => failed'[m] > 0
    BY <1>1 DEF SettledAfterHandling
  <2>1. CASE place'[m] \in {place[m], "ready"}
    <3>1. /\ place[m] = "acked" => succeeded[m] > 0
          /\ place[m] = "dropped" => failed[m] > 0
      BY DEF SettleInv, SettledAfterHandling
    <3>2. /\ succeeded[m] \in Nat /\ succeeded'[m] \in Nat
          /\ failed[m] \in Nat /\ failed'[m] \in Nat
      BY <1>3 DEF SettleInv, SettleType
    <3> QED
      BY <1>4, <2>1, <3>1, <3>2
  <2>2. CASE m = k /\ place'[m] = IF ok THEN "acked" ELSE "dropped"
    BY <1>4, <2>2
  <2> QED
    BY <1>5, <2>1, <2>2
<1> QED
  BY <1>3, <1>6 DEF SettleInv, SettleType

\* Every step of the worker, its host, the broker and the process.
LEMMA SettleStep == SettleInv /\ [Next]_vars => SettleInv'
<1> SUFFICES ASSUME SettleInv, [Next]_vars PROVE SettleInv'
  OBVIOUS
<1>1. ASSUME UNCHANGED <<place, config, succeeded, failed>>
      PROVE  SettleInv'
  BY <1>1 DEF SettleInv, SettleType, SettledAfterHandling
<1>2. CASE StartBegin \/ ConnectionOpened \/ ChannelOpened \/ ConsumeAnswered
           \/ StartFails \/ StartRethrows \/ HostStops
  BY <1>1, <1>2 DEF StartBegin, ConnectionOpened, ChannelOpened, ConsumeAnswered, StartFails,
     StartRethrows, HostStops, queue, history
<1>3. ASSUME NEW p \in Callers, CancelEnds(p) \/ DrainEnds(p) \/ ConnectionCloseEnds(p)
      PROVE  SettleInv'
  BY <1>1, <1>3 DEF CancelEnds, DrainEnds, ConnectionCloseEnds, queue, history
<1>4. ASSUME NEW p \in Callers, ChannelCloseEnds(p)
      PROVE  SettleInv'
  BY <1>4, ReturnKeeps DEF ChannelCloseEnds, history
<1>5. ASSUME NEW m \in Messages, Push(m)
      PROVE  SettleInv'
  <2>1. /\ UNCHANGED <<config, succeeded, failed>>
        /\ \/ config.autoAck /\ place' = [place EXCEPT ![m] = "acked"]
           \/ ~config.autoAck /\ place' = [place EXCEPT ![m] = "unacked"]
    BY <1>5 DEF Push, history
  <2>2. /\ place' \in [Messages -> {"ready", "unacked", "acked", "dropped"}]
        /\ ~config.autoAck => \A k \in Messages : place'[k] \in {place[k], "unacked"}
    BY <2>1 DEF SettleInv, SettleType
  <2> QED
    BY <2>1, <2>2, NothingSettled
<1>6. CASE ConsumerRegistered \/ ConsumerCancelled \/ OnReceived
  BY <1>1, <1>6 DEF ConsumerRegistered, ConsumerCancelled, OnReceived, queue, history
<1>7. ASSUME NEW d \in Deliveries, DispatcherSteps(d)
      PROVE  SettleInv'
  BY <1>1, <1>7 DEF DispatcherSteps, queue, history
<1>8. ASSUME NEW d \in Deliveries, NEW ok \in BOOLEAN, HandlerEnds(d, ok)
      PROVE  SettleInv'
  BY <1>8, HandlerSettles
<1>9. CASE Crash \/ HostReturns \/ RejectionEndsProcess
  BY <1>9, ReturnKeeps DEF Crash, HostReturns, RejectionEndsProcess, Exit
<1>10. CASE UNCHANGED vars
  BY <1>1, <1>10 DEF vars, history
<1> QED
  BY <1>2, <1>3, <1>4, <1>5, <1>6, <1>7, <1>8, <1>9, <1>10 DEF Next

\* Under Explicit an acknowledged message was handled with success and a dropped
\* one failed, whatever crashes, timeouts, restarts and redeliveries come.
THEOREM RabbitSettlesHandled == Spec => []SettledAfterHandling
<1>1. Init => SettleInv
  <2> SUFFICES ASSUME Init PROVE SettleInv
    OBVIOUS
  <2>1. /\ place = [m \in Messages |-> "ready"]
        /\ succeeded = [m \in Messages |-> 0]
        /\ failed = [m \in Messages |-> 0]
    BY DEF Init
  <2> QED
    BY <2>1 DEF SettleInv, SettleType, SettledAfterHandling
<1>2. SettleInv => SettledAfterHandling
  BY DEF SettleInv
<1> QED
  BY <1>1, <1>2, SettleStep, PTL DEF Spec

-----------------------------------------------------------------------------
(* Types.                                                                  *)

Workers == [connection : {"undefined", "open", "closing"},
            channel : {"undefined", "open", "closing"},
            consumerTag : BOOLEAN, dispatcher : BOOLEAN]
\* Where a stopAsync call is once the dispatcher is drained, and everywhere.
Closing == {"closingChannel", "closingConnection"} \cup Ended
StopStates == {"none", "cancelling", "draining"} \cup Closing
Statuses == {"idle", "pending", "accepted", "running", "finished", "refused"}
Pushed == [message : Messages, redelivered : BOOLEAN]

StopType == worker \in Workers /\ stopPc \in [Callers -> StopStates]

LaneType ==
  /\ status \in [Deliveries -> Statuses]
  /\ laneOf \in [Deliveries -> Lanes \cup {0}]
  /\ phase \in {"open", "draining", "settled"}

\* stopAsync from the drained dispatcher to its next await, or its end.
LEMMA CloseChannelEffect ==
  ASSUME StopType, NEW p \in Callers, NEW f \in Workers, CloseChannel(p, f)
  PROVE  /\ StopType'
         /\ worker'.dispatcher = f.dispatcher
         /\ worker'.channel = IF f.channel = "undefined" THEN "undefined" ELSE "closing"
         /\ \E x \in Closing : /\ stopPc' = [stopPc EXCEPT ![p] = x]
                               /\ x = "closingChannel" => worker'.channel = "closing"
<1> USE DEF StopType, Workers, Closing, Ended, StopStates
<1>1. CASE f.channel = "open" /\ StopAt(p, "closingChannel", [f EXCEPT !.channel = "closing"])
  BY <1>1 DEF StopAt
<1>2. CASE f.channel = "closing" /\ StopAt(p, "outrun", f)
  BY <1>2 DEF StopAt
<1>3. CASE f.channel = "undefined" /\ CloseConnection(p, f)
  <2>1. CASE f.connection = "open" /\ StopAt(p, "closingConnection", [f EXCEPT !.connection = "closing"])
    BY <1>3, <2>1 DEF StopAt
  <2>2. CASE f.connection = "closing" /\ StopAt(p, "outrun", f)
    BY <1>3, <2>2 DEF StopAt
  <2>3. CASE f.connection = "undefined" /\ StopAt(p, "done", f)
    BY <1>3, <2>3 DEF StopAt
  <2> QED
    BY <1>3, <2>1, <2>2, <2>3 DEF CloseConnection
<1> QED
  BY <1>1, <1>2, <1>3 DEF CloseChannel

\* stopAsync up to the await of the drain, or past it when there is nothing to
\* drain.
LEMMA DrainDispatcherEffect ==
  ASSUME StopType, LaneType, NEW p \in Callers, NEW f \in Workers, DrainDispatcher(p, f)
  PROVE  /\ StopType' /\ LaneType'
         /\ UNCHANGED <<status, laneOf>>
         /\ phase' \in {phase, "draining"} /\ (phase = "settled" => phase' = "settled")
         /\ \/ worker' = f /\ stopPc' = [stopPc EXCEPT ![p] = "draining"]
            \/ ~f.dispatcher /\ CloseChannel(p, f)
<1>1. CASE f.dispatcher /\ StopAt(p, "draining", f) /\ (Dispatcher!Drain \/ (phase # "open" /\ UNCHANGED lanes))
  BY <1>1 DEF StopAt, StopType, StopStates, LaneType, lanes, Dispatcher!Drain
<1>2. CASE ~f.dispatcher /\ CloseChannel(p, f) /\ UNCHANGED lanes
  BY <1>2, CloseChannelEffect DEF LaneType, lanes
<1> QED
  BY <1>1, <1>2 DEF DrainDispatcher

\* stopAsync up to its first await.
LEMMA StopBeginEffect ==
  ASSUME StopType, LaneType, NEW p \in Callers, StopBegin(p)
  PROVE  /\ StopType' /\ LaneType'
         /\ UNCHANGED <<status, laneOf>>
         /\ phase' \in {phase, "draining"} /\ (phase = "settled" => phase' = "settled")
         /\ \/ worker' = worker /\ \E x \in {"cancelling", "draining"} : stopPc' = [stopPc EXCEPT ![p] = x]
            \/ ~worker.dispatcher /\ CloseChannel(p, worker)
<1>1. worker \in Workers
  BY DEF StopType
<1>2. CASE StopAt(p, "cancelling", worker) /\ UNCHANGED lanes
  BY <1>2 DEF StopAt, StopType, StopStates, LaneType, lanes
<1>3. CASE DrainDispatcher(p, worker)
  BY <1>1, <1>3, DrainDispatcherEffect
<1> QED
  BY <1>2, <1>3 DEF StopBegin

\* What the lanes do keeps their types.
LEMMA LaneStepType ==
  ASSUME LaneType, NEW d \in Deliveries,
         \/ \E l \in Lanes : Dispatcher!Call(d, l)
         \/ Dispatcher!Accept(d) \/ Dispatcher!Run(d) \/ Dispatcher!Refuse(d) \/ Dispatcher!Finish(d)
  PROVE  LaneType' /\ UNCHANGED phase
         /\ \E s \in Statuses : status' = [status EXCEPT ![d] = s]
BY DEF LaneType, Statuses, Dispatcher!Call, Dispatcher!Accept, Dispatcher!Run, Dispatcher!Refuse,
       Dispatcher!Finish, Dispatcher!SetStatus

QueueType ==
  /\ place \in [Messages -> {"ready", "unacked", "acked", "dropped"}]
  /\ redelivered \in [Messages -> BOOLEAN]

ClientType ==
  /\ consuming \in BOOLEAN
  /\ deliveries \in Seq(Pushed) /\ Len(deliveries) <= DeliveryCount
  /\ received \in 0 .. Len(deliveries)

Disturbances == {"nothing", "rejection", "fault"}

StartType == startPc \in {"idle", "connecting", "opening", "consuming", "started", "failing", "failed"}

HistoryType ==
  /\ config \in Configs
  /\ succeeded \in [Messages -> Nat] /\ failed \in [Messages -> Nat]
  /\ killed \in BOOLEAN /\ overtook \in BOOLEAN /\ disturbed \in Disturbances
  /\ restarts \in 0 .. MaxRestarts

TypeParts == QueueType /\ ClientType /\ LaneType /\ StopType /\ StartType /\ HistoryType

\* The parts are the whole.
LEMMA TypeOKParts == TypeOK <=> TypeParts
BY DEF TypeOK, TypeParts, QueueType, ClientType, LaneType, StopType, StartType, HistoryType,
       Workers, Closing, Ended, StopStates, Statuses, Disturbances, Pushed

\* A delivery the client has been pushed is a message and a flag.
LEMMA PushedType ==
  ASSUME ClientType, NEW d \in 1 .. Len(deliveries)
  PROVE  deliveries[d] \in Pushed /\ deliveries[d].message \in Messages
                                  /\ deliveries[d].redelivered \in BOOLEAN
<1>1. deliveries[d] \in Pushed
  BY DEF ClientType
<1> QED
  BY <1>1 DEF Pushed

\* A new process has everything unset.
LEMMA FreshType ==
  /\ Unset \in Workers /\ NotCalled \in [Callers -> StopStates]
  /\ Idle \in [Deliveries -> Statuses] /\ Unassigned \in [Deliveries -> Lanes \cup {0}]
BY DEF Unset, Workers, NotCalled, StopStates, Idle, Statuses, Unassigned

\* No delivery has been pushed on a channel yet.
LEMMA FreshClient ==
  /\ <<>> \in Seq(Pushed) /\ Len(<<>>) <= DeliveryCount /\ 0 \in 0 .. Len(<<>>)
<1>1. <<>> \in Seq(Pushed) /\ Len(<<>>) = 0
  OBVIOUS
<1>2. DeliveryCount \in Nat
  BY RabbitMqAssumption DEF RabbitMqAssumption
<1> QED
  BY <1>1, <1>2

\* Every message is ready and nothing has begun at first.
LEMMA TypeInit == Init => TypeOK
<1> SUFFICES ASSUME Init PROVE TypeOK
  OBVIOUS
<1>1. QueueType
  BY DEF Init, QueueType
<1>4. ClientType
  BY FreshClient DEF Init, ClientType
<1>2. LaneType /\ StopType /\ StartType
  BY FreshType DEF Init, LaneType, StopType, StartType
<1>3. HistoryType
  <2>1. restarts \in 0 .. MaxRestarts
    BY RabbitMqAssumption DEF RabbitMqAssumption, Init
  <2>2. succeeded \in [Messages -> Nat] /\ failed \in [Messages -> Nat]
    BY DEF Init
  <2> QED
    BY <2>1, <2>2 DEF Init, HistoryType, Disturbances
<1> QED
  BY <1>1, <1>2, <1>3, <1>4, TypeOKParts DEF TypeParts

\* A channel that closes gives back messages and flags.
LEMMA ReturnType ==
  ASSUME QueueType, ReturnUnacked
  PROVE  QueueType'
BY DEF QueueType, ReturnUnacked

\* The end of a process keeps what outlives it, and unsets the rest.
LEMMA ExitType ==
  ASSUME TypeParts, Exit, disturbed' \in Disturbances
  PROVE  TypeParts'
<1>1. QueueType'
  BY ReturnType DEF Exit, TypeParts
<1>2. ClientType'
  BY FreshClient DEF Exit, ClientType
<1>3. LaneType' /\ StopType' /\ StartType'
  BY FreshType DEF Exit, LaneType, StopType, StartType
<1>4. HistoryType'
  <2>1. killed' \in BOOLEAN /\ overtook' \in BOOLEAN
    BY DEF Exit, TypeParts, HistoryType
  <2>2. restarts' \in 0 .. MaxRestarts
    BY RabbitMqAssumption DEF RabbitMqAssumption, Exit, TypeParts, HistoryType
  <2>3. config' \in Configs /\ succeeded' \in [Messages -> Nat] /\ failed' \in [Messages -> Nat]
    BY DEF Exit, TypeParts, HistoryType
  <2> QED
    BY <2>1, <2>2, <2>3 DEF HistoryType
<1> QED
  BY <1>1, <1>2, <1>3, <1>4 DEF TypeParts

\* Only what was received has reached the dispatcher.
ReceivedOnly == \A d \in Deliveries : status[d] # "idle" => d <= received

TypeInv == TypeOK /\ ReceivedOnly

\* Every step of the worker, its host, the broker and the process.
LEMMA TypeStep == TypeInv /\ [Next]_vars => TypeInv'
<1> SUFFICES ASSUME TypeInv, [Next]_vars PROVE TypeInv'
  OBVIOUS
<1>0. TypeParts /\ ReceivedOnly
  BY TypeOKParts DEF TypeInv
<1> SUFFICES TypeParts' /\ ReceivedOnly'
  BY TypeOKParts, PTL DEF TypeInv
<1>1. ASSUME StartBegin \/ ConnectionOpened \/ ChannelOpened \/ ConsumeAnswered \/ StartRethrows
      PROVE  TypeParts' /\ ReceivedOnly'
  <2>1. UNCHANGED <<place, redelivered, consuming, deliveries, received, status, laneOf, phase, stopPc, config,
                    succeeded, failed, killed, disturbed, overtook, restarts>>
    BY <1>1 DEF StartBegin, ConnectionOpened, ChannelOpened, ConsumeAnswered, StartRethrows, queue, lanes, history
  <2>2. worker' \in Workers
    BY <1>0, <1>1 DEF StartBegin, ConnectionOpened, ChannelOpened, ConsumeAnswered, StartRethrows,
                      TypeParts, StopType, Workers
  <2>3. StartType'
    BY <1>1 DEF StartBegin, ConnectionOpened, ChannelOpened, ConsumeAnswered, StartRethrows, StartType
  <2> QED
    BY <1>0, <2>1, <2>2, <2>3 DEF TypeParts, QueueType, ClientType, LaneType, StopType, HistoryType, ReceivedOnly
<1>2. ASSUME StartFails \/ HostStops
      PROVE  TypeParts' /\ ReceivedOnly'
  <2>1. /\ UNCHANGED <<place, redelivered, consuming, deliveries, received, config,
                       succeeded, failed, killed, disturbed, restarts>>
        /\ \E p \in Callers : StopBegin(p)
        /\ overtook' = overtook \/ overtook' = (startPc # "started")
    BY <1>2 DEF StartFails, HostStops, queue, history, Callers
  <2>2. StopType' /\ LaneType' /\ UNCHANGED status
    BY <1>0, <2>1, StopBeginEffect DEF TypeParts
  <2>3. StartType'
    BY <1>0, <1>2 DEF StartFails, HostStops, TypeParts, StartType
  <2>4. overtook' \in BOOLEAN
    BY <1>0, <2>1 DEF TypeParts, HistoryType
  <2> QED
    BY <1>0, <2>1, <2>2, <2>3, <2>4 DEF TypeParts, QueueType, ClientType, HistoryType, ReceivedOnly
<1>3. ASSUME NEW p \in Callers, CancelEnds(p)
      PROVE  TypeParts' /\ ReceivedOnly'
  <2>1. /\ UNCHANGED <<place, redelivered, deliveries, received, startPc, config,
                       succeeded, failed, killed, disturbed, overtook, restarts>>
        /\ consuming' = FALSE
        /\ DrainDispatcher(p, [worker EXCEPT !.consumerTag = FALSE])
    BY <1>3 DEF CancelEnds, queue, history
  <2>2. [worker EXCEPT !.consumerTag = FALSE] \in Workers
    BY <1>0 DEF TypeParts, StopType, Workers
  <2>3. StopType' /\ LaneType' /\ UNCHANGED status
    BY <1>0, <2>1, <2>2, DrainDispatcherEffect DEF TypeParts
  <2> QED
    BY <1>0, <2>1, <2>3 DEF TypeParts, QueueType, ClientType, StartType, HistoryType, ReceivedOnly
<1>4. ASSUME NEW p \in Callers, DrainEnds(p)
      PROVE  TypeParts' /\ ReceivedOnly'
  <2>1. /\ UNCHANGED <<place, redelivered, consuming, deliveries, received, startPc, config,
                       succeeded, failed, killed, overtook, restarts>>
        /\ disturbed' \in {disturbed, "fault"}
        /\ UNCHANGED <<status, laneOf>> /\ phase' \in {phase, "settled"}
        /\ CloseChannel(p, [worker EXCEPT !.dispatcher = FALSE])
    BY <1>4 DEF DrainEnds, queue, lanes, Dispatcher!Settle
  <2>2. [worker EXCEPT !.dispatcher = FALSE] \in Workers
    BY <1>0 DEF TypeParts, StopType, Workers
  <2>3. StopType'
    BY <1>0, <2>1, <2>2, CloseChannelEffect DEF TypeParts
  <2>4. LaneType' /\ HistoryType'
    BY <1>0, <2>1 DEF TypeParts, LaneType, HistoryType, Disturbances
  <2> QED
    BY <1>0, <2>1, <2>3, <2>4 DEF TypeParts, QueueType, ClientType, StartType, ReceivedOnly
<1>5. ASSUME NEW p \in Callers, ChannelCloseEnds(p) \/ ConnectionCloseEnds(p)
      PROVE  TypeParts' /\ ReceivedOnly'
  <2>1. /\ UNCHANGED <<deliveries, received, status, laneOf, phase, startPc, config, succeeded, failed,
                       killed, disturbed, overtook, restarts>>
        /\ consuming' \in {consuming, FALSE}
    BY <1>5 DEF ChannelCloseEnds, ConnectionCloseEnds, lanes, history
  <2>2. QueueType'
    BY <1>0, <1>5, ReturnType DEF ChannelCloseEnds, ConnectionCloseEnds, TypeParts, QueueType, queue
  <2>3. StopType'
    <3>1. [worker EXCEPT !.channel = "undefined"] \in Workers /\ [worker EXCEPT !.connection = "undefined"] \in Workers
          /\ worker \in Workers
      BY <1>0 DEF TypeParts, StopType, Workers
    <3>2. ASSUME NEW f \in Workers, CloseConnection(p, f) PROVE StopType'
      BY <1>0, <3>2 DEF CloseConnection, StopAt, TypeParts, StopType, StopStates, Closing, Ended, Workers
    <3>3. CASE ChannelCloseEnds(p)
      BY <1>0, <3>1, <3>2, <3>3 DEF ChannelCloseEnds, StopAt, TypeParts, StopType, StopStates, Closing, Ended
    <3>4. CASE ConnectionCloseEnds(p)
      BY <1>0, <3>1, <3>4 DEF ConnectionCloseEnds, StopAt, TypeParts, StopType, StopStates, Closing, Ended
    <3> QED
      BY <1>5, <3>3, <3>4
  <2> QED
    BY <1>0, <2>1, <2>2, <2>3 DEF TypeParts, ClientType, LaneType, StartType, HistoryType, ReceivedOnly
<1>6. ASSUME NEW m \in Messages, Push(m)
      PROVE  TypeParts' /\ ReceivedOnly'
  <2>1. /\ UNCHANGED <<redelivered, consuming, received, status, laneOf, phase, worker, startPc, stopPc, config,
                       succeeded, failed, killed, disturbed, overtook, restarts>>
        /\ Len(deliveries) < DeliveryCount
        /\ deliveries' = Append(deliveries, [message |-> m, redelivered |-> redelivered[m]])
        /\ \E x \in {"acked", "unacked"} : place' = [place EXCEPT ![m] = x]
    BY <1>6 DEF Push, lanes, history
  <2>2. QueueType'
    BY <1>0, <2>1 DEF TypeParts, QueueType
  <2>3. ClientType'
    <3>1. [message |-> m, redelivered |-> redelivered[m]] \in Pushed
      BY <1>0 DEF Pushed, TypeParts, QueueType
    <3>2. deliveries' \in Seq(Pushed) /\ Len(deliveries') = Len(deliveries) + 1 /\ Len(deliveries) \in Nat
      BY <1>0, <2>1, <3>1 DEF TypeParts, ClientType
    <3> QED
      BY <1>0, <2>1, <3>2, RabbitMqAssumption DEF RabbitMqAssumption, TypeParts, ClientType
  <2> QED
    BY <1>0, <2>1, <2>2, <2>3 DEF TypeParts, LaneType, StopType, StartType, HistoryType, ReceivedOnly
<1>7. ASSUME ConsumerRegistered \/ ConsumerCancelled
      PROVE  TypeParts' /\ ReceivedOnly'
  <2>1. /\ UNCHANGED <<place, redelivered, deliveries, received, status, laneOf, phase, worker, startPc, stopPc,
                       config, succeeded, failed, killed, disturbed, overtook, restarts>>
        /\ consuming' \in BOOLEAN
    BY <1>7 DEF ConsumerRegistered, ConsumerCancelled, queue, lanes, history
  <2> QED
    BY <1>0, <2>1 DEF TypeParts, QueueType, ClientType, LaneType, StopType, StartType, HistoryType, ReceivedOnly
<1>8. CASE OnReceived
  <2>1. /\ received < Len(deliveries) /\ received' = received + 1
        /\ UNCHANGED <<place, redelivered, consuming, deliveries, worker, startPc, stopPc,
                       config, succeeded, failed, killed, disturbed, overtook, restarts>>
        /\ \/ \E l \in Lanes : Dispatcher!Call(received', l)
           \/ UNCHANGED <<status, laneOf, phase>>
    BY <1>8 DEF OnReceived, queue, lanes, history
  <2>2. received' \in 1 .. Len(deliveries) /\ received' \in Deliveries /\ received \in Nat
    BY <1>0, <2>1, RabbitMqAssumption DEF RabbitMqAssumption, TypeParts, ClientType, Deliveries
  <2>3. LaneType' /\ ReceivedOnly'
    <3>1. CASE UNCHANGED <<status, laneOf, phase>>
      BY <1>0, <2>1, <2>2, <3>1 DEF TypeParts, LaneType, ReceivedOnly, Deliveries
    <3>2. CASE \E l \in Lanes : Dispatcher!Call(received', l)
      <4>1. LaneType' /\ \E s \in Statuses : status' = [status EXCEPT ![received'] = s]
        BY <1>0, <2>2, <3>2, LaneStepType DEF TypeParts
      <4>2. \A d \in Deliveries : d # received' => status'[d] = status[d]
        BY <1>0, <4>1 DEF TypeParts, LaneType
      <4> QED
        BY <1>0, <2>1, <2>2, <4>1, <4>2 DEF ReceivedOnly, Deliveries
    <3> QED
      BY <2>1, <3>1, <3>2
  <2>4. ClientType'
    BY <1>0, <2>1, <2>2 DEF TypeParts, ClientType
  <2> QED
    BY <1>0, <2>1, <2>3, <2>4 DEF TypeParts, QueueType, StopType, StartType, HistoryType
<1>9. ASSUME NEW d \in Deliveries, DispatcherSteps(d)
      PROVE  TypeParts' /\ ReceivedOnly'
  <2>1. /\ UNCHANGED <<place, redelivered, consuming, deliveries, received, worker, startPc, stopPc,
                       config, succeeded, failed, killed, disturbed, overtook, restarts>>
        /\ Dispatcher!Accept(d) \/ Dispatcher!Run(d) \/ Dispatcher!Refuse(d)
    BY <1>9 DEF DispatcherSteps, queue, history
  <2>2. LaneType' /\ \E s \in Statuses : status' = [status EXCEPT ![d] = s]
    BY <1>0, <2>1, LaneStepType DEF TypeParts
  <2>3. status[d] # "idle"
    BY <2>1 DEF Dispatcher!Accept, Dispatcher!Run, Dispatcher!Refuse
  <2>4. ReceivedOnly'
    BY <1>0, <2>1, <2>2, <2>3 DEF ReceivedOnly, TypeParts, LaneType
  <2> QED
    BY <1>0, <2>1, <2>2, <2>4 DEF TypeParts, QueueType, ClientType, StopType, StartType, HistoryType
<1>10. ASSUME NEW d \in Deliveries, NEW ok \in BOOLEAN, HandlerEnds(d, ok)
       PROVE  TypeParts' /\ ReceivedOnly'
  <2>1. /\ UNCHANGED <<consuming, deliveries, received, worker, startPc, stopPc,
                       config, killed, disturbed, overtook, restarts>>
        /\ Dispatcher!Finish(d)
        /\ Settle(deliveries[d].message, ok, deliveries[d].redelivered)
    BY <1>10 DEF HandlerEnds
  <2>2. LaneType' /\ \E s \in Statuses : status' = [status EXCEPT ![d] = s]
    BY <1>0, <2>1, LaneStepType DEF TypeParts
  <2>3. status[d] # "idle"
    BY <2>1 DEF Dispatcher!Finish
  <2>4. ReceivedOnly'
    BY <1>0, <2>1, <2>2, <2>3 DEF ReceivedOnly, TypeParts, LaneType
  <2>5. QueueType'
    BY <1>0, <2>1 DEF Settle, Ack, Nack, queue, TypeParts, QueueType
  <2>6. succeeded' \in [Messages -> Nat] /\ failed' \in [Messages -> Nat]
    BY <1>0, <1>10 DEF HandlerEnds, TypeParts, HistoryType
  <2> QED
    BY <1>0, <2>1, <2>2, <2>4, <2>5, <2>6 DEF TypeParts, ClientType, StopType, StartType, HistoryType
<1>11. CASE Crash \/ HostReturns \/ RejectionEndsProcess
  <2>1. Exit /\ disturbed' \in Disturbances
    BY <1>0, <1>11 DEF Crash, HostReturns, RejectionEndsProcess, TypeParts, HistoryType, Disturbances
  <2>2. ReceivedOnly'
    BY <2>1 DEF Exit, Idle, ReceivedOnly
  <2> QED
    BY <1>0, <2>1, <2>2, ExitType
<1>12. CASE UNCHANGED vars
  BY <1>0, <1>12 DEF vars, lanes, history, TypeParts, QueueType, ClientType, LaneType, StopType, StartType,
                     HistoryType, ReceivedOnly
<1> QED
  BY <1>1, <1>2, <1>3, <1>4, <1>5, <1>6, <1>7, <1>8, <1>9, <1>10, <1>11, <1>12 DEF Next

\* RabbitMqWorker's variables keep their types in every reachable state.
THEOREM RabbitTypeOK == Spec => []TypeOK
<1>1. Init => TypeInv
  BY TypeInit DEF TypeInv, ReceivedOnly, Init, Idle
<1>2. TypeInv => TypeOK
  BY DEF TypeInv
<1> QED
  BY <1>1, <1>2, TypeStep, PTL DEF Spec

-----------------------------------------------------------------------------
(* The order of a start and its stops: while nothing has crashed and no    *)
(* drain has timed out, the channel leaves open only after every delivery  *)
(* the dispatcher accepted is finished.                                    *)

Early == startPc \in {"idle", "connecting", "opening"}
AllIdle == \A d \in Deliveries : status[d] = "idle"
NoneHeld == \A d \in Deliveries : status[d] \notin {"accepted", "running"}

Orderly ==
  /\ startPc = "idle" => \A p \in Callers : stopPc[p] = "none"
  /\ Early => /\ worker.channel = "undefined" /\ deliveries = <<>> /\ AllIdle
              /\ \A p \in Callers : stopPc[p] # "closingChannel"
  /\ \A p \in Callers : /\ stopPc[p] \in Closing => ~worker.dispatcher
                        /\ stopPc[p] = "closingChannel" => worker.channel # "open"
  /\ startPc # "idle" /\ ~worker.dispatcher => phase = "settled"
  /\ phase = "settled" => NoneHeld
  /\ worker.channel # "open" => phase = "settled" \/ AllIdle

OrderInv == Calm => Orderly

\* A stopAsync call that goes past a drained dispatcher.
LEMMA CloseChannelOrderly ==
  ASSUME TypeParts, Orderly, NEW p \in Callers, NEW f \in Workers, CloseChannel(p, f),
         f.channel = worker.channel, ~f.dispatcher,
         startPc # "idle", Early' => Early, startPc' # "idle",
         UNCHANGED <<deliveries, status>>, phase' = "settled", NoneHeld
  PROVE  Orderly'
<1>1. /\ StopType'
      /\ ~worker'.dispatcher
      /\ worker'.channel = IF worker.channel = "undefined" THEN "undefined" ELSE "closing"
      /\ \E x \in Closing : /\ stopPc' = [stopPc EXCEPT ![p] = x]
                            /\ x = "closingChannel" => worker'.channel = "closing"
  BY CloseChannelEffect DEF TypeParts
<1>2. PICK x \in Closing : /\ stopPc' = [stopPc EXCEPT ![p] = x]
                           /\ x = "closingChannel" => worker'.channel = "closing"
  BY <1>1
<1>3. worker'.channel # "open"
  BY <1>1
<1>4. Early' => /\ worker'.channel = "undefined" /\ deliveries' = <<>> /\ AllIdle'
                /\ \A q \in Callers : stopPc'[q] # "closingChannel"
  BY <1>1, <1>2 DEF Orderly, AllIdle, TypeParts, StopType
<1>5. NoneHeld'
  BY DEF NoneHeld
<1> QED
  BY <1>1, <1>3, <1>4, <1>5 DEF Orderly

\* A stopAsync call up to its drain, or past it.
LEMMA DrainDispatcherOrderly ==
  ASSUME TypeParts, Orderly, NEW p \in Callers, NEW f \in Workers, DrainDispatcher(p, f),
         f.channel = worker.channel, f.dispatcher = worker.dispatcher,
         startPc # "idle", Early' => Early, startPc' # "idle",
         UNCHANGED deliveries
  PROVE  Orderly'
<1>1. /\ StopType'
      /\ UNCHANGED <<status, laneOf>>
      /\ phase' \in {phase, "draining"} /\ (phase = "settled" => phase' = "settled")
      /\ \/ worker' = f /\ stopPc' = [stopPc EXCEPT ![p] = "draining"]
         \/ ~f.dispatcher /\ CloseChannel(p, f)
  BY DrainDispatcherEffect DEF TypeParts
<1>2. CASE ~f.dispatcher /\ CloseChannel(p, f)
  BY <1>1, <1>2, CloseChannelOrderly DEF Orderly
<1>3. CASE worker' = f /\ stopPc' = [stopPc EXCEPT ![p] = "draining"]
  BY <1>1, <1>3 DEF Orderly, AllIdle, NoneHeld, TypeParts, StopType, Closing, Ended
<1> QED
  BY <1>1, <1>2, <1>3

\* A stopAsync call up to its first await.
LEMMA StopBeginOrderly ==
  ASSUME TypeParts, Orderly, NEW p \in Callers, StopBegin(p),
         startPc # "idle", Early' => Early, startPc' # "idle",
         UNCHANGED deliveries
  PROVE  Orderly'
<1>1. worker \in Workers
  BY DEF TypeParts, StopType
<1>2. CASE DrainDispatcher(p, worker)
  BY <1>1, <1>2, DrainDispatcherOrderly
<1>3. CASE StopAt(p, "cancelling", worker) /\ UNCHANGED lanes
  BY <1>3 DEF StopAt, lanes, Orderly, AllIdle, NoneHeld, TypeParts, StopType, Closing, Ended
<1> QED
  BY <1>2, <1>3 DEF StopBegin

\* A step of the lanes while the worker's own fields stay as they are.
LEMMA LanesOrderly ==
  ASSUME TypeParts, Orderly, NEW d \in Deliveries, UNCHANGED <<worker, startPc, stopPc, deliveries>>,
         \/ worker.channel = "open" /\ \E l \in Lanes : Dispatcher!Call(d, l)
         \/ Dispatcher!Accept(d) \/ Dispatcher!Run(d) \/ Dispatcher!Refuse(d) \/ Dispatcher!Finish(d)
  PROVE  Orderly'
<1>1. /\ UNCHANGED phase
      /\ \E s \in Statuses : status' = [status EXCEPT ![d] = s]
  BY LaneStepType DEF TypeParts
<1>2. AllIdle => worker.channel = "open"
  BY DEF AllIdle, Dispatcher!Accept, Dispatcher!Run, Dispatcher!Refuse, Dispatcher!Finish
<1>3. ~Early
  BY <1>2 DEF Orderly
<1>4. phase = "settled" => status'[d] \notin {"accepted", "running"}
  BY DEF TypeParts, LaneType, Orderly, NoneHeld, Dispatcher!Call, Dispatcher!Accept, Dispatcher!Run,
         Dispatcher!Refuse, Dispatcher!Finish, Dispatcher!SetStatus
<1>5. phase = "settled" => NoneHeld'
  BY <1>1, <1>4 DEF Orderly, NoneHeld, TypeParts, LaneType
<1> QED
  BY <1>1, <1>2, <1>3, <1>5 DEF Orderly, Early

\* A process that has just started is in order.
LEMMA FreshOrderly ==
  ASSUME startPc = "idle", worker = Unset, deliveries = <<>>, status = Idle, stopPc = NotCalled,
         phase = "open"
  PROVE  Orderly
BY DEF Orderly, Early, Unset, AllIdle, Idle, NotCalled, Closing

\* Only a crash or a drain that times out disturbs, and nothing undoes it.
LEMMA CalmBefore == [Next]_vars /\ Calm' => Calm
<1> SUFFICES ASSUME [Next]_vars, Calm' PROVE Calm
  OBVIOUS
<1>1. CASE UNCHANGED disturbed
  BY <1>1 DEF Calm
<1>2. ASSUME NEW p \in Callers, DrainEnds(p) PROVE Calm
  BY <1>2 DEF DrainEnds, Calm
<1>3. CASE Crash \/ RejectionEndsProcess
  BY <1>3 DEF Crash, RejectionEndsProcess, Calm
<1> QED
  BY <1>1, <1>2, <1>3 DEF Next, StartBegin, ConnectionOpened, ChannelOpened, ConsumeAnswered, StartFails,
     StartRethrows, HostStops, CancelEnds, ChannelCloseEnds, ConnectionCloseEnds, Push, ConsumerRegistered,
     ConsumerCancelled, OnReceived, DispatcherSteps, HandlerEnds, HostReturns, history, vars

\* The end of a process in a calm run is followed by a fresh one.
LEMMA ExitOrderly == ASSUME Exit PROVE Orderly'
<1>1. /\ startPc' = "idle" /\ worker' = Unset /\ deliveries' = <<>> /\ status' = Idle
      /\ stopPc' = NotCalled /\ phase' = "open"
  BY DEF Exit
<1> QED
  BY <1>1 DEF Orderly, Early, Unset, AllIdle, Idle, NotCalled, Closing

\* Every step keeps the order.
LEMMA OrderStep == TypeInv /\ OrderInv /\ [Next]_vars => OrderInv'
<1> SUFFICES ASSUME TypeInv, Orderly, [Next]_vars, Calm, Calm' PROVE Orderly'
  BY CalmBefore DEF OrderInv
<1>0. TypeParts
  BY TypeOKParts DEF TypeInv
<1>1. ASSUME StartBegin \/ ConnectionOpened \/ ChannelOpened \/ ConsumeAnswered \/ StartRethrows
      PROVE  Orderly'
  <2>1. UNCHANGED <<deliveries, status, phase, stopPc>>
    BY <1>1 DEF StartBegin, ConnectionOpened, ChannelOpened, ConsumeAnswered, StartRethrows, lanes
  <2>2. CASE StartBegin
    <3>1. startPc = "idle" /\ startPc' = "connecting" /\ worker' = [worker EXCEPT !.dispatcher = TRUE]
      BY <2>2 DEF StartBegin
    <3> QED
      BY <1>0, <2>1, <3>1 DEF Orderly, Early, AllIdle, NoneHeld, TypeParts, StopType, Workers, Closing, Ended
  <2>3. CASE ConnectionOpened
    <3>1. startPc = "connecting" /\ startPc' = "opening" /\ worker' = [worker EXCEPT !.connection = "open"]
      BY <2>3 DEF ConnectionOpened
    <3> QED
      BY <1>0, <2>1, <3>1 DEF Orderly, Early, AllIdle, NoneHeld, TypeParts, StopType, Workers
  <2>4. CASE ChannelOpened
    <3>1. startPc = "opening" /\ startPc' = "consuming" /\ worker' = [worker EXCEPT !.channel = "open"]
      BY <2>4 DEF ChannelOpened
    <3> QED
      BY <1>0, <2>1, <3>1 DEF Orderly, Early, AllIdle, NoneHeld, TypeParts, StopType, Workers
  <2>5. CASE ConsumeAnswered
    <3>1. startPc = "consuming" /\ startPc' = "started" /\ worker' = [worker EXCEPT !.consumerTag = TRUE]
      BY <2>5 DEF ConsumeAnswered
    <3> QED
      BY <1>0, <2>1, <3>1 DEF Orderly, Early, AllIdle, NoneHeld, TypeParts, StopType, Workers
  <2>6. CASE StartRethrows
    <3>1. startPc = "failing" /\ startPc' = "failed" /\ worker' = worker
      BY <2>6 DEF StartRethrows
    <3> QED
      BY <2>1, <3>1 DEF Orderly, Early, AllIdle, NoneHeld
  <2> QED
    BY <1>1, <2>2, <2>3, <2>4, <2>5, <2>6
<1>2. ASSUME StartFails \/ HostStops
      PROVE  Orderly'
  <2>1. /\ \E p \in Callers : StopBegin(p)
        /\ startPc # "idle" /\ startPc' \in {startPc, "failing"}
        /\ UNCHANGED deliveries
    BY <1>2 DEF StartFails, HostStops, Callers
  <2> QED
    BY <1>0, <2>1, StopBeginOrderly DEF Early
<1>3. ASSUME NEW p \in Callers, CancelEnds(p)
      PROVE  Orderly'
  <2> DEFINE f == [worker EXCEPT !.consumerTag = FALSE]
  <2>1. /\ stopPc[p] = "cancelling"
        /\ DrainDispatcher(p, f)
        /\ UNCHANGED <<startPc, deliveries>>
    BY <1>3 DEF CancelEnds
  <2>2. f \in Workers /\ f.channel = worker.channel /\ f.dispatcher = worker.dispatcher
    BY <1>0 DEF TypeParts, StopType, Workers
  <2>3. startPc # "idle"
    BY <2>1 DEF Orderly
  <2> HIDE DEF f
  <2> QED
    BY <1>0, <2>1, <2>2, <2>3, DrainDispatcherOrderly DEF Early
<1>4. ASSUME NEW p \in Callers, DrainEnds(p)
      PROVE  Orderly'
  <2> DEFINE f == [worker EXCEPT !.dispatcher = FALSE]
  <2>1. /\ stopPc[p] = "draining"
        /\ Dispatcher!Settle \/ (phase = "settled" /\ UNCHANGED lanes)
        /\ CloseChannel(p, f)
        /\ UNCHANGED <<startPc, deliveries>>
    BY <1>4 DEF DrainEnds, Calm
  <2>2. f \in Workers /\ f.channel = worker.channel /\ ~f.dispatcher
    BY <1>0 DEF TypeParts, StopType, Workers
  <2>3. startPc # "idle"
    BY <2>1 DEF Orderly
  <2>4. phase' = "settled" /\ NoneHeld /\ UNCHANGED status
    BY <2>1 DEF Dispatcher!Settle, Dispatcher!Held, lanes, Orderly, NoneHeld
  <2> HIDE DEF f
  <2> QED
    BY <1>0, <2>1, <2>2, <2>3, <2>4, CloseChannelOrderly DEF Early
<1>5. ASSUME NEW p \in Callers, ChannelCloseEnds(p) \/ ConnectionCloseEnds(p)
      PROVE  Orderly'
  <2>1. /\ stopPc[p] \in Closing /\ UNCHANGED <<deliveries, status, phase, startPc>>
        /\ \E x \in Closing : stopPc' = [stopPc EXCEPT ![p] = x] /\ x # "closingChannel"
        /\ worker'.dispatcher = worker.dispatcher
        /\ worker'.channel = worker.channel \/ (worker'.channel = "undefined" /\ worker.channel # "open")
    <3>1. CASE ConnectionCloseEnds(p)
      BY <1>0, <3>1 DEF ConnectionCloseEnds, StopAt, lanes, Closing, Ended, TypeParts, StopType, Workers
    <3>2. CASE ChannelCloseEnds(p)
      <4>1. /\ stopPc[p] = "closingChannel" /\ UNCHANGED <<deliveries, status, phase, startPc>>
            /\ \/ CloseConnection(p, [worker EXCEPT !.channel = "undefined"])
               \/ StopAt(p, "failed", worker)
        BY <3>2 DEF ChannelCloseEnds, lanes
      <4>2. worker.channel # "open"
        BY <4>1 DEF Orderly
      <4> QED
        BY <1>0, <4>1, <4>2 DEF CloseConnection, StopAt, Closing, Ended, TypeParts, StopType, Workers
    <3> QED
      BY <1>5, <3>1, <3>2
  <2> QED
    BY <1>0, <2>1 DEF Orderly, Early, AllIdle, NoneHeld, TypeParts, StopType, Closing, Ended
<1>6. ASSUME NEW m \in Messages, Push(m)
      PROVE  Orderly'
  <2>1. worker.channel = "open" /\ UNCHANGED <<status, phase, worker, startPc, stopPc>>
    BY <1>6 DEF Push, lanes
  <2> QED
    BY <2>1 DEF Orderly, Early, NoneHeld
<1>7. ASSUME ConsumerRegistered \/ ConsumerCancelled \/ UNCHANGED vars
      PROVE  Orderly'
  <2>1. UNCHANGED <<deliveries, status, phase, worker, startPc, stopPc>>
    BY <1>7 DEF ConsumerRegistered, ConsumerCancelled, vars, lanes
  <2> QED
    BY <2>1 DEF Orderly, Early, AllIdle, NoneHeld
<1>8. CASE OnReceived
  <2>1. /\ worker.channel = "open" /\ received < Len(deliveries) /\ received' = received + 1
        /\ UNCHANGED <<deliveries, worker, startPc, stopPc>>
        /\ \/ \E l \in Lanes : Dispatcher!Call(received', l)
           \/ UNCHANGED <<status, laneOf, phase>>
    BY <1>8 DEF OnReceived, lanes
  <2>2. received' \in Deliveries
    BY <1>0, <2>1, RabbitMqAssumption DEF RabbitMqAssumption, TypeParts, ClientType, Deliveries
  <2>3. CASE UNCHANGED <<status, laneOf, phase>>
    BY <2>1, <2>3 DEF Orderly, Early, AllIdle, NoneHeld
  <2> QED
    BY <1>0, <2>1, <2>2, <2>3, LanesOrderly
<1>9. ASSUME NEW d \in Deliveries, DispatcherSteps(d) \/ \E ok \in BOOLEAN : HandlerEnds(d, ok)
      PROVE  Orderly'
  <2>1. /\ UNCHANGED <<deliveries, worker, startPc, stopPc>>
        /\ Dispatcher!Accept(d) \/ Dispatcher!Run(d) \/ Dispatcher!Refuse(d) \/ Dispatcher!Finish(d)
    BY <1>9 DEF DispatcherSteps, HandlerEnds
  <2> QED
    BY <1>0, <2>1, LanesOrderly
<1>10. CASE Crash \/ HostReturns \/ RejectionEndsProcess
  BY <1>10, ExitOrderly DEF Crash, HostReturns, RejectionEndsProcess
<1> QED
  BY <1>1, <1>2, <1>3, <1>4, <1>5, <1>6, <1>7, <1>8, <1>9, <1>10 DEF Next

-----------------------------------------------------------------------------
(* The ledger: what the handlers of a message have come to, by where the   *)
(* message is.                                                             *)

M(d) == deliveries[d].message
Unfinished == {d \in 1 .. Len(deliveries) : status[d] # "finished"}
Taken == IF config.autoAck THEN "acked" ELSE "unacked"

\* No handler of m has ended in a way that settles it for good.
Clean(m) ==
  /\ Calm \/ config.autoAck => succeeded[m] = 0
  /\ config.autoAck \/ (config.atMostOnce /\ Calm) => failed[m] = 0
  /\ Calm => failed[m] <= 1

\* What the properties say of m.
Totals(m) ==
  /\ Calm \/ config.autoAck => succeeded[m] <= 1
  /\ config.autoAck \/ (config.atMostOnce /\ Calm) => succeeded[m] + failed[m] <= 1
  /\ Calm /\ ~config.autoAck => failed[m] <= 2

\* A message that failed is known to have been delivered before.
Marked(m, flag) == Calm /\ failed[m] # 0 => flag

QueueLedger ==
  \A m \in Messages : /\ Totals(m)
                      /\ place[m] \in {"ready", "unacked"} => Clean(m) /\ Marked(m, redelivered[m])

\* While its channel is open, a delivery that is not finished is the only one of
\* its message.
Open == config.autoAck \/ (Calm /\ worker.channel = "open")
DeliveryLedger ==
  Open =>
    /\ \A d \in Unfinished : /\ place[M(d)] = Taken
                             /\ Clean(M(d)) /\ Marked(M(d), deliveries[d].redelivered)
    /\ \A d, e \in Unfinished : M(d) = M(e) => d = e

Ledger == QueueLedger /\ DeliveryLedger

\* The ledger is about a calm run, or one under AutoAck.
Counted == Calm \/ config.autoAck

\* Nothing is asked of a run that was disturbed.
LEMMA LedgerDisturbed == ~Counted => Ledger
BY DEF Counted, Ledger, QueueLedger, DeliveryLedger, Totals, Clean, Marked, Open

\* Nothing ends, moves or is pushed, and the channel does not open.
LEMMA LedgerKept ==
  ASSUME Ledger, Calm' => Calm, UNCHANGED <<config, place, redelivered, succeeded, failed, deliveries>>,
         worker'.channel = "open" => worker.channel = "open",
         \A d \in 1 .. Len(deliveries) : status'[d] # "finished" => status[d] # "finished"
  PROVE  Ledger'
<1>1. \A m : (Clean(m) => Clean(m)') /\ (Totals(m) => Totals(m)')
  BY DEF Clean, Totals
<1>2. \A m, flag : Marked(m, flag) => (Calm' /\ failed'[m] # 0 => flag)
  BY DEF Marked
<1>3. QueueLedger'
  BY <1>1, <1>2 DEF Ledger, QueueLedger, Marked
<1>4. Open' => Open
  BY DEF Open
<1>5. Unfinished' \subseteq Unfinished
  BY DEF Unfinished
<1>6. DeliveryLedger'
  BY <1>1, <1>2, <1>4, <1>5 DEF Ledger, DeliveryLedger, M, Taken, Marked
<1> QED
  BY <1>3, <1>6 DEF Ledger

\* A channel that is not open any more gives back what is unacknowledged.
LEMMA LedgerReturned ==
  ASSUME TypeParts, Ledger, Calm' => Calm, ReturnUnacked, UNCHANGED <<config, succeeded, failed>>,
         \/ deliveries' = <<>>
         \/ UNCHANGED <<deliveries, status>> /\ worker'.channel # "open"
  PROVE  Ledger'
<1>1. \A m : (Clean(m) => Clean(m)') /\ (Totals(m) => Totals(m)')
  BY DEF Clean, Totals
<1>2. \A m \in Messages : /\ place'[m] \in {"ready", "unacked"} => place[m] \in {"ready", "unacked"}
                          /\ place[m] = "acked" => place'[m] = "acked"
                          /\ redelivered[m] => redelivered'[m]
  BY DEF ReturnUnacked, Unacked
<1>3. QueueLedger'
  BY <1>1, <1>2 DEF Ledger, QueueLedger, Marked
<1>4. DeliveryLedger'
  <2>1. CASE deliveries' = <<>>
    <3>1. Len(deliveries') = 0
      BY <2>1
    <3>2. Unfinished' = {}
      BY <3>1 DEF Unfinished
    <3> QED
      BY <3>2 DEF DeliveryLedger
  <2>2. CASE UNCHANGED <<deliveries, status>> /\ worker'.channel # "open"
    <3> SUFFICES ASSUME Open' PROVE DeliveryLedger'
      BY DEF DeliveryLedger
    <3>1. config.autoAck /\ Open
      BY <2>2 DEF Open
    <3>2. Unfinished' = Unfinished /\ \A d \in Unfinished : M(d) \in Messages /\ M(d)' = M(d)
      BY <2>2, PushedType DEF Unfinished, M, TypeParts
    <3>3. \A d \in Unfinished : /\ place'[M(d)] = "acked" /\ Clean(M(d))'
                                /\ Marked(M(d), deliveries[d].redelivered)'
      BY <1>1, <1>2, <2>2, <3>1, <3>2 DEF Ledger, DeliveryLedger, Taken, Marked
    <3>4. \A d, e \in Unfinished : M(d) = M(e) => d = e
      BY <3>1 DEF Ledger, DeliveryLedger
    <3> QED
      BY <2>2, <3>1, <3>2, <3>3, <3>4 DEF DeliveryLedger, Taken
  <2> QED
    BY <2>1, <2>2
<1> QED
  BY <1>3, <1>4 DEF Ledger

\* A message is pushed when no delivery of it is unfinished.
LEMMA LedgerPushed ==
  ASSUME TypeParts, ReceivedOnly, Ledger, NEW m \in Messages, Push(m)
  PROVE  Ledger'
<1> DEFINE new == [message |-> m, redelivered |-> redelivered[m]]
<1>n. PICK n \in Nat : n = Len(deliveries) + 1
  BY DEF TypeParts, ClientType
<1>1. /\ worker.channel = "open" /\ place[m] = "ready"
      /\ Len(deliveries) < DeliveryCount
      /\ place' = [place EXCEPT ![m] = Taken]
      /\ deliveries' = Append(deliveries, new)
      /\ UNCHANGED <<redelivered, received, status, worker, config, succeeded, failed, disturbed>>
  BY DEF Push, Taken, lanes, history
<1>2. /\ Len(deliveries) \in Nat /\ Len(deliveries') = n
      /\ \A d \in 1 .. Len(deliveries) : deliveries'[d] = deliveries[d]
      /\ deliveries'[n] = new
      /\ \A d \in 1 .. Len(deliveries) : M(d) \in Messages
  BY <1>n, <1>1, PushedType DEF TypeParts, ClientType, M
<1>3. new.message = m /\ new.redelivered = redelivered[m]
  OBVIOUS
<1> HIDE DEF new
<1>4. \A k \in Messages : place'[k] = IF k = m THEN Taken ELSE place[k]
  BY <1>1 DEF TypeParts, QueueType
<1>5. \A k : (Clean(k) <=> Clean(k)') /\ (Totals(k) <=> Totals(k)')
  BY <1>1 DEF Clean, Totals, Calm
<1>6. QueueLedger'
  BY <1>1, <1>4, <1>5 DEF Ledger, QueueLedger, Marked, Taken, Calm
<1>7. DeliveryLedger'
  <2> SUFFICES ASSUME Open' PROVE DeliveryLedger'
    BY DEF DeliveryLedger
  <2>1. Open
    BY <1>1 DEF Open, Calm
  <2>2. /\ \A d \in Unfinished : /\ place[M(d)] = Taken
                                 /\ Clean(M(d)) /\ Marked(M(d), deliveries[d].redelivered)
        /\ \A d, e \in Unfinished : M(d) = M(e) => d = e
    BY <2>1 DEF Ledger, DeliveryLedger
  <2>3. Unfinished' \subseteq Unfinished \cup {n}
    BY <1>n, <1>1, <1>2 DEF Unfinished
  <2>4. \A d \in Unfinished : /\ d \in 1 .. Len(deliveries) /\ d # n
                              /\ M(d) \in Messages /\ M(d) # m
                              /\ M(d)' = M(d) /\ deliveries'[d].redelivered = deliveries[d].redelivered
    BY <1>n, <1>1, <1>2, <2>2 DEF Unfinished, M, Taken
  <2>5. M(n)' = m /\ deliveries'[n].redelivered = redelivered[m]
    BY <1>2, <1>3 DEF M
  <2>6. Clean(m) /\ Marked(m, redelivered[m])
    BY <1>1 DEF Ledger, QueueLedger
  <2>7. Taken' = Taken
    BY <1>1 DEF Taken
  <2>8. ASSUME NEW d \in Unfinished'
        PROVE  /\ place'[M(d)'] = Taken /\ Clean(M(d))'
               /\ Marked(M(d), deliveries[d].redelivered)'
    <3>1. CASE d = n
      <4>1. place'[m] = Taken /\ Clean(m)'
        BY <1>4, <1>5, <2>6
      <4>2. Calm' /\ failed'[m] # 0 => redelivered[m]
        BY <1>1, <2>6 DEF Marked, Calm
      <4> QED
        BY <2>5, <3>1, <4>1, <4>2 DEF Clean, Marked
    <3>2. CASE d \in Unfinished
      <4> PICK k \in Messages \ {m} : k = M(d) /\ k = M(d)'
        BY <2>4, <3>2
      <4>1. place'[k] = Taken /\ Clean(k)'
        BY <1>4, <1>5, <2>2, <3>2
      <4>2. Calm' /\ failed'[k] # 0 => deliveries[d].redelivered
        BY <1>1, <2>2, <3>2 DEF Marked, Calm
      <4> QED
        BY <2>4, <3>2, <4>1, <4>2 DEF Clean, Marked
    <3> QED
      BY <2>3, <3>1, <3>2
  <2>9. ASSUME NEW d \in Unfinished', NEW e \in Unfinished', M(d)' = M(e)'
        PROVE  d = e
    BY <2>2, <2>3, <2>4, <2>5, <2>9
  <2> QED
    BY <2>7, <2>8, <2>9 DEF DeliveryLedger
<1> QED
  BY <1>6, <1>7 DEF Ledger

\* A handler that runs in a calm run has an open channel to settle on.
LEMMA RunningOpen ==
  ASSUME Orderly, NEW d \in Deliveries, status[d] = "running"
  PROVE  worker.channel = "open"
BY DEF Orderly, NoneHeld, AllIdle

\* The end of a handler enters the ledger with its settlement.
LEMMA LedgerHandled ==
  ASSUME TypeParts, ReceivedOnly, OrderInv, Ledger, NEW d \in Deliveries, NEW ok \in BOOLEAN, HandlerEnds(d, ok)
  PROVE  Ledger'
<1> PICK m, flag, requeue : /\ m = deliveries[d].message /\ flag = deliveries[d].redelivered
                            /\ requeue = (config.requeueOnFailure /\ ~flag)
  OBVIOUS
<1>1. /\ UNCHANGED <<deliveries, worker, config, disturbed>>
      /\ status[d] = "running" /\ status' = [status EXCEPT ![d] = "finished"]
      /\ Settle(m, ok, flag)
      /\ \/ ok /\ succeeded' = [succeeded EXCEPT ![m] = succeeded[m] + 1] /\ UNCHANGED failed
         \/ ~ok /\ failed' = [failed EXCEPT ![m] = failed[m] + 1] /\ UNCHANGED succeeded
  BY DEF HandlerEnds, Dispatcher!Finish, Dispatcher!SetStatus
<1>2. d \in Unfinished /\ m \in Messages /\ flag \in BOOLEAN
  BY <1>1, PushedType, RabbitMqAssumption
     DEF RabbitMqAssumption, ReceivedOnly, TypeParts, ClientType, Deliveries, Unfinished
<1>3. CASE ~Counted
  <2>1. ~Counted'
    BY <1>1, <1>3 DEF Counted, Calm
  <2> QED
    BY <2>1, LedgerDisturbed, PTL
<1>4. ASSUME Counted
      PROVE  Ledger'
  <2>1. Open /\ (Calm => worker.channel = "open")
    BY <1>1, <1>4, RunningOpen DEF Counted, Open, OrderInv
  <2>2. /\ \A e \in Unfinished : /\ place[M(e)] = Taken
                                 /\ Clean(M(e)) /\ Marked(M(e), deliveries[e].redelivered)
        /\ \A e, f \in Unfinished : M(e) = M(f) => e = f
    BY <2>1 DEF Ledger, DeliveryLedger
  <2>3. place[m] = Taken /\ Clean(m) /\ Marked(m, flag)
    BY <1>2, <2>2 DEF M
  <2>4. /\ succeeded[m] \in Nat /\ failed[m] \in Nat
        /\ succeeded'[m] = IF ok THEN succeeded[m] + 1 ELSE succeeded[m]
        /\ failed'[m] = IF ok THEN failed[m] ELSE failed[m] + 1
        /\ \A k \in Messages \ {m} : succeeded'[k] = succeeded[k] /\ failed'[k] = failed[k]
    BY <1>1, <1>2 DEF TypeParts, HistoryType
  <2>5. \/ config.autoAck /\ UNCHANGED <<place, redelivered>>
        \/ /\ ~config.autoAck /\ (ok \/ config.atMostOnce)
           /\ place' = [place EXCEPT ![m] = "acked"] /\ UNCHANGED redelivered
        \/ /\ ~config.autoAck /\ ~ok /\ ~config.atMostOnce
           /\ place' = [place EXCEPT ![m] = IF requeue THEN "ready" ELSE "dropped"]
           /\ redelivered' = [redelivered EXCEPT ![m] = @ \/ requeue]
    <3>1. CASE config.autoAck
      BY <1>1, <3>1 DEF Settle, queue
    <3>2. CASE ~config.autoAck /\ (ok \/ config.atMostOnce)
      BY <1>1, <1>4, <2>1, <3>2 DEF Settle, Ack, Counted
    <3>3. CASE ~config.autoAck /\ ~ok /\ ~config.atMostOnce
      <4>1. Nack(m, flag) /\ worker.channel = "open"
        BY <1>1, <1>4, <2>1, <3>3 DEF Settle, Counted
      <4> QED
        BY <3>3, <4>1 DEF Nack
    <3> QED
      BY <3>1, <3>2, <3>3
  <2>6. \A k \in Messages \ {m} : place'[k] = place[k] /\ redelivered'[k] = redelivered[k]
    BY <1>2, <2>5 DEF TypeParts, QueueType
  <2>7. Calm' <=> Calm
    BY <1>1 DEF Calm
  <2>8. Totals(m)'
    BY <1>1, <2>3, <2>4, <2>7 DEF Totals, Clean
  <2>9. place'[m] \in {"ready", "unacked"} => Clean(m)' /\ Marked(m, redelivered[m])'
    <3> SUFFICES ASSUME place'[m] \in {"ready", "unacked"}
                 PROVE  Clean(m)' /\ Marked(m, redelivered[m])'
      OBVIOUS
    <3>1. /\ ~config.autoAck /\ ~ok /\ ~config.atMostOnce /\ requeue
          /\ redelivered'[m]
      BY <1>2, <2>3, <2>5 DEF Taken, TypeParts, QueueType
    <3>2. Calm => failed[m] = 0
      BY <2>3, <3>1 DEF Marked
    <3> QED
      BY <1>1, <2>3, <2>4, <2>7, <3>1, <3>2 DEF Clean, Marked
  <2>10. \A k \in Messages \ {m} : /\ Clean(k) => Clean(k)'
                                   /\ Totals(k) => Totals(k)'
    BY <1>1, <2>4, <2>7 DEF Clean, Totals
  <2>11. \A k \in Messages \ {m} : failed'[k] = failed[k]
    BY <2>4
  <2>12. QueueLedger'
    <3> SUFFICES ASSUME NEW k \in Messages
                 PROVE  /\ Totals(k)'
                        /\ place'[k] \in {"ready", "unacked"} => Clean(k)' /\ Marked(k, redelivered[k])'
      BY DEF QueueLedger
    <3>1. CASE k = m
      BY <2>8, <2>9, <3>1
    <3>2. CASE k # m
      BY <2>6, <2>7, <2>10, <2>11, <3>2 DEF Ledger, QueueLedger, Marked
    <3> QED
      BY <3>1, <3>2
  <2>13. DeliveryLedger'
    <3>1. Unfinished' \subseteq Unfinished \ {d}
      BY <1>1 DEF Unfinished, TypeParts, LaneType
    <3>2. \A e \in Unfinished \ {d} : M(e) \in Messages \ {m} /\ M(e)' = M(e)
      BY <1>1, <1>2, <2>2, PushedType DEF Unfinished, M, TypeParts
    <3>3. \A e \in Unfinished' : /\ place'[M(e)'] = Taken /\ Clean(M(e))'
                                 /\ Marked(M(e), deliveries[e].redelivered)'
      <4> SUFFICES ASSUME NEW e \in Unfinished'
                   PROVE  /\ place'[M(e)'] = Taken /\ Clean(M(e))'
                          /\ Marked(M(e), deliveries[e].redelivered)'
        OBVIOUS
      <4> PICK k \in Messages \ {m} : k = M(e) /\ k = M(e)'
        BY <3>1, <3>2
      <4>1. place'[k] = Taken /\ Clean(k)'
        BY <2>2, <2>6, <2>10, <3>1
      <4>2. Calm' /\ failed'[k] # 0 => deliveries[e].redelivered
        BY <2>2, <2>7, <2>11, <3>1 DEF Marked
      <4> QED
        BY <1>1, <4>1, <4>2 DEF Clean, Marked
    <3>4. \A e, f \in Unfinished' : M(e)' = M(f)' => e = f
      BY <2>2, <3>1, <3>2
    <3> QED
      BY <1>1, <3>3, <3>4 DEF DeliveryLedger, Taken
  <2> QED
    BY <2>12, <2>13 DEF Ledger
<1> QED
  BY <1>3, <1>4

\* Every step keeps the ledger.
LEMMA LedgerStep == TypeInv /\ OrderInv /\ Ledger /\ [Next]_vars => Ledger'
<1> SUFFICES ASSUME TypeInv, OrderInv, Ledger, [Next]_vars PROVE Ledger'
  OBVIOUS
<1>0. TypeParts /\ ReceivedOnly /\ (Calm' => Calm)
  BY TypeOKParts, CalmBefore DEF TypeInv
<1>1. ASSUME UNCHANGED <<config, place, redelivered, succeeded, failed, deliveries>>,
             worker'.channel = "open" => worker.channel = "open" \/ deliveries = <<>>,
             \A d \in Deliveries : status'[d] # "finished" => status[d] # "finished"
      PROVE  Ledger'
  <2>1. CASE worker'.channel = "open" => worker.channel = "open"
    <3>1. 1 .. Len(deliveries) \subseteq Deliveries
      BY <1>0, RabbitMqAssumption DEF RabbitMqAssumption, TypeParts, ClientType, Deliveries
    <3> QED
      BY <1>0, <1>1, <2>1, <3>1, LedgerKept
  <2>2. CASE deliveries = <<>>
    <3>1. Len(deliveries') = 0
      BY <1>1, <2>2
    <3>2. Unfinished' = {}
      BY <3>1 DEF Unfinished
    <3>3. DeliveryLedger'
      BY <3>2 DEF DeliveryLedger
    <3>4. \A m : (Clean(m) => Clean(m)') /\ (Totals(m) => Totals(m)')
      BY <1>0, <1>1 DEF Clean, Totals
    <3>5. QueueLedger'
      BY <1>0, <1>1, <3>4 DEF Ledger, QueueLedger, Marked
    <3> QED
      BY <3>3, <3>5 DEF Ledger
  <2> QED
    BY <1>1, <2>1, <2>2
<1>2. CASE StartBegin \/ ConnectionOpened \/ ConsumeAnswered \/ StartRethrows
  <2>1. /\ UNCHANGED <<config, place, redelivered, succeeded, failed, deliveries, status>>
        /\ worker'.channel = worker.channel
    BY <1>0, <1>2 DEF StartBegin, ConnectionOpened, ConsumeAnswered, StartRethrows, queue, lanes, history,
                      TypeParts, StopType, Workers
  <2> QED
    BY <1>1, <2>1
<1>3. CASE ChannelOpened
  <2>1. /\ UNCHANGED <<config, place, redelivered, succeeded, failed, deliveries, status>>
        /\ startPc = "opening"
    BY <1>3 DEF ChannelOpened, queue, lanes, history
  <2>2. Calm => deliveries = <<>>
    BY <2>1 DEF OrderInv, Orderly, Early
  <2>3. CASE Calm
    BY <1>1, <2>1, <2>2, <2>3
  <2>4. CASE ~Calm
    <3>1. Open' => Open
      BY <1>0, <2>1, <2>4 DEF Open
    <3>2. \A m : (Clean(m) => Clean(m)') /\ (Totals(m) => Totals(m)')
      BY <1>0, <2>1 DEF Clean, Totals
    <3>3. \A m, flag : Marked(m, flag)'
      BY <1>0, <2>4 DEF Marked
    <3>4. QueueLedger'
      BY <2>1, <3>2, <3>3 DEF Ledger, QueueLedger
    <3>5. ~Calm'
      BY <1>0, <2>4
    <3>6. DeliveryLedger'
      BY <2>1, <3>1, <3>2, <3>5 DEF Ledger, DeliveryLedger, Unfinished, M, Taken, Marked
    <3> QED
      BY <3>4, <3>6 DEF Ledger
  <2> QED
    BY <2>3, <2>4
<1>4. ASSUME StartFails \/ HostStops
      PROVE  Ledger'
  <2>1. /\ UNCHANGED <<config, place, redelivered, succeeded, failed, deliveries>>
        /\ \E p \in Callers : StopBegin(p)
    BY <1>4 DEF StartFails, HostStops, queue, history, Callers
  <2>2. PICK p \in Callers : StopBegin(p)
    BY <2>1
  <2>3. UNCHANGED status /\ (worker' = worker \/ CloseChannel(p, worker))
    BY <1>0, <2>2, StopBeginEffect DEF TypeParts
  <2>4. worker'.channel = "open" => worker.channel = "open"
    BY <1>0, <2>3, CloseChannelEffect DEF TypeParts, StopType
  <2> QED
    BY <1>1, <2>1, <2>3, <2>4
<1>5. ASSUME NEW p \in Callers, CancelEnds(p)
      PROVE  Ledger'
  <2> PICK f : f = [worker EXCEPT !.consumerTag = FALSE]
    OBVIOUS
  <2>1. /\ UNCHANGED <<config, place, redelivered, succeeded, failed, deliveries>>
        /\ DrainDispatcher(p, f)
        /\ f \in Workers /\ f.channel = worker.channel
    BY <1>0, <1>5 DEF CancelEnds, queue, history, TypeParts, StopType, Workers
  <2>2. UNCHANGED status /\ (worker' = f \/ CloseChannel(p, f))
    BY <1>0, <2>1, DrainDispatcherEffect DEF TypeParts
  <2>3. worker'.channel = "open" => worker.channel = "open"
    BY <1>0, <2>1, <2>2, CloseChannelEffect DEF TypeParts
  <2> QED
    BY <1>1, <2>1, <2>2, <2>3
<1>6. ASSUME NEW p \in Callers, DrainEnds(p)
      PROVE  Ledger'
  <2> PICK f : f = [worker EXCEPT !.dispatcher = FALSE]
    OBVIOUS
  <2>1. /\ UNCHANGED <<config, place, redelivered, succeeded, failed, deliveries, status>>
        /\ CloseChannel(p, f)
        /\ f \in Workers /\ f.channel = worker.channel
    BY <1>0, <1>6 DEF DrainEnds, queue, lanes, Dispatcher!Settle, TypeParts, StopType, Workers
  <2>2. worker'.channel = "open" => worker.channel = "open"
    BY <1>0, <2>1, CloseChannelEffect DEF TypeParts
  <2> QED
    BY <1>1, <2>1, <2>2
<1>7. ASSUME NEW p \in Callers, ChannelCloseEnds(p)
      PROVE  Ledger'
  <2>1. /\ ReturnUnacked /\ UNCHANGED <<config, succeeded, failed, deliveries, status>>
        /\ stopPc[p] = "closingChannel"
        /\ \/ CloseConnection(p, [worker EXCEPT !.channel = "undefined"])
           \/ StopAt(p, "failed", worker)
    BY <1>7 DEF ChannelCloseEnds, lanes, history
  <2>2. worker'.channel = worker.channel \/ worker'.channel = "undefined"
    BY <1>0, <2>1 DEF CloseConnection, StopAt, TypeParts, StopType, Workers
  <2>3. CASE worker'.channel # "open"
    BY <1>0, <2>1, <2>3, LedgerReturned
  <2>4. CASE ~Calm
    <3>1. CASE config.autoAck
      <4>1. \A m : (Clean(m) => Clean(m)') /\ (Totals(m) => Totals(m)')
        BY <1>0, <2>1 DEF Clean, Totals
      <4>2. ~Calm' /\ \A m, flag : Marked(m, flag)'
        BY <1>0, <2>4 DEF Marked
      <4>3. \A m \in Messages : /\ place'[m] \in {"ready", "unacked"} => place[m] \in {"ready", "unacked"}
                                /\ place[m] = "acked" => place'[m] = "acked"
        BY <2>1 DEF ReturnUnacked, Unacked
      <4>4. QueueLedger'
        BY <4>1, <4>2, <4>3 DEF Ledger, QueueLedger
      <4>5. Unfinished' = Unfinished /\ \A d \in Unfinished : M(d) \in Messages /\ M(d)' = M(d)
        BY <1>0, <2>1, PushedType DEF Unfinished, M, TypeParts
      <4>6. /\ \A d \in Unfinished : place[M(d)] = "acked" /\ Clean(M(d))
            /\ \A d, e \in Unfinished : M(d) = M(e) => d = e
        BY <3>1 DEF Ledger, DeliveryLedger, Open, Taken
      <4>7. \A d \in Unfinished : /\ place'[M(d)] = "acked" /\ Clean(M(d))'
                                  /\ Marked(M(d), deliveries[d].redelivered)'
        BY <4>1, <4>2, <4>3, <4>5, <4>6, <2>1 DEF Marked
      <4>8. DeliveryLedger'
        BY <2>1, <3>1, <4>5, <4>6, <4>7 DEF DeliveryLedger, Taken
      <4> QED
        BY <4>4, <4>8 DEF Ledger
    <3>2. CASE ~config.autoAck
      <4>1. ~Counted'
        BY <1>0, <2>1, <2>4, <3>2 DEF Counted
      <4> QED
        BY <4>1, LedgerDisturbed, PTL
    <3> QED
      BY <3>1, <3>2
  <2>5. Calm => worker.channel # "open"
    BY <2>1 DEF OrderInv, Orderly
  <2> QED
    BY <2>2, <2>3, <2>4, <2>5
<1>8. ASSUME NEW p \in Callers, ConnectionCloseEnds(p)
      PROVE  Ledger'
  <2>1. /\ UNCHANGED <<config, place, redelivered, succeeded, failed, deliveries, status>>
        /\ worker'.channel = worker.channel
    BY <1>0, <1>8 DEF ConnectionCloseEnds, StopAt, queue, lanes, history, TypeParts, StopType, Workers
  <2> QED
    BY <1>1, <2>1
<1>9. ASSUME NEW m \in Messages, Push(m)
      PROVE  Ledger'
  BY <1>0, <1>9, LedgerPushed
<1>10. CASE ConsumerRegistered \/ ConsumerCancelled \/ UNCHANGED vars
  <2>1. UNCHANGED <<config, place, redelivered, succeeded, failed, deliveries, status, worker>>
    BY <1>10 DEF ConsumerRegistered, ConsumerCancelled, queue, lanes, history, vars
  <2> QED
    BY <1>1, <2>1
<1>11. CASE OnReceived
  <2>1. /\ UNCHANGED <<config, place, redelivered, succeeded, failed, deliveries, worker>>
        /\ received < Len(deliveries) /\ received' = received + 1
        /\ \/ \E l \in Lanes : Dispatcher!Call(received', l)
           \/ UNCHANGED <<status, laneOf, phase>>
    BY <1>11 DEF OnReceived, queue, lanes, history
  <2>2. \A d \in Deliveries : status'[d] # "finished" => status[d] # "finished"
    BY <1>0, <2>1 DEF Dispatcher!Call, Dispatcher!SetStatus, TypeParts, LaneType
  <2> QED
    BY <1>1, <2>1, <2>2
<1>12. ASSUME NEW d \in Deliveries, DispatcherSteps(d)
       PROVE  Ledger'
  <2>1. /\ UNCHANGED <<config, place, redelivered, succeeded, failed, deliveries, worker>>
        /\ \A e \in Deliveries : status'[e] # "finished" => status[e] # "finished"
    BY <1>0, <1>12 DEF DispatcherSteps, queue, history, Dispatcher!Accept, Dispatcher!Run, Dispatcher!Refuse,
                       Dispatcher!SetStatus, TypeParts, LaneType
  <2> QED
    BY <1>1, <2>1
<1>13. ASSUME NEW d \in Deliveries, NEW ok \in BOOLEAN, HandlerEnds(d, ok)
       PROVE  Ledger'
  BY <1>0, <1>13, LedgerHandled
<1>14. CASE Crash \/ HostReturns \/ RejectionEndsProcess
  <2>1. Exit
    BY <1>14 DEF Crash, HostReturns, RejectionEndsProcess
  <2> QED
    BY <1>0, <2>1, LedgerReturned DEF Exit
<1> QED
  BY <1>2, <1>3, <1>4, <1>5, <1>6, <1>7, <1>8, <1>9, <1>10, <1>11, <1>12, <1>13, <1>14 DEF Next

\* At first every message is ready and no handler has ended.
LEMMA LedgerInit == Init => OrderInv /\ Ledger
<1> SUFFICES ASSUME Init PROVE OrderInv /\ Ledger
  OBVIOUS
<1>1. OrderInv
  BY FreshOrderly DEF Init, OrderInv
<1>2. /\ \A m \in Messages : succeeded[m] = 0 /\ failed[m] = 0
      /\ Len(deliveries) = 0
  BY DEF Init
<1>3. QueueLedger
  BY <1>2 DEF QueueLedger, Totals, Clean, Marked
<1>4. DeliveryLedger
  <2>1. Unfinished = {}
    BY <1>2 DEF Unfinished
  <2> QED
    BY <2>1 DEF DeliveryLedger
<1> QED
  BY <1>1, <1>3, <1>4 DEF Ledger

\* A message whose handler keeps failing is handled at most twice in a run
\* without a crash or a drain timeout, and once where it is to be attempted at
\* most once, which AutoAck keeps to whatever happens.
THEOREM RabbitPoisonBounded == Spec => []PoisonBounded
<1>1. Init => TypeInv
  BY TypeInit DEF TypeInv, ReceivedOnly, Init, Idle
<1>2. Ledger => PoisonBounded
  BY DEF Ledger, QueueLedger, Totals, PoisonBounded, Calm
<1> QED
  BY <1>1, <1>2, LedgerInit, TypeStep, OrderStep, LedgerStep, PTL DEF Spec

\* Only an exit ends a running handler, and when the host returns there is none.
LEMMA KilledStep ==
  TypeInv /\ OrderInv /\ (disturbed = "nothing" => ~killed) /\ [Next]_vars
    => (disturbed = "nothing" => ~killed)'
<1> SUFFICES ASSUME TypeInv, OrderInv, disturbed = "nothing" => ~killed, [Next]_vars,
                    disturbed' = "nothing"
             PROVE  ~killed'
  OBVIOUS
<1>1. CASE HostReturns
  <2>1. /\ stopPc["host"] \in Ended /\ disturbed = "nothing" /\ ~killed
        /\ killed' = (killed \/ \E d \in Deliveries : status[d] = "running")
    BY <1>1 DEF HostReturns, Exit, Ended
  <2>2. Orderly
    BY <2>1 DEF OrderInv, Calm
  <2>3. NoneHeld
    BY <2>1, <2>2 DEF Orderly, Callers, Closing, Ended
  <2> QED
    BY <2>1, <2>3 DEF NoneHeld
<1>2. CASE Crash \/ RejectionEndsProcess
  BY <1>2 DEF Crash, RejectionEndsProcess
<1>3. CASE UNCHANGED <<killed, disturbed>>
  BY <1>3
<1>4. ASSUME NEW p \in Callers, DrainEnds(p) PROVE ~killed'
  BY <1>4 DEF DrainEnds
<1> QED
  BY <1>1, <1>2, <1>3, <1>4 DEF Next, StartBegin, ConnectionOpened, ChannelOpened, ConsumeAnswered, StartFails,
     StartRethrows, HostStops, CancelEnds, ChannelCloseEnds, ConnectionCloseEnds, Push,
     ConsumerRegistered, ConsumerCancelled, OnReceived, DispatcherSteps, HandlerEnds, history, vars

\* Deliveries are refused, and the dispatcher drained, by a stop only.
Stopping == \E p \in Callers : stopPc[p] \notin {"none", "cancelling"}

RefusedInv ==
  /\ startPc \notin {"failing", "failed"} => stopPc["catch"] = "none"
  /\ phase # "open" => Stopping
  /\ \A d \in Deliveries : status[d] = "refused" => phase # "open"

\* A stop that moves on leaves behind no await at which it was draining.
LEMMA RefusedStop ==
  ASSUME TypeParts, RefusedInv, NEW p \in Callers, UNCHANGED status, phase = "open" \/ phase' # "open",
         startPc' \notin {"failing", "failed"} => startPc \notin {"failing", "failed"} /\ p = "host",
         \/ stopPc[p] = "none" /\ UNCHANGED phase /\ stopPc' = [stopPc EXCEPT ![p] = "cancelling"]
         \/ \E x \in {"draining"} \cup Closing : stopPc' = [stopPc EXCEPT ![p] = x]
  PROVE  RefusedInv'
<1>1. stopPc \in [Callers -> StopStates] /\ {"host", "catch"} = Callers
  BY DEF TypeParts, StopType, Callers
<1>2. startPc' \notin {"failing", "failed"} => stopPc'["catch"] = "none"
  BY <1>1 DEF RefusedInv
<1>3. phase' # "open" => Stopping'
  <2>1. CASE stopPc[p] = "none" /\ UNCHANGED phase /\ stopPc' = [stopPc EXCEPT ![p] = "cancelling"]
    <3> SUFFICES ASSUME phase # "open" PROVE Stopping'
      BY <2>1
    <3>1. PICK q \in Callers : stopPc[q] \notin {"none", "cancelling"}
      BY DEF RefusedInv, Stopping
    <3>2. q # p /\ stopPc'[q] = stopPc[q]
      BY <1>1, <2>1, <3>1
    <3> QED
      BY <3>1, <3>2 DEF Stopping
  <2>2. ASSUME NEW x \in {"draining"} \cup Closing, stopPc' = [stopPc EXCEPT ![p] = x] PROVE Stopping'
    <3>1. stopPc'[p] = x
      BY <1>1, <2>2
    <3> QED
      BY <3>1 DEF Stopping, Closing, Ended
  <2> QED
    BY <2>1, <2>2
<1>4. \A d \in Deliveries : status'[d] = "refused" => phase' # "open"
  BY DEF RefusedInv
<1> QED
  BY <1>2, <1>3, <1>4 DEF RefusedInv

LEMMA RefusedStep == TypeInv /\ RefusedInv /\ [Next]_vars => RefusedInv'
<1> SUFFICES ASSUME TypeInv, RefusedInv, [Next]_vars PROVE RefusedInv'
  OBVIOUS
<1>0. TypeParts
  BY TypeOKParts DEF TypeInv
<1>1. CASE UNCHANGED <<startPc, stopPc, phase, status>>
  BY <1>1 DEF RefusedInv, Stopping
<1>2. CASE StartBegin \/ ConnectionOpened \/ ChannelOpened \/ ConsumeAnswered \/ StartRethrows
  <2>1. /\ UNCHANGED <<stopPc, phase, status>>
        /\ startPc' \notin {"failing", "failed"} => startPc \notin {"failing", "failed"}
    BY <1>2 DEF StartBegin, ConnectionOpened, ChannelOpened, ConsumeAnswered, StartRethrows, lanes
  <2> QED
    BY <2>1 DEF RefusedInv, Stopping
<1>3. ASSUME NEW p \in Callers, StopBegin(p), stopPc[p] = "none",
             startPc' \notin {"failing", "failed"} => startPc \notin {"failing", "failed"} /\ p = "host"
      PROVE  RefusedInv'
  <2>1. CASE StopAt(p, "cancelling", worker) /\ UNCHANGED lanes
    BY <1>0, <1>3, <2>1, RefusedStop DEF StopAt, lanes
  <2>2. CASE DrainDispatcher(p, worker)
    <3>1. worker \in Workers /\ StopType /\ LaneType
      BY <1>0 DEF TypeParts, StopType
    <3>2. /\ UNCHANGED status /\ phase' \in {phase, "draining"}
          /\ \E x \in {"draining"} \cup Closing : stopPc' = [stopPc EXCEPT ![p] = x]
      BY <2>2, <3>1, DrainDispatcherEffect, CloseChannelEffect
    <3> QED
      BY <1>0, <1>3, <3>2, RefusedStop
  <2> QED
    BY <1>3, <2>1, <2>2 DEF StopBegin
<1>4. CASE HostStops
  BY <1>3, <1>4 DEF HostStops, Callers
<1>5. CASE StartFails
  BY <1>3, <1>5 DEF StartFails, RefusedInv, Callers
<1>6. ASSUME NEW p \in Callers, CancelEnds(p) \/ DrainEnds(p) \/ ChannelCloseEnds(p) \/ ConnectionCloseEnds(p)
      PROVE  RefusedInv'
  <2>1. /\ stopPc[p] # "none" /\ UNCHANGED <<status, startPc>> /\ (phase = "open" \/ phase' # "open")
        /\ \E x \in {"draining"} \cup Closing : stopPc' = [stopPc EXCEPT ![p] = x]
    <3> DEFINE noTag == [worker EXCEPT !.consumerTag = FALSE]
               drained == [worker EXCEPT !.dispatcher = FALSE]
               closed == [worker EXCEPT !.channel = "undefined"]
    <3>1. noTag \in Workers /\ drained \in Workers /\ closed \in Workers /\ worker \in Workers
          /\ closed.channel = "undefined" /\ StopType /\ LaneType
      BY <1>0 DEF TypeParts, StopType, Workers
    <3>2. CASE CancelEnds(p)
      <4>1. DrainDispatcher(p, noTag) /\ UNCHANGED startPc /\ stopPc[p] = "cancelling"
        BY <3>2 DEF CancelEnds
      <4> HIDE DEF noTag
      <4> QED
        BY <3>1, <4>1, DrainDispatcherEffect, CloseChannelEffect
    <3>3. CASE DrainEnds(p)
      <4>1. /\ CloseChannel(p, drained) /\ UNCHANGED <<startPc, status>> /\ stopPc[p] = "draining"
            /\ phase' \in {phase, "settled"}
        BY <3>3 DEF DrainEnds, lanes, Dispatcher!Settle
      <4> HIDE DEF drained
      <4> QED
        BY <3>1, <4>1, CloseChannelEffect
    <3>4. CASE ChannelCloseEnds(p)
      <4>1. /\ UNCHANGED <<startPc, status, phase>> /\ stopPc[p] = "closingChannel"
            /\ CloseConnection(p, closed) \/ StopAt(p, "failed", worker)
        BY <3>4 DEF ChannelCloseEnds, lanes
      <4>2. CASE StopAt(p, "failed", worker)
        BY <4>1, <4>2 DEF StopAt, Closing, Ended
      <4>3. CASE CloseConnection(p, closed)
        <5>1. CloseChannel(p, closed)
          BY <3>1, <4>3 DEF CloseChannel
        <5> HIDE DEF closed
        <5> QED
          BY <3>1, <4>1, <5>1, CloseChannelEffect
      <4> QED
        BY <4>1, <4>2, <4>3
    <3>5. CASE ConnectionCloseEnds(p)
      BY <3>5 DEF ConnectionCloseEnds, StopAt, lanes, Closing, Ended
    <3> QED
      BY <1>6, <3>2, <3>3, <3>4, <3>5
  <2>2. p = "catch" => startPc \in {"failing", "failed"}
    BY <2>1 DEF RefusedInv
  <2>3. startPc' \notin {"failing", "failed"} => startPc \notin {"failing", "failed"} /\ p = "host"
    BY <2>1, <2>2 DEF Callers
  <2> QED
    BY <1>0, <2>1, <2>3, RefusedStop
<1>7. ASSUME NEW d \in Deliveries, UNCHANGED <<startPc, stopPc, phase>>,
             \E s \in Statuses : /\ status' = [status EXCEPT ![d] = s]
                                 /\ s = "refused" => phase # "open"
      PROVE  RefusedInv'
  BY <1>0, <1>7 DEF RefusedInv, Stopping, TypeParts, LaneType
<1>8. CASE OnReceived
  <2>1. CASE UNCHANGED lanes
    BY <1>1, <1>8, <2>1 DEF OnReceived, lanes
  <2>2. CASE /\ \E l \in Lanes : Dispatcher!Call(received', l)
             /\ phase = "open" => status'[received'] # "refused"
    <3>1. received' \in Deliveries
      BY <1>0, <1>8, RabbitMqAssumption DEF OnReceived, RabbitMqAssumption, TypeParts, ClientType, Deliveries
    <3>2. UNCHANGED phase /\ \E s \in Statuses : status' = [status EXCEPT ![received'] = s]
      BY <1>0, <2>2, <3>1, LaneStepType DEF TypeParts
    <3> QED
      BY <1>0, <1>7, <1>8, <2>2, <3>1, <3>2 DEF OnReceived, TypeParts, LaneType
  <2> QED
    BY <1>8, <2>1, <2>2 DEF OnReceived
<1>9. ASSUME NEW d \in Deliveries, DispatcherSteps(d) \/ \E ok \in BOOLEAN : HandlerEnds(d, ok)
      PROVE  RefusedInv'
  <2>1. /\ UNCHANGED <<startPc, stopPc>>
        /\ \/ Dispatcher!Accept(d) \/ Dispatcher!Run(d) \/ Dispatcher!Finish(d)
           \/ phase # "open" /\ Dispatcher!Refuse(d)
    BY <1>9 DEF DispatcherSteps, HandlerEnds
  <2>2. UNCHANGED phase
    BY <1>0, <2>1, LaneStepType DEF TypeParts
  <2>3. \E s \in Statuses : status' = [status EXCEPT ![d] = s] /\ (s = "refused" => phase # "open")
    BY <2>1 DEF Dispatcher!Accept, Dispatcher!Run, Dispatcher!Finish, Dispatcher!Refuse, Dispatcher!SetStatus, Statuses
  <2> QED
    BY <1>7, <2>1, <2>2, <2>3
<1>10. CASE Crash \/ HostReturns \/ RejectionEndsProcess
  <2>1. phase' = "open" /\ stopPc' = NotCalled /\ status' = Idle
    BY <1>10 DEF Crash, HostReturns, RejectionEndsProcess, Exit
  <2> QED
    BY <2>1 DEF RefusedInv, NotCalled, Idle, Callers
<1> QED
  BY <1>1, <1>2, <1>4, <1>5, <1>6, <1>8, <1>9, <1>10
     DEF Next, Push, ConsumerRegistered, ConsumerCancelled, lanes, vars

\* Until a crash or a drain timeout no message is handled successfully twice; only
\* they and the exit on an unhandled rejection cut a handler short; and nothing is
\* refused, and so rejected, before a stop drains: however starts, stops, failures
\* and restarts interleave, and whether or not the host survives rejections.
THEOREM RabbitHandledOnce == Spec => []HandledOnce
<1> DEFINE Spared == disturbed = "nothing" => ~killed
<1>1. Init => TypeInv
  BY TypeInit DEF TypeInv, ReceivedOnly, Init, Idle
<1>2. Init => Spared /\ RefusedInv
  BY DEF Init, RefusedInv, NotCalled, Idle, Callers
<1>3. Ledger /\ Spared /\ RefusedInv => HandledOnce
  BY DEF Ledger, QueueLedger, Totals, HandledOnce, RefusedInv, Stopping
<1>4. TypeInv /\ OrderInv /\ Spared /\ [Next]_vars => Spared'
  BY KilledStep
<1> QED
  BY <1>1, <1>2, <1>3, <1>4, LedgerInit, TypeStep, OrderStep, LedgerStep, RefusedStep, PTL DEF Spec

-----------------------------------------------------------------------------
(* What a stop has torn down.                                              *)

Host == stopPc["host"]
Catch == stopPc["catch"]
NoneFailed == "failed" \notin {Host, Catch}

\* What is closing is being closed by one of the calls; a channel is closed before
\* its connection; the dispatcher is gone once a call is past its drain.
FieldInv ==
  /\ worker.channel = "closing" <=> (Host = "closingChannel" \/ Catch = "closingChannel")
  /\ worker.connection = "closing" <=> (Host = "closingConnection" \/ Catch = "closingConnection")
  /\ Host = Catch => Host \notin {"closingChannel", "closingConnection"}
  /\ worker.channel # "undefined" => worker.connection = "open"
  /\ consuming => worker.channel # "undefined"
  /\ Host \in Closing \/ Catch \in Closing => ~worker.dispatcher

\* What startAsync has set at each of its awaits, and what it has not.
StartInv ==
  /\ startPc = "idle" => worker = Unset /\ Host = "none"
  /\ startPc = "connecting" => worker.connection = "undefined"
  /\ Early => worker.channel = "undefined"
  /\ worker.consumerTag => startPc = "started"
  /\ Catch = "none" <=> startPc \notin {"failing", "failed"}
  /\ startPc = "failed" => Catch \in Ended
  /\ startPc \notin {"started", "failing", "failed"} /\ Host # "none" => overtook

\* What a call that has ended leaves: the catch's, nothing, or it is outrun by the
\* host's; the host's, nothing, unless it overtook the start.
EndInv ==
  /\ startPc \in {"consuming", "started"} =>
       /\ Host = "none" => worker.channel = "open"
       /\ Host = "done" => worker.channel = worker.connection
  /\ startPc = "started" /\ Host = "none" => worker.consumerTag
  /\ startPc = "started" /\ ~overtook =>
       /\ Host \notin {"none", "cancelling"} => ~worker.consumerTag
       /\ Host = "done" => worker.connection = "undefined"
  /\ Host = "outrun" => Catch # "none"
  /\ Catch = "done" => worker.connection = "undefined"
  /\ Catch = "outrun" => \/ Host \in {"closingChannel", "closingConnection"}
                         \/ Host = "done" /\ worker.connection = "undefined"

Teardown == FieldInv /\ StartInv /\ EndInv

\* Nothing is said of a process in which the broker rejected a close().
TeardownInv == NoneFailed => Teardown

TeardownType ==
  /\ StopType /\ consuming \in BOOLEAN /\ overtook \in BOOLEAN
  /\ startPc \in {"idle", "connecting", "opening", "consuming", "started", "failing", "failed"}

LEMMA TeardownTypes == TypeInv => TeardownType
BY DEF TypeInv, TypeOK, TeardownType, StopType, Workers, StopStates, Closing, Ended

\* What p's stop does besides: it is called by the host, or by a start that fails.
Moves(p) ==
  \/ stopPc[p] # "none" /\ UNCHANGED <<startPc, overtook>>
  \/ /\ p = "host" /\ stopPc[p] = "none" /\ startPc # "idle"
     /\ UNCHANGED startPc /\ overtook' = (startPc # "started")
  \/ /\ p = "catch" /\ stopPc[p] = "none" /\ startPc \in {"connecting", "opening", "consuming"}
     /\ startPc' = "failing" /\ UNCHANGED overtook

\* A stop that goes on to x with the fields f moves one of the two calls.
LEMMA OneMoves ==
  ASSUME TeardownType, NEW p \in Callers, NEW x, stopPc' = [stopPc EXCEPT ![p] = x]
  PROVE  \/ p = "host" /\ Host = stopPc[p] /\ Host' = x /\ Catch' = Catch
         \/ p = "catch" /\ Catch = stopPc[p] /\ Catch' = x /\ Host' = Host
BY DEF TeardownType, StopType, Host, Catch, Callers

\* A stop that awaits the broker's answer to cancel, or the drain.
LEMMA WaitHolds ==
  ASSUME TeardownType, Teardown, NEW p \in Callers, Moves(p), NEW x \in {"cancelling", "draining"},
         stopPc' = [stopPc EXCEPT ![p] = x], stopPc[p] \in {"none", "cancelling"},
         worker' \in Workers, UNCHANGED <<worker.connection, worker.channel, worker.dispatcher>>,
         worker'.consumerTag => worker.consumerTag,
         x = "draining" /\ startPc' = "started" /\ ~overtook' => ~worker'.consumerTag,
         consuming' => consuming
  PROVE  Teardown'
<1>1. \/ p = "host" /\ Host = stopPc[p] /\ Host' = x /\ Catch' = Catch
      \/ p = "catch" /\ Catch = stopPc[p] /\ Catch' = x /\ Host' = Host
  BY OneMoves
<1> USE DEF TeardownType, Moves, Closing, Ended, Early
<1>2. FieldInv'
  BY <1>1 DEF Teardown, FieldInv
<1>3. StartInv'
  BY <1>1 DEF Teardown, StartInv
<1>4. EndInv'
  BY <1>1 DEF Teardown, FieldInv, StartInv, EndInv
<1> QED
  BY <1>2, <1>3, <1>4 DEF Teardown

\* A stop past its drain, which closes what it finds, or finds it closing.
LEMMA CloseHolds ==
  ASSUME TeardownType, Teardown, NEW p \in Callers, Moves(p), NEW f \in Workers, CloseChannel(p, f),
         ~f.dispatcher, f.connection = worker.connection, f.consumerTag => worker.consumerTag,
         startPc' = "started" /\ ~overtook' => ~f.consumerTag,
         \/ f.channel = worker.channel /\ stopPc[p] \in {"none", "cancelling", "draining"}
         \/ f.channel = "undefined" /\ stopPc[p] = "closingChannel",
         consuming' => consuming /\ f.channel # "undefined"
  PROVE  Teardown'
<1> USE DEF TeardownType, Moves, Closing, Ended, Early
<1>1. ASSUME NEW x, stopPc' = [stopPc EXCEPT ![p] = x]
      PROVE  \/ p = "host" /\ Host = stopPc[p] /\ Host' = x /\ Catch' = Catch
             \/ p = "catch" /\ Catch = stopPc[p] /\ Catch' = x /\ Host' = Host
  BY <1>1, OneMoves
<1>2. CASE f.channel = "open" /\ StopAt(p, "closingChannel", [f EXCEPT !.channel = "closing"])
  <2>1. /\ worker.channel = "open" /\ worker'.channel = "closing" /\ worker'.connection = f.connection
        /\ ~worker'.dispatcher /\ worker'.consumerTag = f.consumerTag
        /\ stopPc' = [stopPc EXCEPT ![p] = "closingChannel"]
    BY <1>2 DEF StopAt, Workers
  <2>2. \/ p = "host" /\ Host = stopPc[p] /\ Host' = "closingChannel" /\ Catch' = Catch
        \/ p = "catch" /\ Catch = stopPc[p] /\ Catch' = "closingChannel" /\ Host' = Host
    BY <1>1, <2>1
  <2>3. FieldInv'
    BY <2>1, <2>2 DEF Teardown, FieldInv, StartInv
  <2>4. StartInv'
    BY <2>1, <2>2 DEF Teardown, FieldInv, StartInv
  <2>5. EndInv'
    BY <2>1, <2>2 DEF Teardown, FieldInv, StartInv, EndInv
  <2> QED
    BY <2>3, <2>4, <2>5 DEF Teardown
<1>3. CASE f.channel = "closing" /\ StopAt(p, "outrun", f)
  <2>1. worker' = f /\ worker.channel = "closing" /\ stopPc' = [stopPc EXCEPT ![p] = "outrun"]
    BY <1>3 DEF StopAt
  <2>2. \/ p = "host" /\ Host = stopPc[p] /\ Host' = "outrun" /\ Catch' = Catch
        \/ p = "catch" /\ Catch = stopPc[p] /\ Catch' = "outrun" /\ Host' = Host
    BY <1>1, <2>1
  <2>3. FieldInv'
    BY <2>1, <2>2 DEF Teardown, FieldInv
  <2>4. StartInv'
    BY <2>1, <2>2 DEF Teardown, FieldInv, StartInv
  <2>5. EndInv'
    <3>1. CASE p = "host"
      <4>1. Catch = "closingChannel" /\ Host' = "outrun" /\ Catch' = Catch
        BY <1>3, <2>1, <2>2, <3>1 DEF Teardown, FieldInv
      <4> QED
        BY <2>1, <3>1, <4>1 DEF Teardown, StartInv, EndInv
    <3>2. CASE p = "catch"
      <4>1. Host = "closingChannel" /\ Host' = Host /\ Catch' = "outrun"
        BY <1>3, <2>1, <2>2, <3>2 DEF Teardown, FieldInv
      <4>2. startPc' \notin {"consuming", "started"}
        BY <2>2, <3>2 DEF Teardown, StartInv
      <4> QED
        BY <2>1, <3>2, <4>1, <4>2 DEF Teardown, StartInv, EndInv
    <3> QED
      BY <3>1, <3>2 DEF Callers
  <2> QED
    BY <2>3, <2>4, <2>5 DEF Teardown
<1>4. CASE f.channel = "undefined" /\ CloseConnection(p, f)
  <2>0. worker.channel = "closing" <=> stopPc[p] = "closingChannel"
    BY <1>4 DEF Teardown, FieldInv, Host, Catch, Callers
  <2>1. CASE f.connection = "open" /\ StopAt(p, "closingConnection", [f EXCEPT !.connection = "closing"])
    <3>1. /\ worker'.connection = "closing" /\ worker'.channel = "undefined" /\ worker.connection = "open"
          /\ ~worker'.dispatcher /\ worker'.consumerTag = f.consumerTag
          /\ stopPc' = [stopPc EXCEPT ![p] = "closingConnection"]
      BY <1>4, <2>1 DEF StopAt, Workers
    <3>2. \/ p = "host" /\ Host = stopPc[p] /\ Host' = "closingConnection" /\ Catch' = Catch
          \/ p = "catch" /\ Catch = stopPc[p] /\ Catch' = "closingConnection" /\ Host' = Host
      BY <1>1, <3>1
    <3>3. FieldInv'
      BY <1>4, <2>0, <3>1, <3>2 DEF Teardown, FieldInv
    <3>4. StartInv'
      BY <1>4, <3>1, <3>2 DEF Teardown, FieldInv, StartInv
    <3>5. EndInv'
      BY <1>4, <2>0, <3>1, <3>2 DEF Teardown, FieldInv, StartInv, EndInv
    <3> QED
      BY <3>3, <3>4, <3>5 DEF Teardown
  <2>2. CASE f.connection = "closing" /\ StopAt(p, "outrun", f)
    <3>1. worker' = f /\ worker.connection = "closing" /\ stopPc' = [stopPc EXCEPT ![p] = "outrun"]
      BY <2>2 DEF StopAt
    <3>2. \/ p = "host" /\ Host = stopPc[p] /\ Host' = "outrun" /\ Catch' = Catch
          \/ p = "catch" /\ Catch = stopPc[p] /\ Catch' = "outrun" /\ Host' = Host
      BY <1>1, <3>1
    <3>3. FieldInv'
      BY <1>4, <2>0, <3>1, <3>2 DEF Teardown, FieldInv
    <3>4. StartInv'
      BY <1>4, <3>1, <3>2 DEF Teardown, FieldInv, StartInv
    <3>5. EndInv'
      BY <1>4, <2>0, <3>1, <3>2 DEF Teardown, FieldInv, StartInv, EndInv
    <3> QED
      BY <3>3, <3>4, <3>5 DEF Teardown
  <2>3. CASE f.connection = "undefined" /\ StopAt(p, "done", f)
    <3>1. worker' = f /\ worker.connection = "undefined" /\ stopPc' = [stopPc EXCEPT ![p] = "done"]
      BY <2>3 DEF StopAt
    <3>2. \/ p = "host" /\ Host = stopPc[p] /\ Host' = "done" /\ Catch' = Catch
          \/ p = "catch" /\ Catch = stopPc[p] /\ Catch' = "done" /\ Host' = Host
      BY <1>1, <3>1
    <3>3. FieldInv'
      BY <1>4, <2>0, <3>1, <3>2 DEF Teardown, FieldInv
    <3>4. StartInv'
      BY <1>4, <3>1, <3>2 DEF Teardown, FieldInv, StartInv
    <3>5. EndInv'
      BY <1>4, <2>0, <3>1, <3>2 DEF Teardown, FieldInv, StartInv, EndInv
    <3> QED
      BY <3>3, <3>4, <3>5 DEF Teardown
  <2> QED
    BY <1>4, <2>1, <2>2, <2>3 DEF CloseConnection
<1> QED
  BY <1>2, <1>3, <1>4 DEF CloseChannel

\* A stop that drains, or finds nothing to drain.
LEMMA DrainHolds ==
  ASSUME TeardownType, Teardown, NEW p \in Callers, Moves(p), NEW f \in Workers, DrainDispatcher(p, f),
         f.connection = worker.connection, f.channel = worker.channel, f.dispatcher = worker.dispatcher,
         f.consumerTag => worker.consumerTag,
         startPc' = "started" /\ ~overtook' => ~f.consumerTag,
         stopPc[p] \in {"none", "cancelling"}, consuming' => consuming
  PROVE  Teardown'
<1>1. CASE f.dispatcher /\ StopAt(p, "draining", f)
  BY <1>1, WaitHolds DEF StopAt
<1>2. CASE ~f.dispatcher /\ CloseChannel(p, f)
  <2>1. consuming' => consuming /\ f.channel # "undefined"
    BY DEF Teardown, FieldInv
  <2> QED
    BY <1>2, <2>1, CloseHolds
<1> QED
  BY <1>1, <1>2 DEF DrainDispatcher

\* The first step of a stop.
LEMMA BeginHolds ==
  ASSUME TeardownType, Teardown, NEW p \in Callers, Moves(p), stopPc[p] = "none", StopBegin(p),
         UNCHANGED consuming
  PROVE  Teardown'
<1>0. worker \in Workers
  BY DEF TeardownType, StopType
<1>1. CASE StopAt(p, "cancelling", worker)
  BY <1>0, <1>1, WaitHolds DEF StopAt
<1>2. CASE (worker.channel = "undefined" \/ ~worker.consumerTag) /\ DrainDispatcher(p, worker)
  <2>1. startPc' = "started" /\ ~overtook' => ~worker.consumerTag
    BY <1>2 DEF Moves, Teardown, FieldInv, StartInv, EndInv, Host
  <2> QED
    BY <1>0, <1>2, <2>1, DrainHolds
<1> QED
  BY <1>1, <1>2 DEF StopBegin

\* A later step of a stop.
LEMMA StopHolds ==
  ASSUME TeardownType, Teardown, NoneFailed', NEW p \in Callers,
         CancelEnds(p) \/ DrainEnds(p) \/ ChannelCloseEnds(p) \/ ConnectionCloseEnds(p)
  PROVE  Teardown'
<1>0. worker \in Workers
  BY DEF TeardownType, StopType
<1>1. CASE CancelEnds(p)
  <2> DEFINE f == [worker EXCEPT !.consumerTag = FALSE]
  <2>1. /\ stopPc[p] = "cancelling" /\ ~consuming' /\ UNCHANGED <<startPc, overtook>>
        /\ DrainDispatcher(p, f)
    BY <1>1 DEF CancelEnds, history
  <2>2. /\ f \in Workers /\ ~f.consumerTag /\ f.connection = worker.connection
        /\ f.channel = worker.channel /\ f.dispatcher = worker.dispatcher
    BY <1>0 DEF Workers
  <2> HIDE DEF f
  <2> QED
    BY <2>1, <2>2, DrainHolds DEF Moves
<1>2. CASE DrainEnds(p)
  <2> DEFINE f == [worker EXCEPT !.dispatcher = FALSE]
  <2>1. stopPc[p] = "draining" /\ UNCHANGED <<startPc, consuming, overtook>> /\ CloseChannel(p, f)
    BY <1>2 DEF DrainEnds
  <2>2. /\ f \in Workers /\ ~f.dispatcher /\ f.connection = worker.connection
        /\ f.channel = worker.channel /\ f.consumerTag = worker.consumerTag
    BY <1>0 DEF Workers
  <2>3. startPc = "started" /\ ~overtook => ~worker.consumerTag
    BY <2>1 DEF Teardown, StartInv, EndInv, Host, Callers, Catch
  <2>4. consuming => worker.channel # "undefined"
    BY DEF Teardown, FieldInv
  <2> HIDE DEF f
  <2> QED
    BY <2>1, <2>2, <2>3, <2>4, CloseHolds DEF Moves
<1>3. CASE ChannelCloseEnds(p)
  <2> DEFINE f == [worker EXCEPT !.channel = "undefined"]
  <2>1. stopPc[p] = "closingChannel" /\ ~consuming' /\ UNCHANGED <<startPc, overtook>>
        /\ (CloseConnection(p, f) \/ StopAt(p, "failed", worker))
    BY <1>3 DEF ChannelCloseEnds, history
  <2>2. ~StopAt(p, "failed", worker)
    BY DEF StopAt, TeardownType, StopType, NoneFailed, Host, Catch, Callers
  <2>3. /\ f \in Workers /\ f.dispatcher = worker.dispatcher /\ f.connection = worker.connection
        /\ f.channel = "undefined" /\ f.consumerTag = worker.consumerTag
    BY <1>0 DEF Workers
  <2>4. /\ startPc = "started" /\ ~overtook => ~worker.consumerTag
        /\ ~worker.dispatcher
    BY <2>1 DEF Teardown, FieldInv, StartInv, EndInv, Host, Catch, Callers, Closing
  <2> HIDE DEF f
  <2>5. CloseChannel(p, f)
    BY <2>1, <2>2, <2>3 DEF CloseChannel
  <2> QED
    BY <2>1, <2>3, <2>4, <2>5, CloseHolds DEF Moves
<1>4. CASE ConnectionCloseEnds(p)
  <2>1. /\ stopPc[p] = "closingConnection" /\ UNCHANGED <<startPc, overtook, consuming>>
        /\ \/ StopAt(p, "done", [worker EXCEPT !.connection = "undefined"])
           \/ StopAt(p, "failed", worker)
    BY <1>4 DEF ConnectionCloseEnds, history
  <2>2. ~StopAt(p, "failed", worker)
    BY DEF StopAt, TeardownType, StopType, NoneFailed, Host, Catch, Callers
  <2>3. /\ stopPc' = [stopPc EXCEPT ![p] = "done"] /\ worker'.connection = "undefined"
        /\ UNCHANGED <<worker.channel, worker.dispatcher, worker.consumerTag>>
    BY <1>0, <2>1, <2>2 DEF StopAt, Workers
  <2>4. \/ p = "host" /\ Host = stopPc[p] /\ Host' = "done" /\ Catch' = Catch
        \/ p = "catch" /\ Catch = stopPc[p] /\ Catch' = "done" /\ Host' = Host
    BY <2>3, OneMoves
  <2> USE DEF TeardownType, Closing, Ended, Early
  <2>5. worker.connection = "closing" /\ worker.channel = "undefined"
    BY <2>1, <2>4 DEF Teardown, FieldInv
  <2>6. FieldInv'
    BY <2>1, <2>3, <2>4, <2>5 DEF Teardown, FieldInv
  <2>7. StartInv'
    BY <2>1, <2>3, <2>4 DEF Teardown, StartInv
  <2>8. EndInv'
    BY <2>1, <2>3, <2>4, <2>5 DEF Teardown, FieldInv, StartInv, EndInv
  <2> QED
    BY <2>6, <2>7, <2>8 DEF Teardown
<1> QED
  BY <1>1, <1>2, <1>3, <1>4

\* A step of startAsync, whatever stop is under way beside it.
LEMMA StartHolds ==
  ASSUME TeardownType, Teardown,
         StartBegin \/ ConnectionOpened \/ ChannelOpened \/ ConsumeAnswered \/ StartRethrows
  PROVE  Teardown'
<1>1. UNCHANGED <<stopPc, consuming, overtook>> /\ Host' = Host /\ Catch' = Catch
  BY DEF StartBegin, ConnectionOpened, ChannelOpened, ConsumeAnswered, StartRethrows, history, Host, Catch
<1> USE <1>1 DEF TeardownType, StopType, Workers, Teardown, Early, Ended, Closing
<1>2. CASE StartBegin
  BY <1>2 DEF StartBegin, Unset, FieldInv, StartInv, EndInv
<1>3. CASE ConnectionOpened
  BY <1>3 DEF ConnectionOpened, FieldInv, StartInv, EndInv
<1>4. CASE ChannelOpened
  BY <1>4 DEF ChannelOpened, FieldInv, StartInv, EndInv
<1>5. CASE ConsumeAnswered
  BY <1>5 DEF ConsumeAnswered, FieldInv, StartInv, EndInv
<1>6. CASE StartRethrows
  <2>1. Catch \in Ended
    BY <1>6 DEF StartRethrows, Catch
  <2> QED
    BY <1>6, <2>1 DEF StartRethrows, FieldInv, StartInv, EndInv
<1> QED
  BY <1>2, <1>3, <1>4, <1>5, <1>6

\* A step that touches none of it, but for the consumer, which is registered on an
\* open channel only.
LEMMA TeardownKept ==
  ASSUME Teardown, UNCHANGED <<worker, startPc, stopPc, overtook>>,
         consuming' => consuming \/ worker.channel = "open"
  PROVE  Teardown'
BY DEF Teardown, FieldInv, StartInv, EndInv, Host, Catch, Early

LEMMA TeardownFresh ==
  ASSUME worker = Unset, ~consuming, startPc = "idle", stopPc = NotCalled
  PROVE  Teardown
BY DEF Teardown, FieldInv, StartInv, EndInv, Host, Catch, Unset, NotCalled, Callers, Closing, Ended

LEMMA TeardownExit == ASSUME Exit PROVE Teardown'
<1>1. worker' = Unset /\ ~consuming' /\ startPc' = "idle" /\ stopPc' = NotCalled
  BY DEF Exit
<1> QED
  BY <1>1 DEF Teardown, FieldInv, StartInv, EndInv, Host, Catch, Unset, NotCalled, Callers, Closing, Ended

\* A call that has failed stays so until the process ends.
LEMMA FailedBefore ==
  ASSUME TypeInv, RefusedInv, [Next]_vars, NoneFailed', ~(Crash \/ HostReturns \/ RejectionEndsProcess)
  PROVE  NoneFailed
<1>0. TypeParts /\ stopPc \in [Callers -> StopStates] /\ Callers = {"host", "catch"}
  BY TypeOKParts DEF TypeInv, TypeParts, StopType, Callers
<1>1. ASSUME NEW p \in Callers, stopPc[p] # "failed", NEW x, stopPc' = [stopPc EXCEPT ![p] = x]
      PROVE  NoneFailed
  BY <1>0, <1>1 DEF NoneFailed, Host, Catch
<1>2. CASE UNCHANGED stopPc
  BY <1>2 DEF NoneFailed, Host, Catch
<1>3. ASSUME NEW p \in Callers, stopPc[p] # "failed", NEW f, CloseChannel(p, f) PROVE NoneFailed
  <2>1. \E x : stopPc' = [stopPc EXCEPT ![p] = x]
    BY <1>3 DEF CloseChannel, CloseConnection, StopAt
  <2> QED
    BY <1>1, <1>3, <2>1
<1>4. ASSUME NEW p \in Callers, stopPc[p] # "failed", NEW f, DrainDispatcher(p, f) PROVE NoneFailed
  BY <1>1, <1>3, <1>4 DEF DrainDispatcher, StopAt
<1>5. ASSUME NEW p \in Callers, stopPc[p] # "failed", StopBegin(p) PROVE NoneFailed
  BY <1>1, <1>4, <1>5 DEF StopBegin, StopAt
<1>6. CASE HostStops
  BY <1>5, <1>6 DEF HostStops, Callers
<1>7. CASE StartFails
  BY <1>5, <1>7 DEF StartFails, RefusedInv, Callers
<1>8. ASSUME NEW p \in Callers, CancelEnds(p) \/ DrainEnds(p) \/ ChannelCloseEnds(p) \/ ConnectionCloseEnds(p)
      PROVE  NoneFailed
  <2>1. stopPc[p] \in {"cancelling", "draining", "closingChannel", "closingConnection"}
    BY <1>8 DEF CancelEnds, DrainEnds, ChannelCloseEnds, ConnectionCloseEnds
  <2>2. CASE CancelEnds(p)
    BY <1>4, <2>1, <2>2 DEF CancelEnds
  <2>3. CASE DrainEnds(p)
    BY <1>3, <2>1, <2>3 DEF DrainEnds
  <2>4. CASE ChannelCloseEnds(p) \/ ConnectionCloseEnds(p)
    BY <1>1, <2>1, <2>4 DEF ChannelCloseEnds, ConnectionCloseEnds, CloseConnection, StopAt
  <2> QED
    BY <1>8, <2>2, <2>3, <2>4
<1> QED
  BY <1>2, <1>6, <1>7, <1>8 DEF Next, StartBegin, ConnectionOpened, ChannelOpened, ConsumeAnswered,
     StartRethrows, Push, ConsumerRegistered, ConsumerCancelled, OnReceived, DispatcherSteps, HandlerEnds, vars

LEMMA TeardownStep == TypeInv /\ RefusedInv /\ TeardownInv /\ [Next]_vars => TeardownInv'
<1> SUFFICES ASSUME TypeInv, RefusedInv, TeardownInv, [Next]_vars, NoneFailed' PROVE Teardown'
  BY DEF TeardownInv
<1>1. CASE Crash \/ HostReturns \/ RejectionEndsProcess
  BY <1>1, TeardownExit DEF Crash, HostReturns, RejectionEndsProcess
<1>2. CASE ~(Crash \/ HostReturns \/ RejectionEndsProcess)
  <2>1. TeardownType /\ Teardown
    BY <1>2, TeardownTypes, FailedBefore DEF TeardownInv
  <2>2. CASE UNCHANGED vars \/ (\E m \in Messages : Push(m)) \/ ConsumerCancelled \/ ConsumerRegistered \/ OnReceived
    <3>1. UNCHANGED <<worker, startPc, stopPc, overtook>>
      BY <2>2 DEF vars, history, Push, ConsumerCancelled, ConsumerRegistered, OnReceived
    <3>2. UNCHANGED consuming \/ consuming' = FALSE \/ worker.channel = "open"
      BY <2>2 DEF vars, Push, ConsumerCancelled, ConsumerRegistered, OnReceived
    <3> QED
      BY <2>1, <3>1, <3>2, TeardownKept
  <2>3. ASSUME NEW d \in Deliveries, DispatcherSteps(d) \/ \E ok \in BOOLEAN : HandlerEnds(d, ok)
        PROVE  Teardown'
    <3>1. UNCHANGED <<worker, startPc, stopPc, overtook, consuming>>
      BY <2>3 DEF DispatcherSteps, HandlerEnds, history
    <3> QED
      BY <2>1, <3>1, TeardownKept
  <2>4. CASE StartBegin \/ ConnectionOpened \/ ChannelOpened \/ ConsumeAnswered \/ StartRethrows
    BY <2>1, <2>4, StartHolds
  <2>5. CASE StartFails
    <3>1. /\ "catch" \in Callers /\ Moves("catch") /\ stopPc["catch"] = "none"
          /\ StopBegin("catch") /\ UNCHANGED consuming
      BY <2>1, <2>5 DEF StartFails, Moves, Teardown, StartInv, Catch, Callers, history
    <3> QED
      BY <2>1, <3>1, BeginHolds
  <2>6. CASE HostStops
    <3>1. /\ "host" \in Callers /\ Moves("host") /\ stopPc["host"] = "none"
          /\ StopBegin("host") /\ UNCHANGED consuming
      BY <2>6 DEF HostStops, Moves, Callers
    <3> QED
      BY <2>1, <3>1, BeginHolds
  <2>7. ASSUME NEW p \in Callers, CancelEnds(p) \/ DrainEnds(p) \/ ChannelCloseEnds(p) \/ ConnectionCloseEnds(p)
        PROVE  Teardown'
    BY <2>1, <2>7, StopHolds
  <2> QED
    BY <1>2, <2>2, <2>3, <2>4, <2>5, <2>6, <2>7 DEF Next
<1> QED
  BY <1>1, <1>2

\* Whoever stops the worker and whenever: once the stops have returned with no
\* close() rejected, a worker that failed to start or was stopped holds nothing,
\* but for one whose start resolved after the stop had begun, which is closed or
\* left open as a whole.
THEOREM RabbitStoppedClosed == Spec => []StoppedClosed
<1>1. Init => TypeInv
  BY TypeInit DEF TypeInv, ReceivedOnly, Init, Idle
<1>2. Init => TeardownInv /\ RefusedInv
  BY TeardownFresh DEF Init, TeardownInv, RefusedInv, NotCalled, Idle, Callers
<1>3. TypeInv /\ TeardownInv => StoppedClosed
  <2> SUFFICES ASSUME TypeInv, TeardownInv,
                      startPc = "failed" \/ (startPc = "started" /\ Host # "none"),
                      Host \in {"none", "done", "outrun"}, Catch \in {"none", "done", "outrun"}
               PROVE  \/ worker = Unset /\ ~consuming
                      \/ /\ overtook /\ startPc = "started"
                         /\ ~worker.dispatcher /\ worker.channel = worker.connection
                         /\ worker.channel = "undefined" => ~consuming
    BY DEF StoppedClosed, Host, Catch, Callers
  <2>1. Teardown /\ TeardownType
    BY TeardownTypes DEF TeardownInv, NoneFailed
  <2>2. CASE startPc = "failed"
    <3>1. Catch \in {"done", "outrun"} /\ worker.connection = "undefined"
      BY <2>1, <2>2 DEF Teardown, StartInv, EndInv, Ended
    <3>2. ~worker.dispatcher /\ ~worker.consumerTag /\ worker.channel = "undefined" /\ ~consuming
      BY <2>1, <2>2, <3>1 DEF Teardown, FieldInv, StartInv, Closing, Ended
    <3> QED
      BY <2>1, <3>1, <3>2 DEF TeardownType, StopType, Workers, Unset
  <2>3. CASE startPc = "started"
    <3>1. Host = "done" /\ ~worker.dispatcher
      BY <2>1, <2>3 DEF Teardown, FieldInv, StartInv, EndInv, Closing, Ended
    <3>2. CASE overtook
      BY <2>1, <2>3, <3>1, <3>2 DEF Teardown, FieldInv, EndInv
    <3>3. CASE ~overtook
      <4>1. ~worker.consumerTag /\ worker.connection = "undefined"
        BY <2>1, <2>3, <3>1, <3>3 DEF Teardown, EndInv
      <4>2. worker.channel = "undefined" /\ ~consuming
        BY <2>1, <4>1 DEF Teardown, FieldInv
      <4> QED
        BY <2>1, <3>1, <4>1, <4>2 DEF TeardownType, StopType, Workers, Unset
    <3> QED
      BY <3>2, <3>3
  <2> QED
    BY <2>2, <2>3
<1>4. TypeInv /\ RefusedInv /\ TeardownInv /\ [Next]_vars => TeardownInv'
  BY TeardownStep
<1> QED
  BY <1>1, <1>2, <1>3, <1>4, TypeStep, RefusedStep, PTL DEF Spec
=============================================================================
