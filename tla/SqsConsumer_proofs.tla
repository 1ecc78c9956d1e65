------------------------- MODULE SqsConsumer_proofs -------------------------
(***************************************************************************)
(* For any messages, batches, costs, configurations and limiters:          *)
(*   DeletedHandled, whose first part needs what the end of a task says of *)
(*     its handlings, the second where the tasks of a handled message are; *)
(*   FanOutBounded, from how the tasks of a batch and its permits change;  *)
(*   RateBounded, from an invariant of each limiter, and a sum over tasks. *)
(***************************************************************************)
EXTENDS SqsConsumer, FiniteSetTheorems, WellFoundedInduction, TLAPS

Waits == {"waiting", "permitted", "running", "delayed"}

QueueType ==
  /\ config \in Configs
  /\ place \in [Messages -> {"visible", "hidden", "deleted"}]
  /\ batch \in 0 .. MaxBatches /\ faults \in Nat
  /\ task \in [Tasks -> Ends \cup Waits \cup {"none"}]
  /\ succeeded \in [Messages -> Nat] /\ clean \subseteq Messages

\* m was handled as its deletion demands.
Vouched(m) ==
  m \in clean /\ (~config.wholeBatch /\ ~config.ignoreUnmatched => succeeded[m] > 0)

\* What a deletion may take was handled.
DeleteInv ==
  ~config.atMostOnce =>
    /\ \A m \in Messages : place[m] = "deleted" => Vouched(m)
    /\ \A t \in Tasks : task[t] = "ok" \/ (config.wholeBatch /\ task[t] = "failed") => Vouched(t[1])
    /\ pc = "deleting" => Handled

\* No call has failed, no deletion was aborted, and no throw ends a batch.
Quiet == faults = 0 /\ ~aborted /\ (config.wholeBatch => config.atMostOnce)

OnceInv ==
  Quiet =>
    /\ \A t \in Tasks : task[t] # "threw"
    /\ \A m \in Messages : /\ succeeded[m] <= 1
                           /\ place[m] = "visible" => succeeded[m] = 0
    /\ \A t \in Tasks : task[t] \in Waits =>
         t[2] = batch /\ pc = "handling" /\ place[t[1]] = "hidden" /\ succeeded[t[1]] = 0
    /\ \A m \in Messages : place[m] = "hidden" /\ succeeded[m] # 0 =>
         pc \in {"handling", "deleting"} /\ \E t \in TasksOf(batch) : t[1] = m /\ task[t] = "ok"

Inv == QueueType /\ DeleteInv /\ OnceInv

-----------------------------------------------------------------------------
(* Lemmas about the operators.                                             *)

\* A task is a message and a batch.
LEMMA TaskParts ==
  /\ \A t \in Tasks : t[1] \in Messages /\ t[2] \in Batches /\ t = <<t[1], t[2]>>
  /\ \A t, u \in Tasks : t[1] = u[1] /\ t[2] = u[2] => t = u
BY DEF Tasks

\* The end of a task changes no other but a waiter, which gets its permit.
LEMMA ReleasedTasks ==
  ASSUME QueueType, NEW t \in Tasks, NEW end, end \in Ends, Released(t, end)
  PROVE  /\ task'[t] = end
         /\ \A x \in Tasks \ {t} : \/ task'[x] = task[x]
                                   \/ task[x] = "waiting" /\ task'[x] = "permitted"
         /\ task' \in [Tasks -> Ends \cup Waits \cup {"none"}]
<1> DEFINE served == {w \in Waiting(t[2]) : \A x \in Waiting(t[2]) : w[1] <= x[1]}
<1>1. task' = [x \in Tasks |-> IF x = t THEN end
                               ELSE IF x \in served THEN "permitted" ELSE task[x]]
  BY DEF Released
<1>2. \A x \in served : x \in Tasks /\ task[x] = "waiting"
  BY DEF Waiting, TasksOf
<1> HIDE DEF served
<1> QED
  BY <1>1, <1>2 DEF QueueType, Waits

\* A task ends as its outcome and the settings say.
LEMMA EndOfOutcome ==
  ASSUME NEW outcome \in Outcomes
  PROVE  /\ EndOf(outcome) \in Ends
         /\ EndOf(outcome) = "threw" => config.wholeBatch /\ ~config.atMostOnce
         /\ outcome = "success" => EndOf(outcome) = "ok"
         /\ ~config.atMostOnce /\ EndOf(outcome) = "ok" =>
              outcome = "success" \/ (outcome = "unmatched" /\ config.ignoreUnmatched)
         /\ ~config.atMostOnce /\ config.wholeBatch /\ EndOf(outcome) \in {"ok", "failed"} =>
              outcome # "throws"
BY DEF EndOf, Ends, Outcomes, MessageResults, IsSettledAsFailure

\* The messages a deletion takes had a task in the batch that it may delete.
LEMMA DeletedPlace ==
  ASSUME QueueType, NEW ts, ts \subseteq ToDelete, Deleted(ts)
  PROVE  /\ place' \in [Messages -> {"visible", "hidden", "deleted"}]
         /\ \A m \in Messages : \/ place'[m] = place[m]
                                \/ place'[m] = "deleted" /\ <<m, batch>> \in ToDelete
         /\ \A m \in Messages : <<m, batch>> \in ts => place'[m] = "deleted"
BY DEF Deleted, QueueType

\* What may be deleted has ended as a deletion demands.
LEMMA ToDeleteVouched ==
  ASSUME DeleteInv, pc = "deleting", ~config.atMostOnce, NEW m \in Messages, <<m, batch>> \in ToDelete
  PROVE  Vouched(m)
<1>1. /\ <<m, batch>> \in TasksOf(batch) /\ <<m, batch>> \in Tasks
      /\ task[<<m, batch>>] = "ok" \/ (config.wholeBatch /\ task[<<m, batch>>] = "failed")
  BY DEF ToDelete, TasksOf, DeleteInv, Handled
<1>2. Vouched(<<m, batch>>[1])
  BY <1>1 DEF DeleteInv
<1> QED
  BY <1>2

-----------------------------------------------------------------------------
(* Steps.                                                                  *)

\* The queue is full and nothing has been received at first.
LEMMA InvInit == Init => Inv
<1> SUFFICES ASSUME Init PROVE Inv
  OBVIOUS
<1>1. QueueType
  BY SqsAssumption DEF SqsAssumption, Init, QueueType
<1>2. DeleteInv
  BY DEF Init, DeleteInv
<1>3. OnceInv
  BY DEF Init, OnceInv, Waits
<1> QED
  BY <1>1, <1>2, <1>3 DEF Inv

\* A step of the loop, between a batch and the next: places and tasks stay, and
\* the loop leaves what it does only when it has to.
LEMMA LoopMoves ==
  ASSUME Inv, UNCHANGED <<config, place, batch, task, succeeded, clean>>,
         faults' \in {faults, faults + 1}, aborted => aborted',
         pc' = "deleting" => Handled,
         Quiet' /\ pc \in {"handling", "deleting"} =>
           \/ pc' = pc
           \/ pc = "handling" /\ Handled /\ (pc' = "deleting" \/ ToDelete = {})
  PROVE  Inv'
<1>1. QueueType'
  BY DEF Inv, QueueType
<1>2. Handled <=> Handled'
  BY DEF Handled, TasksOf
<1>3. DeleteInv'
  BY <1>2 DEF Inv, DeleteInv, Vouched
<1>4. OnceInv'
  <2> SUFFICES ASSUME Quiet' PROVE OnceInv'
    BY DEF OnceInv
  <2>1. Quiet
    BY DEF Quiet, Inv, QueueType
  <2>2. \A t \in Tasks : task[t] \in Waits => pc' = "handling"
    <3> SUFFICES ASSUME NEW t \in Tasks, task[t] \in Waits PROVE pc' = "handling"
      OBVIOUS
    <3>1. pc = "handling" /\ t \in TasksOf(batch)
      BY <2>1 DEF Inv, OnceInv, TasksOf, Waits
    <3>2. ~Handled
      BY <3>1 DEF Handled, Waits
    <3> QED
      BY <3>1, <3>2
  <2>3. ASSUME NEW m \in Messages, place[m] = "hidden", succeeded[m] # 0
        PROVE  pc' \in {"handling", "deleting"} /\ \E t \in TasksOf(batch) : t[1] = m /\ task[t] = "ok"
    <3>1. pc \in {"handling", "deleting"} /\ \E t \in TasksOf(batch) : t[1] = m /\ task[t] = "ok"
      BY <2>1, <2>3 DEF Inv, OnceInv
    <3>2. ToDelete # {}
      BY <3>1 DEF ToDelete
    <3> QED
      BY <3>1, <3>2
  <2>4. TasksOf(batch)' = TasksOf(batch)
    BY DEF TasksOf
  <2> QED
    BY <2>1, <2>2, <2>3, <2>4 DEF Inv, OnceInv
<1> QED
  BY <1>1, <1>3, <1>4 DEF Inv

\* A deletion is answered, or rejected when a call failed or was aborted.
LEMMA DeletionMoves ==
  ASSUME Inv, pc = "deleting", pc' # "deleting",
         NEW ts, ts \subseteq ToDelete, Deleted(ts) \/ UNCHANGED place,
         UNCHANGED <<config, batch, task, succeeded, clean>>,
         faults' \in {faults, faults + 1}, aborted => aborted',
         Quiet' => Deleted(ToDelete)
  PROVE  Inv'
<1>1. /\ place' \in [Messages -> {"visible", "hidden", "deleted"}]
      /\ \A m \in Messages : \/ place'[m] = place[m]
                             \/ place'[m] = "deleted" /\ <<m, batch>> \in ToDelete
  BY DeletedPlace DEF Inv, QueueType
<1>2. QueueType'
  BY <1>1 DEF Inv, QueueType
<1>3. DeleteInv'
  <2> SUFFICES ASSUME ~config.atMostOnce
               PROVE  /\ \A m \in Messages : place'[m] = "deleted" => Vouched(m)
                      /\ \A t \in Tasks : task[t] = "ok" \/ (config.wholeBatch /\ task[t] = "failed") => Vouched(t[1])
    BY DEF DeleteInv, Vouched
  <2> QED
    BY <1>1, ToDeleteVouched DEF Inv, DeleteInv
<1>4. OnceInv'
  <2> SUFFICES ASSUME Quiet' PROVE OnceInv'
    BY DEF OnceInv
  <2>1. Quiet /\ Deleted(ToDelete)
    BY DEF Quiet, Inv, QueueType
  <2>2. \A t \in Tasks : task[t] \notin Waits
    BY <2>1 DEF Inv, OnceInv
  <2>3. \A m \in Messages : place'[m] = "hidden" => succeeded[m] = 0
    <3> SUFFICES ASSUME NEW m \in Messages, place'[m] = "hidden", succeeded[m] # 0 PROVE FALSE
      OBVIOUS
    <3>1. place[m] = "hidden"
      BY <1>1
    <3>2. PICK t \in TasksOf(batch) : t[1] = m /\ task[t] = "ok"
      BY <2>1, <3>1 DEF Inv, OnceInv
    <3>3. t \in ToDelete /\ t = <<m, batch>>
      BY <3>2, TaskParts DEF ToDelete, TasksOf
    <3>4. place'[m] = "deleted"
      BY <2>1, <3>3 DEF Deleted
    <3> QED
      BY <3>4
  <2>4. \A m \in Messages : place'[m] = "visible" => place[m] = "visible"
    BY <1>1
  <2> QED
    BY <2>1, <2>2, <2>3, <2>4 DEF Inv, OnceInv
<1> QED
  BY <1>2, <1>3, <1>4 DEF Inv

\* A batch is received of messages no handling of which has succeeded.
LEMMA ReceiveMoves ==
  ASSUME Inv, Receive
  PROVE  Inv'
<1>1. PICK ms \in SUBSET {m \in Messages : place[m] = "visible"} :
        /\ place' = [m \in Messages |-> IF m \in ms THEN "hidden" ELSE place[m]]
        /\ FanOut(ms)
  BY DEF Receive
<1>2. /\ pc = "polling" /\ batch < MaxBatches /\ batch' = batch + 1 /\ pc' = "handling"
      /\ UNCHANGED <<config, aborted, faults, succeeded, clean>>
  BY DEF Receive
<1>3. /\ task' \in [Tasks -> Ends \cup Waits \cup {"none"}]
      /\ \A t \in Tasks : IF t[2] # batch' \/ t[1] \notin ms THEN task'[t] = task[t]
                          ELSE task'[t] \in {"permitted", "waiting"}
  BY <1>1 DEF FanOut, Inv, QueueType, Waits
<1>4. QueueType'
  <2>1. batch' \in 0 .. MaxBatches
    BY <1>2, SqsAssumption DEF SqsAssumption, Inv, QueueType
  <2> QED
    BY <1>1, <1>2, <1>3, <2>1 DEF Inv, QueueType
<1>5. DeleteInv'
  <2>1. \A t \in Tasks : task'[t] \in Ends => task'[t] = task[t]
    BY <1>3 DEF Ends
  <2> QED
    BY <1>1, <1>2, <2>1 DEF Inv, DeleteInv, Vouched, Ends
<1>6. OnceInv'
  <2> SUFFICES ASSUME Quiet' PROVE OnceInv'
    BY DEF OnceInv
  <2>1. Quiet
    BY <1>2 DEF Quiet
  <2>2. \A t \in Tasks : task[t] \notin Waits
    BY <1>2, <2>1 DEF Inv, OnceInv
  <2>3. \A t \in Tasks : task'[t] \in Waits => t[2] = batch' /\ t[1] \in ms
    BY <1>3, <2>2
  <2>4. \A m \in ms : m \in Messages /\ place'[m] = "hidden" /\ succeeded[m] = 0
    BY <1>1, <2>1 DEF Inv, OnceInv
  <2>5. \A m \in Messages \ ms : place'[m] = place[m]
    BY <1>1
  <2>6. \A m \in Messages : place'[m] = "hidden" => succeeded[m] = 0
    BY <1>2, <2>1, <2>4, <2>5 DEF Inv, OnceInv
  <2>7. \A t \in Tasks : task'[t] # "threw"
    BY <1>3, <2>1 DEF Inv, OnceInv
  <2>8. \A m \in Messages : succeeded[m] <= 1 /\ (place'[m] = "visible" => succeeded[m] = 0)
    BY <2>1, <2>4, <2>5 DEF Inv, OnceInv
  <2> QED
    BY <1>2, <2>3, <2>4, <2>6, <2>7, <2>8 DEF OnceInv
<1> QED
  BY <1>4, <1>5, <1>6 DEF Inv

\* Handled batches stay so while tasks that wait change, to wait on or to end.
LEMMA HandledKept ==
  ASSUME Handled, UNCHANGED batch,
         \A x \in Tasks : task'[x] = task[x] \/ task[x] \in Waits
  PROVE  Handled'
BY DEF Handled, TasksOf, Waits

\* A task goes from one wait to another.
LEMMA TaskWaits ==
  ASSUME Inv, NEW t \in Tasks, task[t] \in Waits, NEW w \in Waits, task' = [task EXCEPT ![t] = w],
         UNCHANGED <<config, place, pc, batch, aborted, faults, succeeded, clean>>
  PROVE  Inv'
<1>1. QueueType'
  BY DEF Inv, QueueType
<1>2. \A x \in Tasks : task'[x] = task[x] \/ (task[x] \in Waits /\ task'[x] \in Waits)
  BY DEF Inv, QueueType
<1>3. DeleteInv'
  <2>1. pc = "deleting" /\ Handled => Handled'
    BY <1>2, HandledKept
  <2> QED
    BY <1>2, <2>1 DEF Inv, DeleteInv, Vouched, Waits
<1>4. OnceInv'
  <2> SUFFICES ASSUME Quiet' PROVE OnceInv'
    BY DEF OnceInv
  <2>1. Quiet
    BY DEF Quiet
  <2>2. \A x \in TasksOf(batch) : task[x] = "ok" => x \in TasksOf(batch)' /\ task'[x] = "ok"
    BY <1>2 DEF TasksOf, Waits
  <2> QED
    BY <1>2, <2>1, <2>2 DEF Inv, OnceInv, Waits
<1> QED
  BY <1>1, <1>3, <1>4 DEF Inv

\* A task ends: won when its handler succeeded.
LEMMA TaskEnds ==
  ASSUME Inv, NEW t \in Tasks, task[t] \in Waits, NEW end \in Ends, Released(t, end),
         UNCHANGED <<config, place, pc, batch, aborted, faults>>,
         NEW won \in BOOLEAN,
         succeeded' = [succeeded EXCEPT ![t[1]] = IF won THEN succeeded[t[1]] + 1 ELSE succeeded[t[1]]],
         won => end = "ok",
         clean \subseteq clean', clean' \subseteq Messages,
         ~config.atMostOnce /\ end = "ok" => t[1] \in clean' /\ (~config.ignoreUnmatched => won),
         ~config.atMostOnce /\ config.wholeBatch /\ end = "failed" => t[1] \in clean',
         end = "threw" => config.wholeBatch /\ ~config.atMostOnce
  PROVE  Inv'
<1>1. /\ task'[t] = end
      /\ \A x \in Tasks \ {t} : \/ task'[x] = task[x]
                                \/ task[x] = "waiting" /\ task'[x] = "permitted"
      /\ task' \in [Tasks -> Ends \cup Waits \cup {"none"}]
  BY ReleasedTasks DEF Inv
<1>2. /\ \A m \in Messages \ {t[1]} : succeeded'[m] = succeeded[m]
      /\ succeeded'[t[1]] = IF won THEN succeeded[t[1]] + 1 ELSE succeeded[t[1]]
      /\ succeeded[t[1]] \in Nat /\ t[1] \in Messages
      /\ succeeded' \in [Messages -> Nat]
  BY TaskParts DEF Inv, QueueType
<1>3. QueueType'
  BY <1>1, <1>2 DEF Inv, QueueType
<1>4. \A m \in Messages : Vouched(m) => Vouched(m)'
  BY <1>2 DEF Vouched, Inv, QueueType
<1>5. ~config.atMostOnce /\ (end = "ok" \/ (config.wholeBatch /\ end = "failed")) => Vouched(t[1])'
  BY <1>2 DEF Vouched
<1>6. DeleteInv'
  <2>1. pc = "deleting" /\ Handled => Handled'
    <3>1. \A x \in Tasks : task'[x] = task[x] \/ task[x] \in Waits
      BY <1>1 DEF Waits
    <3> QED
      BY <3>1, HandledKept
  <2>2. ASSUME ~config.atMostOnce, NEW x \in Tasks,
               task'[x] = "ok" \/ (config.wholeBatch /\ task'[x] = "failed")
        PROVE  Vouched(x[1])'
    <3>1. CASE x = t
      BY <1>1, <1>5, <2>2, <3>1
    <3>2. CASE x # t
      <4>1. task'[x] = task[x]
        BY <1>1, <2>2, <3>2
      <4>2. Vouched(x[1])
        BY <2>2, <4>1 DEF Inv, DeleteInv
      <4>3. x[1] \in Messages
        BY TaskParts
      <4> QED
        BY <1>4, <4>2, <4>3
    <3> QED
      BY <3>1, <3>2
  <2>3. ~config.atMostOnce => \A m \in Messages : place'[m] = "deleted" => Vouched(m)'
    BY <1>4 DEF Inv, DeleteInv
  <2> QED
    BY <2>1, <2>2, <2>3 DEF Inv, DeleteInv
<1>7. OnceInv'
  <2> SUFFICES ASSUME Quiet' PROVE OnceInv'
    BY DEF OnceInv
  <2>1. Quiet
    BY DEF Quiet
  <2>2. t[2] = batch /\ pc = "handling" /\ place[t[1]] = "hidden" /\ succeeded[t[1]] = 0
    BY <2>1 DEF Inv, OnceInv
  <2>3. \A x \in Tasks : task'[x] # "threw"
    BY <1>1, <2>1 DEF Inv, OnceInv, Quiet
  <2>4. \A m \in Messages : succeeded'[m] <= 1 /\ (place[m] = "visible" => succeeded'[m] = 0)
    BY <1>2, <2>1, <2>2 DEF Inv, OnceInv
  <2>5. ASSUME NEW x \in Tasks, task'[x] \in Waits
        PROVE  x[2] = batch /\ place[x[1]] = "hidden" /\ succeeded'[x[1]] = 0
    <3>1. x # t /\ task[x] \in Waits
      BY <1>1, <2>5 DEF Ends, Waits
    <3>2. x[2] = batch /\ place[x[1]] = "hidden" /\ succeeded[x[1]] = 0
      BY <2>1, <3>1 DEF Inv, OnceInv
    <3>3. x[1] # t[1] /\ x[1] \in Messages
      BY <2>2, <3>1, <3>2, TaskParts
    <3> QED
      BY <1>2, <3>2, <3>3
  <2>6. ASSUME NEW m \in Messages, place[m] = "hidden", succeeded'[m] # 0
        PROVE  \E x \in TasksOf(batch)' : x[1] = m /\ task'[x] = "ok"
    <3>1. CASE m = t[1]
      <4>1. end = "ok"
        BY <1>2, <2>2, <2>6, <3>1
      <4>2. t \in TasksOf(batch)'
        BY <1>1, <2>2, <4>1 DEF TasksOf
      <4> QED
        BY <1>1, <3>1, <4>1, <4>2
    <3>2. CASE m # t[1]
      <4>1. PICK x \in TasksOf(batch) : x[1] = m /\ task[x] = "ok"
        BY <1>2, <2>1, <2>6, <3>2 DEF Inv, OnceInv
      <4>2. x \in Tasks /\ x # t /\ task'[x] = "ok" /\ x \in TasksOf(batch)'
        BY <1>1, <3>2, <4>1 DEF TasksOf
      <4> QED
        BY <4>1, <4>2
    <3> QED
      BY <3>1, <3>2
  <2> QED
    BY <2>2, <2>3, <2>4, <2>5, <2>6 DEF OnceInv
<1> QED
  BY <1>3, <1>6, <1>7 DEF Inv

\* A hidden message is shown again when no handling of it has just succeeded.
LEMMA ExpiresMoves ==
  ASSUME Inv, NEW m \in Messages, VisibilityExpires(m)
  PROVE  Inv'
<1>1. /\ place[m] = "hidden" /\ place' = [place EXCEPT ![m] = "visible"]
      /\ UNCHANGED <<config, pc, batch, aborted, task, succeeded, clean>>
      /\ \/ faults' = faults + 1
         \/ /\ \A t \in Tasks : t[1] = m => task[t] \in Ends \cup {"none"}
            /\ <<m, batch>> \in TasksOf(batch) => pc \notin {"handling", "deleting"}
            /\ UNCHANGED faults
  BY DEF VisibilityExpires, Fault, taskVars
<1>2. QueueType'
  BY <1>1 DEF Inv, QueueType
<1>3. Handled => Handled'
  BY <1>1 DEF Handled, TasksOf
<1>4. DeleteInv'
  BY <1>1, <1>3 DEF Inv, DeleteInv, Vouched, QueueType
<1>5. OnceInv'
  <2> SUFFICES ASSUME Quiet' PROVE OnceInv'
    BY DEF OnceInv
  <2>1. Quiet /\ faults' # faults + 1
    BY <1>1 DEF Quiet, Inv, QueueType
  <2>2. succeeded[m] = 0
    <3> SUFFICES ASSUME succeeded[m] # 0 PROVE FALSE
      OBVIOUS
    <3>1. PICK t \in TasksOf(batch) : t[1] = m /\ task[t] = "ok"
      BY <1>1, <2>1 DEF Inv, OnceInv
    <3>2. t = <<m, batch>>
      BY <3>1, TaskParts DEF TasksOf
    <3>3. pc \in {"handling", "deleting"}
      BY <1>1, <2>1 DEF Inv, OnceInv
    <3> QED
      BY <1>1, <2>1, <3>1, <3>2, <3>3
  <2>3. \A t \in Tasks : task[t] \in Waits => t[1] # m
    BY <1>1, <2>1 DEF Ends, Waits
  <2>4. TasksOf(batch)' = TasksOf(batch)
    BY <1>1 DEF TasksOf
  <2>5. \A k \in Messages \ {m} : place'[k] = place[k]
    BY <1>1
  <2>6. place'[m] = "visible"
    BY <1>1 DEF Inv, QueueType
  <2> QED
    BY <1>1, <2>1, <2>2, <2>3, <2>4, <2>5, <2>6, TaskParts DEF Inv, OnceInv
<1> QED
  BY <1>2, <1>4, <1>5 DEF Inv

\* Every step of the loop, its tasks, the queue, the clock and the token.
LEMMA InvStep == Inv /\ [Next]_vars => Inv'
<1> SUFFICES ASSUME Inv, [Next]_vars PROVE Inv'
  OBVIOUS
<1>0. /\ faults \in Nat
      /\ \A t \in Tasks : task[t] \in Ends \cup Waits \cup {"none"}
      /\ succeeded \in [Messages -> Nat] /\ clean \subseteq Messages
  BY DEF Inv, QueueType
<1>1. CASE ReceiveNothing \/ ReceiveRejects \/ BackoffEnds
  <2>1. /\ UNCHANGED <<config, place, batch, task, succeeded, clean, aborted>>
        /\ faults' \in {faults, faults + 1}
        /\ pc \notin {"handling", "deleting"} /\ pc' # "deleting"
    BY <1>1 DEF ReceiveNothing, ReceiveRejects, BackoffEnds, Fault, Caught, Loop, taskVars
  <2> QED
    BY <2>1, LoopMoves
<1>2. CASE BatchHandled
  <2>1. /\ UNCHANGED <<config, place, batch, task, succeeded, clean, aborted, faults>>
        /\ pc = "handling" /\ Handled
        /\ IF ToDelete = {} THEN pc' \in {"returned", "polling"} ELSE pc' = "deleting"
    BY <1>2 DEF BatchHandled, Loop, taskVars
  <2> QED
    BY <2>1, LoopMoves
<1>3. CASE BatchThrows
  <2>1. /\ UNCHANGED <<config, place, batch, task, succeeded, clean, aborted, faults>>
        /\ pc = "handling" /\ pc' # "deleting"
        /\ \E t \in Tasks : task[t] = "threw"
    BY <1>3 DEF BatchThrows, Caught, Loop, taskVars, TasksOf
  <2>2. ~Quiet'
    BY <2>1 DEF Quiet, Inv, OnceInv
  <2> QED
    BY <2>1, <2>2, LoopMoves
<1>4. CASE DeleteResolves
  <2>1. /\ UNCHANGED <<config, batch, task, succeeded, clean, aborted>>
        /\ pc = "deleting" /\ pc' # "deleting"
        /\ \/ Deleted(ToDelete) /\ UNCHANGED faults
           \/ faults' = faults + 1 /\ \E t \in ToDelete : Deleted(ToDelete \ {t})
    BY <1>4 DEF DeleteResolves, Fault, Loop, taskVars
  <2>2. CASE Deleted(ToDelete) /\ UNCHANGED faults
    BY <2>1, <2>2, DeletionMoves
  <2>3. ASSUME faults' = faults + 1, NEW t \in ToDelete, Deleted(ToDelete \ {t})
        PROVE  Inv'
    <3>1. ToDelete \ {t} \subseteq ToDelete /\ ~Quiet'
      BY <1>0, <2>3 DEF Quiet
    <3> QED
      BY <2>1, <2>3, <3>1, DeletionMoves
  <2> QED
    BY <2>1, <2>2, <2>3
<1>5. CASE DeleteRejects
  <2>1. /\ UNCHANGED <<config, batch, task, succeeded, clean, aborted>>
        /\ pc = "deleting" /\ pc' # "deleting"
        /\ faults' \in {faults, faults + 1} /\ ~Quiet'
        /\ UNCHANGED place \/ Deleted(ToDelete)
    BY <1>0, <1>5 DEF DeleteRejects, Fault, Caught, Loop, taskVars, Quiet
  <2> QED
    BY <2>1, DeletionMoves
<1>6. CASE Receive
  BY <1>6, ReceiveMoves
<1>7. CASE Abort
  <2>1. UNCHANGED <<config, place, batch, task, succeeded, clean, pc, faults>> /\ aborted'
    BY <1>7 DEF Abort, taskVars
  <2>2. pc = "deleting" => Handled \/ config.atMostOnce
    BY DEF Inv, DeleteInv
  <2>3. Handled => Handled'
    BY <2>1 DEF Handled, TasksOf
  <2> QED
    BY <2>1, <2>3 DEF Inv, QueueType, DeleteInv, Vouched, OnceInv, Quiet
<1>8. ASSUME NEW t \in Tasks, Start(t)
      PROVE  Inv'
  <2>1. /\ task[t] = "permitted"
        /\ UNCHANGED <<config, place, pc, batch, aborted, faults, succeeded>>
        /\ \/ task' = [task EXCEPT ![t] = "running"]
           \/ Released(t, EndOf("failure"))
        /\ clean' = IF task'[t] = "running" THEN clean ELSE clean \cup {t[1]}
    BY <1>8 DEF Start, consumerVars
  <2>2. CASE task' = [task EXCEPT ![t] = "running"]
    <3>1. task'[t] = "running" /\ UNCHANGED clean
      BY <2>1, <2>2 DEF Inv, QueueType
    <3> QED
      BY <2>1, <2>2, <3>1, TaskWaits DEF Waits
  <2>3. CASE Released(t, EndOf("failure"))
    <3>1. "failure" \in Outcomes
      BY DEF Outcomes, MessageResults
    <3>2. /\ EndOf("failure") \in Ends
          /\ EndOf("failure") = "threw" => config.wholeBatch /\ ~config.atMostOnce
          /\ ~config.atMostOnce => EndOf("failure") # "ok"
      BY <3>1, EndOfOutcome
    <3>3. task'[t] = EndOf("failure")
      BY <2>3, <3>2, ReleasedTasks DEF Inv
    <3>4. clean' = clean \cup {t[1]}
      BY <2>1, <3>2, <3>3 DEF Ends
    <3>5. succeeded' = [succeeded EXCEPT ![t[1]] = IF FALSE THEN succeeded[t[1]] + 1 ELSE succeeded[t[1]]]
      BY <1>0, <2>1
    <3>6. clean \subseteq clean' /\ clean' \subseteq Messages /\ t[1] \in clean'
      BY <1>0, <3>4, TaskParts
    <3> QED
      BY <2>1, <2>3, <3>2, <3>5, <3>6, TaskEnds DEF Waits
  <2> QED
    BY <2>1, <2>2, <2>3
<1>9. ASSUME NEW t \in Tasks, RetryDelayEnds(t)
      PROVE  Inv'
  <2>1. /\ task[t] = "delayed" /\ task' = [task EXCEPT ![t] = "running"]
        /\ UNCHANGED <<config, place, pc, batch, aborted, faults, succeeded, clean>>
    BY <1>9 DEF RetryDelayEnds, consumerVars
  <2> QED
    BY <2>1, TaskWaits DEF Waits
<1>10. ASSUME NEW t \in Tasks, NEW outcome \in Outcomes, HandlerEnds(t, outcome)
       PROVE  Inv'
  <2>1. task[t] = "running" /\ UNCHANGED <<config, place, pc, batch, aborted, faults>>
    BY <1>10 DEF HandlerEnds, consumerVars
  <2>2. CASE task' = [task EXCEPT ![t] = "delayed"] /\ UNCHANGED <<succeeded, clean>>
    BY <2>1, <2>2, TaskWaits DEF Waits
  <2>3. CASE /\ Released(t, EndOf(outcome))
             /\ succeeded' = [succeeded EXCEPT ![t[1]] = IF outcome = "success" THEN @ + 1 ELSE @]
             /\ clean' = IF outcome = "throws" THEN clean ELSE clean \cup {t[1]}
    <3>1. /\ EndOf(outcome) \in Ends
          /\ EndOf(outcome) = "threw" => config.wholeBatch /\ ~config.atMostOnce
          /\ outcome = "success" => EndOf(outcome) = "ok"
          /\ ~config.atMostOnce /\ EndOf(outcome) = "ok" =>
               outcome = "success" \/ (outcome = "unmatched" /\ config.ignoreUnmatched)
          /\ ~config.atMostOnce /\ config.wholeBatch /\ EndOf(outcome) \in {"ok", "failed"} =>
               outcome # "throws"
      BY EndOfOutcome
    <3>2. /\ clean \subseteq clean' /\ clean' \subseteq Messages
          /\ outcome # "throws" => t[1] \in clean'
      BY <1>0, <2>3, TaskParts
    <3>3. (outcome = "success") \in BOOLEAN
      OBVIOUS
    <3>4. ~config.atMostOnce /\ EndOf(outcome) = "ok" =>
            t[1] \in clean' /\ (~config.ignoreUnmatched => outcome = "success")
      BY <3>1, <3>2
    <3>5. ~config.atMostOnce /\ config.wholeBatch /\ EndOf(outcome) = "failed" => t[1] \in clean'
      BY <3>1, <3>2
    <3> QED
      BY <2>1, <2>3, <3>1, <3>2, <3>3, <3>4, <3>5, TaskEnds DEF Waits
  <2> QED
    BY <1>10, <2>2, <2>3 DEF HandlerEnds
<1>11. ASSUME NEW m \in Messages, VisibilityExpires(m)
       PROVE  Inv'
  BY <1>11, ExpiresMoves
<1>12. CASE ClockTicks \/ UNCHANGED vars
  <2>1. UNCHANGED <<config, place, pc, batch, task, succeeded, clean, aborted, faults>>
    BY <1>12 DEF ClockTicks, consumerVars, taskVars, vars
  <2>2. pc = "deleting" /\ Handled => Handled'
    BY <2>1 DEF Handled, TasksOf
  <2>3. TasksOf(batch)' = TasksOf(batch)
    BY <2>1 DEF TasksOf
  <2> QED
    BY <2>1, <2>2, <2>3 DEF Inv, QueueType, DeleteInv, Vouched, OnceInv, Quiet
<1> QED
  BY <1>1, <1>2, <1>3, <1>4, <1>5, <1>6, <1>7, <1>8, <1>9, <1>10, <1>11, <1>12
     DEF Next, LoopSteps, TaskSteps

\* Nothing leaves the queue unhandled, and while no call fails, no timeout is too
\* short and nothing aborts a deletion, no message is handled with success again.
THEOREM SqsDeletesHandled == Spec => []DeletedHandled
<1>1. Inv => DeletedHandled
  BY DEF Inv, DeleteInv, OnceInv, Quiet, Vouched, DeletedHandled
<1> QED
  BY <1>1, InvInit, InvStep, PTL DEF Spec

-----------------------------------------------------------------------------
(* The permits of a batch.                                                 *)

Parallelism == config.parallelism

PermitsRight(b) ==
  Parallelism > 0 =>
    /\ permits[b] + Cardinality(Active(b)) = Parallelism
    /\ Waiting(b) # {} => permits[b] = 0

FanInv ==
  /\ permits \in [Batches -> Nat]
  /\ \A t \in Tasks : t[2] > batch => task[t] = "none"
  /\ \A b \in 1 .. batch : PermitsRight(b)
  /\ ~config.wholeBatch =>
       /\ \A t \in Tasks : task[t] # "threw"
       /\ \A t \in Tasks : task[t] \in Waits => t[2] = batch /\ pc = "handling"

LEMMA Least ==
  ASSUME NEW I, I \subseteq Nat, I # {}
  PROVE  \E x \in I : \A y \in I : x <= y
<1> DEFINE Less == {p \in Nat \X Nat : p[1] < p[2]}
<1>1. IsWellFoundedOn(Less, Nat)
  <2>1. Less = OpToRel(<, Nat)
    BY Zenon DEF OpToRel
  <2>2. IsWellFoundedOn(OpToRel(<, Nat), Nat)
    BY NatLessThanWellFounded, Zenon
  <2> QED BY <2>1, <2>2, Zenon
<1>2. PICK x \in I : \A y \in I : ~(<<y, x>> \in Less)
  BY <1>1, WFMin, Zenon
<1>3. \A y \in I : x <= y
  <2> TAKE y \in I
  <2>1. ~(<<y, x>> \in Less)
    BY <1>2
  <2> QED BY <2>1
<1> QED BY <1>3

LEMMA BatchTypes ==
  ASSUME QueueType
  PROVE  /\ batch \in Nat /\ MaxBatches \in Nat /\ batch <= MaxBatches
         /\ \A b : b \in Batches <=> b \in Nat /\ 1 <= b /\ b <= MaxBatches
         /\ \A b \in 1 .. batch : b \in Batches /\ b \in Nat
         /\ config.parallelism \in Nat
BY SqsAssumption DEF SqsAssumption, QueueType, Batches

LEMMA FiniteTasks ==
  /\ IsFiniteSet(Messages) /\ Messages \subseteq Nat
  /\ \A b \in Batches : IsFiniteSet(Active(b)) /\ Cardinality(Active(b)) \in Nat
<1>1. MessageCount \in Nat /\ MaxBatches \in Nat
  BY SqsAssumption DEF SqsAssumption
<1>2. IsFiniteSet(Messages) /\ IsFiniteSet(Batches)
  BY <1>1, FS_Interval DEF Messages, Batches
<1>3. IsFiniteSet(Tasks)
  BY <1>2, FS_Product DEF Tasks
<1>4. \A b : Active(b) \subseteq Tasks
  BY DEF Active, TasksOf
<1>5. ASSUME NEW b \in Batches PROVE IsFiniteSet(Active(b)) /\ Cardinality(Active(b)) \in Nat
  BY <1>3, <1>4, FS_Subset, FS_CardinalityType
<1> QED BY <1>1, <1>2, <1>5 DEF Messages

\* Of a set of messages, those with fewer than n before them are n, if any is left.
LEMMA FirstOnes ==
  ASSUME NEW ms \in SUBSET Messages, NEW n \in Nat \ {0}
  PROVE  LET first == {m \in ms : Cardinality({k \in ms : k < m}) < n}
         IN  /\ IsFiniteSet(first) /\ Cardinality(first) \in Nat
             /\ Cardinality(first) <= n
             /\ first # ms => Cardinality(first) = n
<1> DEFINE Before(m) == {k \in ms : k < m}
           first == {m \in ms : Cardinality(Before(m)) < n}
<1>1. IsFiniteSet(ms) /\ ms \subseteq Nat
  BY FiniteTasks, FS_Subset
<1>2. \A S \in SUBSET ms : IsFiniteSet(S) /\ Cardinality(S) \in Nat
  BY <1>1, FS_Subset, FS_CardinalityType
<1>3. first \in SUBSET ms /\ \A m \in ms : m \in first <=> Cardinality(Before(m)) < n
  OBVIOUS
<1>4. \A m \in ms : Before(m) \in SUBSET ms /\ \A k \in ms : k \in Before(m) <=> k < m
  OBVIOUS
<1>5. SUFFICES /\ IsFiniteSet(first) /\ Cardinality(first) \in Nat
               /\ Cardinality(first) <= n
               /\ first # ms => Cardinality(first) = n
  OBVIOUS
<1> HIDE DEF first, Before
<1>6. Cardinality(first) <= n
  <2>1. CASE first = {}
    <3>1. Cardinality(first) = 0
      BY <2>1, FS_EmptySet, Zenon
    <3> QED BY <3>1
  <2>2. CASE first # {}
    <3>1. PICK x \in first : \A y \in first : y <= x
      <4> DEFINE up == {k \in Nat : \A y \in first : y <= k}
      <4>1. up # {} /\ up \subseteq Nat
        <5>1. MessageCount \in up
          BY <1>3, SqsAssumption DEF SqsAssumption, Messages
        <5> QED BY <5>1
      <4>2. PICK x \in up : \A y \in up : x <= y
        BY <4>1, Least, Zenon
      <4>3. CASE x \in first
        BY <4>2, <4>3
      <4>4. CASE x \notin first
        <5>1. PICK z \in first : TRUE
          BY <2>2
        <5>2. \A y \in first : y < x /\ y \in Nat /\ x \in Nat
          BY <1>1, <1>3, <4>2, <4>4
        <5>3. x - 1 \in up
          BY <5>1, <5>2
        <5> QED BY <4>2, <5>2, <5>3
      <4> QED BY <4>3, <4>4
    <3>2. x \in ms /\ Before(x) \in SUBSET ms
      BY <1>3, <1>4
    <3>3. IsFiniteSet(Before(x)) /\ Cardinality(Before(x)) \in Nat /\ Cardinality(Before(x)) < n
      BY <1>2, <1>3, <3>1, <3>2
    <3>4. first \subseteq Before(x) \cup {x}
      BY <1>1, <1>3, <1>4, <3>1
    <3>5. /\ IsFiniteSet(Before(x) \cup {x})
          /\ Cardinality(Before(x) \cup {x}) <= Cardinality(Before(x)) + 1
          /\ Cardinality(Before(x) \cup {x}) \in Nat
      <4>1. /\ IsFiniteSet(Before(x) \cup {x})
            /\ Cardinality(Before(x) \cup {x}) =
                 IF x \in Before(x) THEN Cardinality(Before(x)) ELSE Cardinality(Before(x)) + 1
        BY <3>3, FS_AddElement, Zenon
      <4> QED BY <3>3, <4>1
    <3>6. Cardinality(first) <= Cardinality(Before(x) \cup {x}) /\ Cardinality(first) \in Nat
      BY <1>2, <1>3, <3>4, <3>5, FS_Subset
    <3> QED BY <3>3, <3>5, <3>6
  <2> QED BY <2>1, <2>2
<1>7. ASSUME first # ms PROVE Cardinality(first) >= n
  <2>1. ms \ first # {} /\ ms \ first \subseteq Nat
    BY <1>1, <1>3, <1>7
  <2>2. PICK x \in ms \ first : \A y \in ms \ first : x <= y
    BY <2>1, Least, Zenon
  <2>3. ASSUME NEW k \in Before(x) PROVE k \in first
    <3>1. k \in ms /\ k < x /\ k \in Nat /\ x \in Nat
      BY <1>1, <1>4, <2>2
    <3> QED BY <2>2, <3>1
  <2>4. ~(Cardinality(Before(x)) < n)
    BY <1>3, <2>2
  <2>5. Cardinality(Before(x)) <= Cardinality(first) /\ Cardinality(Before(x)) \in Nat /\ Cardinality(first) \in Nat
    BY <1>2, <1>3, <1>4, <2>2, <2>3, FS_Subset
  <2> QED BY <2>4, <2>5
<1> QED BY <1>2, <1>3, <1>6, <1>7

\* A set of messages has as many tasks in a batch.
LEMMA TasksOfMessages ==
  ASSUME NEW S \in SUBSET Messages, NEW b \in Batches
  PROVE  Cardinality({t \in Tasks : t[2] = b /\ t[1] \in S}) = Cardinality(S)
<1> DEFINE T == {t \in Tasks : t[2] = b /\ t[1] \in S}
           f == [m \in S |-> <<m, b>>]
<1>1. IsFiniteSet(S)
  BY FiniteTasks, FS_Subset
<1>2. f \in Bijection(S, T)
  <2>1. f \in [S -> T]
    BY DEF Tasks
  <2>2. \A m, k \in S : f[m] = f[k] => m = k
    OBVIOUS
  <2>3. \A t \in T : \E m \in S : f[m] = t
    BY TaskParts
  <2> QED BY <2>1, <2>2, <2>3 DEF Bijection, Injection, Surjection, IsInjective
<1>3. ExistsBijection(S, T)
  BY <1>2, Zenon DEF ExistsBijection
<1> HIDE DEF T, f
<1>4. Cardinality(T) = Cardinality(S)
  BY <1>1, <1>3, FS_Bijection
<1> QED BY <1>4 DEF T

\* A batch received: a permit each for the first of its tasks, the others wait.
LEMMA FanOutFan ==
  ASSUME QueueType, FanInv, Receive
  PROVE  FanInv'
<1>1. PICK ms \in SUBSET {m \in Messages : place[m] = "visible"} : FanOut(ms)
  BY DEF Receive
<1>2. /\ pc = "polling" /\ batch' = batch + 1 /\ pc' = "handling" /\ UNCHANGED config
      /\ batch \in Nat /\ batch' \in Batches /\ batch \in 0 .. MaxBatches
  BY SqsAssumption DEF SqsAssumption, QueueType, Receive, Batches
<1>3. ms \in SUBSET Messages /\ Parallelism \in Nat
  BY SqsAssumption DEF SqsAssumption, QueueType, Parallelism
<1> DEFINE first == IF Parallelism = 0 THEN ms
                    ELSE {m \in ms : Cardinality({k \in ms : k < m}) < Parallelism}
<1>4. /\ permits' = [permits EXCEPT ![batch'] = IF Parallelism = 0 THEN 0 ELSE Parallelism - Cardinality(first)]
      /\ task' = [t \in Tasks |-> IF t[2] # batch' \/ t[1] \notin ms THEN task[t]
                                  ELSE IF t[1] \in first THEN "permitted" ELSE "waiting"]
  BY <1>1 DEF FanOut, Parallelism
<1>5. /\ first \subseteq ms
      /\ Parallelism > 0 => /\ Cardinality(first) \in 0 .. Parallelism
                            /\ first # ms => Cardinality(first) = Parallelism
  <2>1. CASE Parallelism > 0
    <3>1. Parallelism \in Nat \ {0} /\ first = {m \in ms : Cardinality({k \in ms : k < m}) < Parallelism}
      BY <1>3, <2>1
    <3> HIDE DEF first
    <3>2. /\ Cardinality(first) \in Nat /\ Cardinality(first) <= Parallelism
          /\ first # ms => Cardinality(first) = Parallelism
      BY <1>3, <3>1, FirstOnes, Zenon
    <3> QED BY <1>3, <2>1, <3>1, <3>2
  <2>2. CASE ~(Parallelism > 0)
    BY <1>3, <2>2
  <2> QED BY <2>1, <2>2
<1> HIDE DEF first
<1>6. /\ \A t \in Tasks : t[2] # batch' => task'[t] = task[t]
      /\ \A t \in Tasks : t[2] = batch' =>
           task'[t] = IF t[1] \notin ms THEN "none" ELSE IF t[1] \in first THEN "permitted" ELSE "waiting"
      /\ \A t \in Tasks : t[2] \in Nat
  BY <1>2, <1>4, TaskParts DEF FanInv, Batches
<1>7. /\ permits' \in [Batches -> Nat]
      /\ \A b \in Batches : b # batch' => permits'[b] = permits[b]
      /\ Parallelism > 0 => permits'[batch'] = Parallelism - Cardinality(first)
  <2>1. (IF Parallelism = 0 THEN 0 ELSE Parallelism - Cardinality(first)) \in Nat
    BY <1>3, <1>5
  <2> QED BY <1>2, <1>4, <2>1 DEF FanInv
<1>8. ASSUME NEW b \in 1 .. batch' PROVE PermitsRight(b)'
  <2>1. b \in Batches
    BY <1>2, BatchTypes
  <2>2. CASE b # batch'
    <3>1. Active(b)' = Active(b) /\ Waiting(b)' = Waiting(b)
      BY <1>6, <2>2 DEF Active, Waiting, TasksOf
    <3>2. PermitsRight(b) /\ permits'[b] = permits[b]
      BY <1>2, <1>7, <2>1, <2>2 DEF FanInv
    <3> QED BY <1>2, <3>1, <3>2 DEF PermitsRight, Parallelism
  <2>3. CASE b = batch'
    <3>1. Active(b)' = {t \in Tasks : t[2] = b /\ t[1] \in first}
      BY <1>5, <1>6, <2>3 DEF Active, TasksOf, Ends
    <3>2. Cardinality(Active(b)') = Cardinality(first)
      BY <1>3, <1>5, <2>1, <3>1, TasksOfMessages
    <3>3. Waiting(b)' # {} => first # ms
      BY <1>6, <2>3 DEF Waiting, TasksOf
    <3>4. Parallelism > 0 => /\ permits'[b] + Cardinality(Active(b)') = Parallelism
                             /\ Waiting(b)' # {} => permits'[b] = 0
      BY <1>3, <1>5, <1>7, <2>3, <3>2, <3>3
    <3> QED BY <1>2, <3>4 DEF PermitsRight, Parallelism
  <2> QED BY <2>2, <2>3
<1>9. \A t \in Tasks : t[2] > batch' => task'[t] = "none"
  BY <1>2, <1>6 DEF FanInv
<1>10. ~config'.wholeBatch => /\ \A t \in Tasks : task'[t] # "threw"
                              /\ \A t \in Tasks : task'[t] \in Waits => t[2] = batch' /\ pc' = "handling"
  BY <1>2, <1>6 DEF FanInv, Waits
<1> QED BY <1>7, <1>8, <1>9, <1>10 DEF FanInv

\* A task that ends hands its permit to the first waiter, or gives it back.
LEMMA ReleasedFan ==
  ASSUME QueueType, FanInv, NEW t \in Tasks, task[t] \in Waits \ {"waiting"}, NEW end \in Ends, Released(t, end),
         end = "threw" => config.wholeBatch, UNCHANGED <<config, batch, pc>>
  PROVE  FanInv'
<1> DEFINE b == t[2]
           served == {w \in Waiting(b) : \A x \in Waiting(b) : w[1] <= x[1]}
<1>1. /\ permits' = [permits EXCEPT ![b] = IF served = {} /\ Parallelism > 0 THEN @ + 1 ELSE @]
      /\ task' = [x \in Tasks |-> IF x = t THEN end
                                  ELSE IF x \in served THEN "permitted" ELSE task[x]]
  BY DEF Released, Parallelism
<1>2. b \in Batches /\ b \in 1 .. batch /\ b \in Nat /\ batch \in Nat
  <2>1. b \in Batches /\ ~(b > batch)
    BY TaskParts DEF FanInv, Waits
  <2> QED BY <2>1, BatchTypes
<1>3. t \in Active(b) /\ t \notin Waiting(b)
  BY DEF Active, Waiting, TasksOf, Waits, Ends
<1>4. Waiting(b) # {} => \E w : served = {w} /\ w \in Waiting(b)
  <2> SUFFICES ASSUME Waiting(b) # {} PROVE \E w : served = {w} /\ w \in Waiting(b)
    OBVIOUS
  <2> DEFINE I == {x[1] : x \in Waiting(b)}
  <2>1. I \subseteq Nat /\ I # {}
    BY TaskParts, FiniteTasks DEF Waiting, TasksOf
  <2>2. PICK k \in I : \A y \in I : k <= y
    BY <2>1, Least, Zenon
  <2>3. PICK w \in Waiting(b) : w[1] = k
    BY <2>2
  <2>4. ASSUME NEW w2 \in served PROVE w2 = w
    <3>1. w2[1] <= w[1] /\ w[1] <= w2[1] /\ w[1] \in Nat /\ w2[1] \in Nat
      BY <2>1, <2>2, <2>3
    <3> QED BY <3>1, TaskParts DEF Waiting, TasksOf
  <2>5. w \in served
    BY <2>2, <2>3
  <2> HIDE DEF served
  <2>6. served = {w}
    BY <2>4, <2>5
  <2> QED BY <2>3, <2>6
<1>5. served \subseteq Waiting(b)
  OBVIOUS
<1> HIDE DEF served
<1>6. /\ task'[t] = end
      /\ \A x \in Tasks : x # t => task'[x] = IF x \in served THEN "permitted" ELSE task[x]
      /\ \A x \in served : x \in Tasks /\ x # t /\ x[2] = b /\ task[x] = "waiting"
  BY <1>1, <1>3, <1>5 DEF Waiting, TasksOf
<1>7. /\ permits' \in [Batches -> Nat]
      /\ \A c \in Batches : c # b => permits'[c] = permits[c]
      /\ permits'[b] = IF served = {} /\ Parallelism > 0 THEN permits[b] + 1 ELSE permits[b]
      /\ permits[b] \in Nat
  BY <1>1, <1>2 DEF FanInv
<1>8. Active(b)' = (Active(b) \ {t}) \cup served
  BY <1>3, <1>6 DEF Active, TasksOf, Ends
<1>9. Waiting(b)' = Waiting(b) \ served
  BY <1>3, <1>6 DEF Waiting, TasksOf, Ends
<1>10. ASSUME NEW c \in 1 .. batch, c # b PROVE PermitsRight(c)'
  <2>1. Active(c)' = Active(c) /\ Waiting(c)' = Waiting(c)
    BY <1>6, <1>10 DEF Active, Waiting, TasksOf
  <2>2. c \in Batches
    BY BatchTypes
  <2> QED BY <1>7, <1>10, <2>1, <2>2 DEF FanInv, PermitsRight, Parallelism
<1>11. PermitsRight(b)'
  <2>1. SUFFICES ASSUME Parallelism > 0
                 PROVE  /\ permits'[b] + Cardinality(Active(b)') = Parallelism
                        /\ Waiting(b)' # {} => permits'[b] = 0
    BY DEF PermitsRight, Parallelism
  <2>2. /\ permits[b] + Cardinality(Active(b)) = Parallelism
        /\ Waiting(b) # {} => permits[b] = 0
    BY <1>2, <2>1 DEF FanInv, PermitsRight
  <2>3. /\ IsFiniteSet(Active(b)) /\ Cardinality(Active(b)) \in Nat
        /\ IsFiniteSet(Active(b) \ {t})
        /\ Cardinality(Active(b) \ {t}) = Cardinality(Active(b)) - 1
    BY <1>2, <1>3, FiniteTasks, FS_RemoveElement
  <2>4. CASE Waiting(b) = {}
    <3>1. served = {} /\ Waiting(b)' = {} /\ Active(b)' = Active(b) \ {t}
      BY <1>5, <1>8, <1>9, <2>4
    <3> QED BY <1>7, <2>1, <2>2, <2>3, <3>1
  <2>5. CASE Waiting(b) # {}
    <3>1. PICK w : served = {w} /\ w \in Waiting(b)
      BY <1>4, <2>5
    <3>2. w \notin Active(b) \ {t}
      BY <3>1 DEF Active, Waiting
    <3>3. Cardinality((Active(b) \ {t}) \cup {w}) = Cardinality(Active(b) \ {t}) + 1
      BY <2>3, <3>2, FS_AddElement
    <3>4. Active(b)' = (Active(b) \ {t}) \cup {w} /\ permits'[b] = permits[b]
      BY <1>7, <1>8, <3>1
    <3> QED BY <1>7, <2>2, <2>3, <2>5, <3>3, <3>4
  <2> QED BY <2>4, <2>5
<1>12. \A x \in Tasks : x[2] > batch => task'[x] = "none"
  BY <1>2, <1>6 DEF FanInv
<1>13. ~config.wholeBatch => /\ \A x \in Tasks : task'[x] # "threw"
                             /\ \A x \in Tasks : task'[x] \in Waits => x[2] = batch /\ pc = "handling"
  BY <1>6 DEF FanInv, Waits, Ends
<1> QED BY <1>7, <1>10, <1>11, <1>12, <1>13 DEF FanInv

\* A step that leaves which tasks run and which wait, of a batch that goes on.
LEMMA FanSame ==
  ASSUME QueueType, FanInv, UNCHANGED <<config, batch, permits>>,
         \A x \in Tasks : \/ task'[x] = task[x]
                          \/ /\ task[x] \in Waits \ {"waiting"} /\ task'[x] \in Waits \ {"waiting"},
         ~config.wholeBatch => pc' = pc \/ \A x \in Tasks : task[x] \notin Waits
  PROVE  FanInv'
<1>1. \A b : Active(b)' = Active(b) /\ Waiting(b)' = Waiting(b)
  BY DEF Active, Waiting, TasksOf, Waits, Ends
<1>2. \A b : PermitsRight(b)' <=> PermitsRight(b)
  BY <1>1 DEF PermitsRight, Parallelism
<1>3. ~config.wholeBatch => /\ \A t \in Tasks : task'[t] # "threw"
                            /\ \A t \in Tasks : task'[t] \in Waits => t[2] = batch /\ pc' = "handling"
  BY DEF FanInv, Waits
<1>4. \A t \in Tasks : t[2] > batch => task'[t] = "none"
  BY DEF FanInv, Waits
<1> QED BY <1>2, <1>3, <1>4 DEF FanInv

LEMMA FanInit == Init => FanInv
  BY SqsAssumption DEF SqsAssumption, Init, FanInv, Waits

LEMMA FanStep == QueueType /\ FanInv /\ [Next]_vars => FanInv'
<1> SUFFICES ASSUME QueueType, FanInv, [Next]_vars PROVE FanInv'
  OBVIOUS
<1>1. CASE ReceiveNothing \/ ReceiveRejects \/ DeleteResolves \/ DeleteRejects \/ BackoffEnds
  <2>1. UNCHANGED <<config, batch, permits, task>> /\ pc # "handling"
    BY <1>1 DEF ReceiveNothing, ReceiveRejects, DeleteResolves, DeleteRejects, BackoffEnds, taskVars
  <2>2. ~config.wholeBatch => \A x \in Tasks : task[x] \notin Waits
    BY <2>1 DEF FanInv
  <2> QED BY <2>1, <2>2, FanSame
<1>2. CASE BatchHandled
  <2>1. UNCHANGED <<config, batch, permits, task>> /\ Handled
    BY <1>2 DEF BatchHandled, taskVars
  <2>2. ~config.wholeBatch => \A x \in Tasks : task[x] \notin Waits
    BY <2>1 DEF FanInv, Handled, TasksOf, Waits
  <2> QED BY <2>1, <2>2, FanSame
<1>3. CASE BatchThrows
  <2>1. UNCHANGED <<config, batch, permits, task>> /\ \E t \in Tasks : task[t] = "threw"
    BY <1>3 DEF BatchThrows, TasksOf, taskVars
  <2>2. config.wholeBatch
    BY <2>1 DEF FanInv
  <2> QED BY <2>1, <2>2, FanSame
<1>4. CASE Receive
  BY <1>4, FanOutFan
<1>5. CASE Abort \/ ClockTicks \/ UNCHANGED vars \/ \E m \in Messages : VisibilityExpires(m)
  <2>1. UNCHANGED <<config, batch, permits, task, pc>>
    BY <1>5 DEF Abort, ClockTicks, VisibilityExpires, vars, consumerVars, taskVars
  <2> QED BY <2>1, FanSame
<1>6. ASSUME NEW t \in Tasks, Start(t)
      PROVE  FanInv'
  <2>1. task[t] = "permitted" /\ UNCHANGED <<config, batch, pc>>
    BY <1>6 DEF Start, consumerVars
  <2>2. CASE task' = [task EXCEPT ![t] = "running"] /\ UNCHANGED permits
    BY <2>1, <2>2, FanSame DEF QueueType, Waits
  <2>3. CASE Released(t, EndOf("failure"))
    <3>1. "failure" \in Outcomes
      BY DEF Outcomes, MessageResults
    <3>2. EndOf("failure") \in Ends /\ (EndOf("failure") = "threw" => config.wholeBatch)
      BY <3>1, EndOfOutcome
    <3> QED BY <2>1, <2>3, <3>2, ReleasedFan DEF Waits
  <2> QED BY <1>6, <2>2, <2>3 DEF Start
<1>7. ASSUME NEW t \in Tasks, RetryDelayEnds(t)
      PROVE  FanInv'
  <2>1. /\ task[t] = "delayed" /\ task' = [task EXCEPT ![t] = "running"]
        /\ UNCHANGED <<config, batch, pc, permits>>
    BY <1>7 DEF RetryDelayEnds, consumerVars
  <2> QED BY <2>1, FanSame DEF QueueType, Waits
<1>8. ASSUME NEW t \in Tasks, NEW outcome \in Outcomes, HandlerEnds(t, outcome)
      PROVE  FanInv'
  <2>1. task[t] = "running" /\ UNCHANGED <<config, batch, pc>>
    BY <1>8 DEF HandlerEnds, consumerVars
  <2>2. CASE task' = [task EXCEPT ![t] = "delayed"] /\ UNCHANGED permits
    BY <2>1, <2>2, FanSame DEF QueueType, Waits
  <2>3. CASE Released(t, EndOf(outcome))
    <3>1. EndOf(outcome) \in Ends /\ (EndOf(outcome) = "threw" => config.wholeBatch)
      BY EndOfOutcome
    <3> QED BY <2>1, <2>3, <3>1, ReleasedFan DEF Waits
  <2> QED BY <1>8, <2>2, <2>3 DEF HandlerEnds
<1> QED
  BY <1>1, <1>2, <1>3, <1>4, <1>5, <1>6, <1>7, <1>8 DEF Next, LoopSteps, TaskSteps

\* In every batch the permits that are left and the tasks that run make up
\* maxDegreeOfParallelism, no permit is left while a task waits for one, and a
\* batch no throw can end is over before the loop goes on.
THEOREM SqsFanOutBounded == Spec => []FanOutBounded
<1>1. QueueType /\ FanInv => FanOutBounded
  <2> SUFFICES ASSUME QueueType, FanInv, NEW b \in 1 .. batch
               PROVE  /\ config.parallelism > 0 =>
                           /\ permits[b] + Cardinality(Active(b)) = config.parallelism
                           /\ Cardinality(Active(b)) <= config.parallelism
                           /\ Waiting(b) # {} => permits[b] = 0
                      /\ (b < batch \/ pc # "handling") /\ ~config.wholeBatch => Active(b) \cup Waiting(b) = {}
    BY DEF FanOutBounded
  <2>1. PermitsRight(b)
    BY DEF FanInv
  <2>2. ASSUME b < batch \/ pc # "handling", ~config.wholeBatch, NEW x \in Active(b) \cup Waiting(b)
        PROVE  FALSE
    <3>1. x \in Tasks /\ x[2] = b /\ task[x] \in Waits
      BY <2>2 DEF Active, Waiting, TasksOf, QueueType, Ends, Waits
    <3>2. b \in Nat /\ batch \in Nat
      BY BatchTypes
    <3> QED BY <2>2, <3>1, <3>2 DEF FanInv
  <2>3. permits[b] \in Nat /\ Cardinality(Active(b)) \in Nat /\ config.parallelism \in Nat
    BY BatchTypes, FiniteTasks DEF FanInv
  <2> QED BY <2>1, <2>2, <2>3 DEF PermitsRight, Parallelism
<1>2. Inv => QueueType
  BY DEF Inv
<1> QED
  BY <1>1, <1>2, InvInit, InvStep, FanInit, FanStep, PTL DEF Spec

-----------------------------------------------------------------------------
(* The rate limiters.                                                      *)

\* The permits granted before s.
GrantedBefore(s) == IF s = 0 THEN 0 ELSE granted[s - 1]

LimiterType ==
  /\ now \in Times /\ kind \in Kinds /\ available \in Int /\ mark \in 0 .. now
  /\ granted \in [Times -> Nat]
  /\ \A s, t \in Times : s <= t => granted[s] <= granted[t]
  /\ \A t \in Times : t >= now => granted[t] = granted[now]
  /\ kind # "concurrency" => available \in 0 .. Limit

\* What was granted since the window began is what it lacks, none after its
\* end; and the windows before it were full at most.
WindowInv ==
  /\ granted[now] - GrantedBefore(mark) = Limit - available
  /\ \A t \in Times : t >= mark + Period - 1 => granted[t] = granted[now]
  /\ \A s \in Times : s < mark /\ mark - s < Period => GrantedBefore(mark) - GrantedBefore(s) <= Limit
  /\ \A s, t \in Times : s <= t /\ t <= now /\ t - s < Period => granted[t] - GrantedBefore(s) <= 2 * Limit

\* The tokens the bucket would hold if it were replenished now.
Tokens ==
  LET tokens == available + PerPeriod * ((now \div Period) - (mark \div Period))
  IN IF tokens > Limit THEN Limit ELSE tokens

\* Over every span that ends now the grants leave room for those tokens.
BucketInv ==
  /\ mark = Period * (mark \div Period)
  /\ \A s, t \in Times : s <= t /\ t <= now =>
       granted[t] - GrantedBefore(s) + (IF t = now THEN Tokens ELSE 0)
         <= Limit + PerPeriod * ((t \div Period) - (s \div Period))

LimiterInv ==
  /\ LimiterType
  /\ kind = "window" => WindowInv
  /\ kind = "bucket" => BucketInv

LEMMA Division ==
  ASSUME NEW n \in Nat
  PROVE  /\ n \div Period \in Nat
         /\ (n + 1) \div Period \in {n \div Period, n \div Period + 1}
         /\ \A k \in Nat : Period * k <= n => (n - Period * k) \div Period = n \div Period - k
         /\ \A k \in Nat : (Period * k) \div Period = k
         /\ \A m \in Nat : m <= n => m \div Period <= n \div Period
<1>1. Period \in Nat \ {0}
  BY LimiterAssumption DEF LimiterAssumption
<1>2. n \div Period \in Nat /\ (n + 1) \div Period \in {n \div Period, n \div Period + 1}
  BY <1>1
<1>3. \A k \in Nat : Period * k <= n => (n - Period * k) \div Period = n \div Period - k
  BY <1>1
<1>4. \A k \in Nat : (Period * k) \div Period = k
  BY <1>1
<1>5. \A m \in Nat : m <= n => m \div Period <= n \div Period
  BY <1>1
<1> QED BY <1>2, <1>3, <1>4, <1>5

LEMMA LimiterStart == LimiterInit => LimiterInv
<1> SUFFICES ASSUME LimiterInit PROVE LimiterInv
  OBVIOUS
<1>1. Limit \in Nat /\ PerPeriod \in Nat /\ MaxTime \in Nat /\ Period \in Nat \ {0} /\ 0 \in Times
  BY LimiterAssumption DEF LimiterAssumption, Times
<1>2. LimiterType
  BY <1>1 DEF LimiterInit, LimiterType
<1>3. WindowInv
  BY <1>1 DEF LimiterInit, WindowInv, GrantedBefore, Times
<1>4. BucketInv
  <2>1. 0 \div Period = 0
    BY <1>1
  <2>2. \A s, t \in Times : s <= t /\ t <= now => s = 0 /\ t = 0
    BY <1>1 DEF LimiterInit, Times
  <2>3. Tokens = Limit
    BY <1>1, <2>1 DEF LimiterInit, Tokens
  <2>4. granted[0] = 0 /\ GrantedBefore(0) = 0 /\ now = 0
    BY <1>1 DEF LimiterInit, GrantedBefore
  <2>5. mark = Period * (mark \div Period)
    BY <1>1, <2>1 DEF LimiterInit
  <2> QED BY <1>1, <2>1, <2>2, <2>3, <2>4, <2>5 DEF BucketInv
<1> QED BY <1>2, <1>3, <1>4 DEF LimiterInv

\* The clock: no grant is in the time it comes to.
LEMMA LimiterTick ==
  ASSUME LimiterInv, Tick
  PROVE  LimiterInv'
<1>1. /\ Limit \in Nat /\ PerPeriod \in Nat /\ MaxTime \in Nat /\ Period \in Nat \ {0}
      /\ now' = now + 1 /\ now \in Nat /\ now' \in Times /\ UNCHANGED <<kind, available, mark, granted>>
      /\ Times \subseteq Nat /\ LimiterType
  BY LimiterAssumption DEF LimiterAssumption, Times, Tick, LimiterInv, LimiterType
<1>2. LimiterType' /\ granted[now'] = granted[now]
  BY <1>1 DEF LimiterType
<1>3. \A s : GrantedBefore(s)' = GrantedBefore(s)
  BY <1>1 DEF GrantedBefore
<1>4. \A s \in Times : s = now' => GrantedBefore(s) = granted[now]
  BY <1>1 DEF GrantedBefore
<1>5. \A s \in Times : GrantedBefore(s) \in Nat
  BY <1>1 DEF GrantedBefore, LimiterType, Times
<1>6. ASSUME kind = "window" PROVE WindowInv'
  <2>1. WindowInv
    BY <1>6 DEF LimiterInv
  <2>2. ASSUME NEW s \in Times, s <= now', now' - s < Period
        PROVE  granted[now'] - GrantedBefore(s) <= 2 * Limit
    BY <1>1, <1>2, <1>4, <2>1, <2>2 DEF WindowInv, LimiterType
  <2>3. \A t \in Times : t <= now' => t <= now \/ t = now'
    BY <1>1
  <2> QED BY <1>1, <1>2, <1>3, <2>1, <2>2, <2>3 DEF WindowInv
<1>7. ASSUME kind = "bucket" PROVE BucketInv'
  <2>1. BucketInv
    BY <1>7 DEF LimiterInv
  <2> DEFINE d == (now' \div Period) - (now \div Period)
  <2>2. d \in {0, 1} /\ now \div Period \in Nat /\ now' \div Period \in Nat /\ mark \in Nat /\ mark \div Period \in Nat
    BY <1>1, Division DEF LimiterType
  <2>3. /\ Tokens' <= Tokens + PerPeriod * d /\ Tokens' <= Limit
        /\ Tokens \in Int /\ Tokens' \in Int
    <3>1. PerPeriod * ((now' \div Period) - (mark \div Period))
            = PerPeriod * ((now \div Period) - (mark \div Period)) + PerPeriod * d
      BY <1>1, <2>2
    <3>2. PerPeriod * d \in Nat /\ PerPeriod * ((now \div Period) - (mark \div Period)) \in Int /\ available \in Int
      BY <1>1, <2>2 DEF LimiterType
    <3> HIDE DEF d
    <3> QED BY <1>1, <3>1, <3>2 DEF Tokens
  <2>4. ASSUME NEW s \in Times, NEW t \in Times, s <= t, t <= now'
        PROVE  granted[t] - GrantedBefore(s) + (IF t = now' THEN Tokens' ELSE 0)
                 <= Limit + PerPeriod * ((t \div Period) - (s \div Period))
    <3>1. s \div Period \in Nat /\ t \div Period \in Nat /\ s \div Period <= t \div Period /\ granted[t] \in Nat
      BY <1>1, <2>4, Division DEF LimiterType
    <3>2. CASE t <= now
      <4>1. granted[t] - GrantedBefore(s) + (IF t = now THEN Tokens ELSE 0)
              <= Limit + PerPeriod * ((t \div Period) - (s \div Period))
        BY <2>1, <2>4, <3>2 DEF BucketInv
      <4>2. t # now' /\ Tokens >= 0
        BY <1>1, <1>7, <2>2, <3>2 DEF Tokens, LimiterType
      <4> QED BY <1>1, <1>5, <2>3, <3>1, <4>1, <4>2
    <3>3. CASE t = now' /\ s <= now
      <4>1. granted[now] - GrantedBefore(s) + Tokens <= Limit + PerPeriod * ((now \div Period) - (s \div Period))
        <5>1. now \in Times /\ now <= now
          BY <1>1 DEF LimiterType
        <5> HIDE DEF d
        <5> QED BY <2>1, <3>3, <5>1 DEF BucketInv
      <4>2. PerPeriod * ((now' \div Period) - (s \div Period))
              = PerPeriod * ((now \div Period) - (s \div Period)) + PerPeriod * d
        BY <1>1, <2>2, <3>1
      <4>3. PerPeriod * ((now \div Period) - (s \div Period)) \in Int /\ PerPeriod * d \in Int
        BY <1>1, <2>2, <3>1
      <4> HIDE DEF d
      <4> QED BY <1>1, <1>2, <1>5, <2>3, <3>1, <3>3, <4>1, <4>2, <4>3
    <3>4. CASE t = now' /\ s = now'
      BY <1>1, <1>2, <1>4, <2>2, <2>3, <3>1, <3>4
    <3> QED BY <1>1, <2>4, <3>2, <3>3, <3>4
  <2> QED BY <1>1, <1>3, <2>1, <2>4 DEF BucketInv
<1> QED BY <1>1, <1>2, <1>6, <1>7 DEF LimiterInv

\* Disposal gives nothing back but to the concurrency limiter.
LEMMA LimiterDispose ==
  ASSUME LimiterInv, NEW cost \in Nat, Dispose(cost)
  PROVE  LimiterInv'
<1>1. CASE kind = "concurrency"
  BY <1>1 DEF LimiterInv, LimiterType, Dispose
<1>2. CASE kind # "concurrency"
  <2>1. UNCHANGED limiterVars
    BY <1>2 DEF Dispose, limiterVars
  <2> QED BY <2>1 DEF limiterVars, LimiterInv, LimiterType, WindowInv, BucketInv, Tokens, GrantedBefore
<1> QED BY <1>1, <1>2

\* What a window or a bucket grants: g permits at this time, out of those it has
\* once it is replenished.
LimiterGrants(g) ==
  /\ g \in 0 .. Replenished.available
  /\ mark' = Replenished.mark /\ available' = Replenished.available - g
  /\ granted' = [t \in Times |-> IF t < now THEN granted[t] ELSE granted[t] + g]
  /\ UNCHANGED <<now, kind>>

LEMMA GrantedAfter ==
  ASSUME LimiterType, NEW g \in Nat, UNCHANGED now,
         granted' = [t \in Times |-> IF t < now THEN granted[t] ELSE granted[t] + g]
  PROVE  /\ granted' \in [Times -> Nat]
         /\ \A s, t \in Times : s <= t => granted'[s] <= granted'[t]
         /\ \A t \in Times : t >= now => granted'[t] = granted[now] + g
         /\ \A t \in Times : t < now => granted'[t] = granted[t]
         /\ \A s \in Times : s <= now => GrantedBefore(s)' = GrantedBefore(s)
         /\ \A s \in Times : GrantedBefore(s) \in Nat /\ GrantedBefore(s) <= granted[s] /\ s \in Nat
         /\ \A s, t \in Times : s <= t => GrantedBefore(s) <= GrantedBefore(t)
         /\ \A s, t \in Times : s < t => granted[s] <= GrantedBefore(t)
         /\ now \in Times /\ now \in Nat
<1>1. Times \subseteq Nat /\ now \in Times /\ \A s \in Times : s # 0 => s - 1 \in Times
  BY LimiterAssumption DEF LimiterAssumption, LimiterType, Times
<1>2. /\ granted' \in [Times -> Nat]
      /\ \A t \in Times : t >= now => granted'[t] = granted[now] + g
      /\ \A t \in Times : t < now => granted'[t] = granted[t]
  BY <1>1 DEF LimiterType
<1>3. \A s, t \in Times : s <= t => granted'[s] <= granted'[t]
  BY <1>1, <1>2 DEF LimiterType
<1>4. \A s \in Times : s <= now => GrantedBefore(s)' = GrantedBefore(s)
  BY <1>1, <1>2 DEF GrantedBefore
<1>5. \A s \in Times : GrantedBefore(s) \in Nat /\ GrantedBefore(s) <= granted[s] /\ s \in Nat
  BY <1>1 DEF GrantedBefore, LimiterType
<1>6. \A s, t \in Times : s <= t => GrantedBefore(s) <= GrantedBefore(t)
  BY <1>1 DEF GrantedBefore, LimiterType
<1>7. \A s, t \in Times : s < t => granted[s] <= GrantedBefore(t)
  BY <1>1 DEF GrantedBefore, LimiterType
<1> QED BY <1>1, <1>2, <1>3, <1>4, <1>5, <1>6, <1>7

LEMMA WindowGrants ==
  ASSUME LimiterInv, kind = "window", NEW g, LimiterGrants(g)
  PROVE  LimiterInv'
<1>1. /\ Limit \in Nat /\ Period \in Nat \ {0} /\ Times \subseteq Nat
      /\ LimiterType /\ WindowInv /\ mark \in Times /\ mark \in Nat /\ mark <= now /\ available \in 0 .. Limit
      /\ UNCHANGED <<now, kind>>
  BY LimiterAssumption DEF LimiterAssumption, Times, LimiterInv, LimiterType, LimiterGrants
<1>2. CASE now - mark >= Period
  <2>1. /\ Replenished.available = Limit /\ Replenished.mark = now
        /\ g \in Nat /\ g <= Limit /\ mark' = now /\ available' = Limit - g
    BY <1>1, <1>2 DEF Replenished, LimiterGrants
  <2>2. granted' = [t \in Times |-> IF t < now THEN granted[t] ELSE granted[t] + g]
    BY DEF LimiterGrants
  <2>3. /\ granted' \in [Times -> Nat]
        /\ \A s, t \in Times : s <= t => granted'[s] <= granted'[t]
        /\ \A t \in Times : t >= now => granted'[t] = granted[now] + g
        /\ \A t \in Times : t < now => granted'[t] = granted[t]
        /\ \A s \in Times : s <= now => GrantedBefore(s)' = GrantedBefore(s)
        /\ \A s \in Times : GrantedBefore(s) \in Nat /\ GrantedBefore(s) <= granted[s] /\ s \in Nat
        /\ \A s, t \in Times : s <= t => GrantedBefore(s) <= GrantedBefore(t)
        /\ \A s, t \in Times : s < t => granted[s] <= GrantedBefore(t)
        /\ now \in Times /\ now \in Nat
    BY <1>1, <2>1, <2>2, GrantedAfter
  <2>4. LimiterType'
    BY <1>1, <2>1, <2>3 DEF LimiterType
  <2>5. GrantedBefore(now) = granted[now]
    <3>1. now # 0 /\ now - 1 \in Times /\ now - 1 >= mark + Period - 1
      BY <1>1, <1>2, <2>3, LimiterAssumption DEF LimiterAssumption, Times
    <3>2. granted[now - 1] = granted[now]
      BY <1>1, <3>1 DEF WindowInv
    <3> QED BY <3>1, <3>2 DEF GrantedBefore
  <2>6. ASSUME NEW s \in Times, s < now, now - s < Period PROVE GrantedBefore(now) - GrantedBefore(s) <= Limit
    <3>1. mark < s
      BY <1>1, <1>2, <2>3, <2>6
    <3>2. GrantedBefore(mark) <= GrantedBefore(s)
      BY <1>1, <2>3, <3>1
    <3>3. granted[now] - GrantedBefore(mark) <= Limit
      BY <1>1 DEF WindowInv
    <3> QED BY <1>1, <2>3, <2>5, <3>2, <3>3 DEF LimiterType
  <2>7. ASSUME NEW s \in Times, NEW t \in Times, s <= t, t <= now, t - s < Period
        PROVE  granted'[t] - GrantedBefore(s) <= 2 * Limit
    <3>1. CASE t < now
      BY <1>1, <2>3, <2>7, <3>1 DEF WindowInv
    <3>2. CASE t = now /\ s < now
      <4>1. granted[now] - GrantedBefore(s) <= Limit
        BY <2>5, <2>6, <2>7, <3>2
      <4> QED BY <1>1, <2>1, <2>3, <3>2, <4>1 DEF LimiterType
    <3>3. CASE t = now /\ s = now
      BY <1>1, <2>1, <2>3, <2>5, <3>3 DEF LimiterType
    <3> QED BY <2>3, <2>7, <3>1, <3>2, <3>3
  <2>8. granted'[now] - GrantedBefore(now) = Limit - available'
    BY <1>1, <2>1, <2>3, <2>5 DEF LimiterType
  <2>9. \A t \in Times : t >= now + Period - 1 => granted'[t] = granted'[now]
    BY <1>1, <2>3
  <2>10. WindowInv'
    BY <1>1, <2>1, <2>3, <2>6, <2>7, <2>8, <2>9 DEF WindowInv
  <2> QED BY <1>1, <2>4, <2>10 DEF LimiterInv
<1>3. CASE now - mark < Period
  <2>1. /\ Replenished.available = available /\ Replenished.mark = mark
        /\ g \in Nat /\ g <= available /\ mark' = mark /\ available' = available - g
    BY <1>1, <1>3 DEF Replenished, LimiterGrants, LimiterType
  <2>2. granted' = [t \in Times |-> IF t < now THEN granted[t] ELSE granted[t] + g]
    BY DEF LimiterGrants
  <2>3. /\ granted' \in [Times -> Nat]
        /\ \A s, t \in Times : s <= t => granted'[s] <= granted'[t]
        /\ \A t \in Times : t >= now => granted'[t] = granted[now] + g
        /\ \A t \in Times : t < now => granted'[t] = granted[t]
        /\ \A s \in Times : s <= now => GrantedBefore(s)' = GrantedBefore(s)
        /\ \A s \in Times : GrantedBefore(s) \in Nat /\ GrantedBefore(s) <= granted[s] /\ s \in Nat
        /\ \A s, t \in Times : s <= t => GrantedBefore(s) <= GrantedBefore(t)
        /\ \A s, t \in Times : s < t => granted[s] <= GrantedBefore(t)
        /\ now \in Times /\ now \in Nat
    BY <1>1, <2>1, <2>2, GrantedAfter
  <2>4. LimiterType'
    BY <1>1, <2>1, <2>3 DEF LimiterType
  <2>5. granted'[now] - GrantedBefore(mark) = Limit - available'
    BY <1>1, <2>1, <2>3 DEF WindowInv, LimiterType
  <2>6. ASSUME NEW s \in Times, NEW t \in Times, s <= t, t <= now, t - s < Period
        PROVE  granted'[t] - GrantedBefore(s) <= 2 * Limit
    <3>1. CASE t < now
      BY <1>1, <2>3, <2>6, <3>1 DEF WindowInv
    <3>2. CASE t = now /\ s >= mark
      <4>1. GrantedBefore(mark) <= GrantedBefore(s)
        BY <1>1, <2>3, <3>2
      <4> QED BY <1>1, <2>1, <2>3, <2>5, <3>2, <4>1
    <3>3. CASE t = now /\ s < mark
      <4>1. GrantedBefore(mark) - GrantedBefore(s) <= Limit
        BY <1>1, <2>3, <2>6, <3>3 DEF WindowInv
      <4> QED BY <1>1, <2>1, <2>3, <2>5, <3>3, <4>1
    <3> QED BY <1>1, <2>3, <2>6, <3>1, <3>2, <3>3
  <2>7. \A t \in Times : t >= mark + Period - 1 => granted'[t] = granted'[now]
    BY <1>1, <1>3, <2>3
  <2>8. \A s \in Times : s < mark /\ mark - s < Period => GrantedBefore(mark) - GrantedBefore(s) <= Limit
    BY <1>1 DEF WindowInv
  <2>9. WindowInv'
    BY <1>1, <2>1, <2>3, <2>5, <2>6, <2>7, <2>8 DEF WindowInv
  <2> QED BY <1>1, <2>4, <2>9 DEF LimiterInv
<1>4. now \in Int /\ mark \in Int
  BY <1>1 DEF LimiterType, Times
<1> QED BY <1>1, <1>2, <1>3, <1>4

LEMMA BucketGrants ==
  ASSUME LimiterInv, kind = "bucket", NEW g, LimiterGrants(g)
  PROVE  LimiterInv'
<1>1. /\ Limit \in Nat /\ PerPeriod \in Nat /\ Period \in Nat \ {0} /\ Times \subseteq Nat
      /\ LimiterType /\ BucketInv /\ now \in Times /\ now \in Nat /\ mark \in Nat /\ mark <= now /\ available \in 0 .. Limit
      /\ UNCHANGED <<now, kind>>
  BY LimiterAssumption DEF LimiterAssumption, Times, LimiterInv, LimiterType, LimiterGrants
<1> DEFINE k == mark \div Period
           q == now \div Period
<1>2. k \in Nat /\ q \in Nat /\ mark = Period * k /\ k <= q
  BY <1>1, Division DEF BucketInv
<1>3. (now - mark) \div Period = q - k
  BY <1>1, <1>2, Division
<1>4. mark + (q - k) * Period = Period * q /\ (Period * q) \div Period = q /\ Period * q <= now
  BY <1>1, <1>2, Division
<1>5. Tokens \in Int /\ Tokens <= Limit /\ Tokens >= 0
  <2>1. PerPeriod * (q - k) \in Nat
    BY <1>1, <1>2
  <2> QED BY <1>1, <2>1 DEF Tokens
<1>6. Replenished.available = Tokens /\ Replenished.mark = Period * q
  <2>1. (q - k) * PerPeriod = PerPeriod * (q - k)
    BY <1>1, <1>2
  <2> QED BY <1>3, <1>4, <2>1 DEF Replenished, Tokens
<1>7. g \in Nat /\ g <= Tokens /\ mark' = Period * q /\ available' = Tokens - g /\ mark' \div Period = q
  BY <1>4, <1>5, <1>6 DEF LimiterGrants
<1>8. Tokens' = Tokens - g
  <2>1. PerPeriod * (q - q) = 0
    BY <1>1, <1>2
  <2> QED BY <1>1, <1>5, <1>7, <2>1 DEF Tokens
<1>9. granted' = [t \in Times |-> IF t < now THEN granted[t] ELSE granted[t] + g]
  BY DEF LimiterGrants
<1>10. /\ granted' \in [Times -> Nat]
       /\ \A s, t \in Times : s <= t => granted'[s] <= granted'[t]
       /\ \A t \in Times : t >= now => granted'[t] = granted[now] + g
       /\ \A t \in Times : t < now => granted'[t] = granted[t]
       /\ \A s \in Times : s <= now => GrantedBefore(s)' = GrantedBefore(s)
       /\ \A s \in Times : GrantedBefore(s) \in Nat /\ s \in Nat
  BY <1>1, <1>7, <1>9, GrantedAfter
<1>11. LimiterType'
  BY <1>1, <1>2, <1>4, <1>5, <1>7, <1>10 DEF LimiterType
<1>12. ASSUME NEW s \in Times, NEW t \in Times, s <= t, t <= now
       PROVE  granted'[t] - GrantedBefore(s)' + (IF t = now THEN Tokens' ELSE 0)
                <= Limit + PerPeriod * ((t \div Period) - (s \div Period))
  <2>1. granted[t] - GrantedBefore(s) + (IF t = now THEN Tokens ELSE 0)
          <= Limit + PerPeriod * ((t \div Period) - (s \div Period))
    BY <1>1, <1>12 DEF BucketInv
  <2>2. GrantedBefore(s)' = GrantedBefore(s) /\ GrantedBefore(s) \in Nat /\ granted[t] \in Nat /\ granted[now] \in Nat /\ t \in Nat
    BY <1>1, <1>10, <1>12 DEF LimiterType
  <2>3. CASE t < now
    <3>1. granted'[t] = granted[t]
      BY <1>10, <2>3
    <3> QED BY <1>1, <2>1, <2>2, <2>3, <3>1
  <2>4. CASE t = now
    <3>1. granted'[t] + Tokens' = granted[t] + Tokens
      BY <1>1, <1>5, <1>7, <1>8, <1>10, <2>2, <2>4
    <3>2. granted'[t] \in Nat /\ Tokens' \in Int
      BY <1>5, <1>7, <1>8, <1>10
    <3>3. granted'[t] - GrantedBefore(s) + Tokens' = granted[t] - GrantedBefore(s) + Tokens
      BY <1>5, <2>2, <3>1, <3>2
    <3> QED BY <2>1, <2>2, <2>4, <3>3
  <2> QED BY <1>1, <1>12, <2>2, <2>3, <2>4
<1>13. BucketInv'
  BY <1>1, <1>7, <1>12 DEF BucketInv
<1> QED BY <1>1, <1>11, <1>13 DEF LimiterInv

\* A request for permits, granted or refused.
LEMMA LimiterAcquire ==
  ASSUME LimiterInv, NEW cost \in Nat, Acquire(cost)
  PROVE  LimiterInv'
<1> DEFINE g == IF Grants(cost) THEN cost ELSE 0
<1>1. /\ Limit \in Nat /\ PerPeriod \in Nat /\ Period \in Nat \ {0} /\ LimiterType
      /\ UNCHANGED <<now, kind>> /\ g \in Nat
  BY LimiterAssumption DEF LimiterAssumption, LimiterInv, Acquire
<1>2. granted' = [t \in Times |-> IF t < now THEN granted[t] ELSE granted[t] + g]
  <2>1. CASE Grants(cost)
    BY <2>1 DEF Acquire
  <2>2. CASE ~Grants(cost)
    <3>1. granted' = granted /\ g = 0
      BY <2>2 DEF Acquire
    <3>2. granted = [t \in Times |-> IF t < now THEN granted[t] ELSE granted[t] + 0]
      BY <1>1 DEF LimiterType
    <3> QED BY <3>1, <3>2
  <2> QED BY <2>1, <2>2
<1>3. CASE cost \notin 1 .. Limit
  <2>1. g = 0 /\ UNCHANGED <<mark, available>>
    BY <1>3, <1>1 DEF Acquire, Grants
  <2>2. granted' = granted
    BY <1>1, <1>2, <2>1 DEF LimiterType
  <2> QED BY <1>1, <2>1, <2>2 DEF LimiterInv, LimiterType, WindowInv, BucketInv, Tokens, GrantedBefore
<1>4. CASE cost \in 1 .. Limit
  <2>1. /\ mark' = Replenished.mark /\ available' = Replenished.available - g
        /\ g # 0 => g <= Replenished.available
    BY <1>4 DEF Acquire, Grants
  <2>2. CASE kind = "concurrency"
    <3>1. Replenished.available = available /\ Replenished.mark = mark
      BY <2>2 DEF Replenished
    <3>2. LimiterType'
      BY <1>1, <1>2, <2>1, <2>2, <3>1, GrantedAfter DEF LimiterType
    <3> QED BY <1>1, <2>2, <3>2 DEF LimiterInv
  <2>3. Replenished.available \in Nat /\ kind # "concurrency" => LimiterGrants(g)
    <3> HIDE DEF g
    <3> QED BY <1>1, <1>2, <2>1 DEF LimiterGrants
  <2>4. CASE kind = "window"
    <3>1. Replenished.available \in Nat
      BY <1>1, <2>4 DEF Replenished, LimiterType
    <3> QED BY <2>3, <2>4, <3>1, WindowGrants
  <2>5. CASE kind = "bucket"
    <3>1. Replenished.available \in Nat
      <4>1. now - mark \in Nat
        BY <1>1 DEF LimiterType, Times
      <4>2. ((now - mark) \div Period) * PerPeriod \in Nat
        BY <1>1, <4>1, Division
      <4> QED BY <1>1, <2>5, <4>2 DEF Replenished, LimiterType
    <3> QED BY <2>3, <2>5, <3>1, BucketGrants
  <2> QED BY <1>1, <2>2, <2>4, <2>5 DEF LimiterType, Kinds
<1> QED BY <1>3, <1>4

-----------------------------------------------------------------------------
(* The permits held by a set of tasks: FoldSet is a sum over it.           *)

LEMMA TaskCosts == IsFiniteSet(Tasks) /\ \A t \in Tasks : Cost(t[1]) \in Nat
<1>1. MessageCount \in Nat /\ MaxBatches \in Nat /\ \A m \in Messages : Cost(m) \in Nat
  BY SqsAssumption DEF SqsAssumption
<1>2. IsFiniteSet(Messages) /\ IsFiniteSet(Batches)
  BY <1>1, FS_Interval DEF Messages, Batches
<1>3. IsFiniteSet(Tasks)
  BY <1>2, FS_Product DEF Tasks
<1> QED BY <1>1, <1>3, TaskParts

\* The permits held by a set of tasks, as RateBounded counts them.
Held(S) == FoldSet(LAMBDA t, sum : Cost(t[1]) + sum, 0, S)

Pick(S) == CHOOSE x \in S : TRUE
Folds(g, S) ==
  g = [s \in SUBSET S |-> IF s = {} THEN 0 ELSE Cost(Pick(s)[1]) + g[s \ {Pick(s)}]]

LEMMA HeldIs == \A S : Held(S) = (CHOOSE g : Folds(g, S))[S]
BY Zenon DEF Held, FoldSet, MapThenFoldSet, Folds, Pick

LEMMA FoldsApply ==
  ASSUME NEW S, NEW g, Folds(g, S), NEW s \in SUBSET S
  PROVE  /\ s = {} => g[s] = 0
         /\ s # {} => /\ g[s] = Cost(Pick(s)[1]) + g[s \ {Pick(s)}]
                      /\ Pick(s) \in s /\ s \ {Pick(s)} \in SUBSET S
<1>1. g[s] = IF s = {} THEN 0 ELSE Cost(Pick(s)[1]) + g[s \ {Pick(s)}]
  BY Zenon DEF Folds
<1>2. s # {} => Pick(s) \in s
  BY Zenon DEF Pick
<1> QED BY <1>1, <1>2

LEMMA FewerTasks ==
  ASSUME NEW s \in SUBSET Tasks
  PROVE  /\ IsFiniteSet(s) /\ Cardinality(s) \in Nat
         /\ \A x \in s : Cardinality(s \ {x}) < Cardinality(s) /\ Cardinality(s \ {x}) \in Nat
<1>1. IsFiniteSet(s) /\ Cardinality(s) \in Nat
  BY TaskCosts, FS_Subset, FS_CardinalityType
<1>2. ASSUME NEW x \in s PROVE Cardinality(s \ {x}) < Cardinality(s) /\ Cardinality(s \ {x}) \in Nat
  <2>1. IsFiniteSet(s \ {x}) /\ Cardinality(s \ {x}) = Cardinality(s) - 1
    BY <1>1, FS_RemoveElement
  <2>2. Cardinality(s \ {x}) \in Nat
    BY <2>1, FS_CardinalityType
  <2> QED BY <1>1, <2>1, <2>2
<1> QED BY <1>1, <1>2

LEMMA FoldsUnique ==
  ASSUME NEW S \in SUBSET Tasks, NEW T \in SUBSET Tasks, NEW g, Folds(g, S), NEW h, Folds(h, T),
         NEW U \in SUBSET (S \cap T)
  PROVE  g[U] = h[U]
<1> DEFINE Bad == {s \in SUBSET (S \cap T) : g[s] # h[s]}
           I == {Cardinality(s) : s \in Bad}
<1> SUFFICES ASSUME U \in Bad PROVE FALSE
  OBVIOUS
<1>0. Bad \subseteq SUBSET Tasks
  OBVIOUS
<1>1. I \subseteq Nat /\ I # {}
  <2> HIDE DEF Bad
  <2> QED BY <1>0, FewerTasks
<1>2. PICK n \in I : \A k \in I : n <= k
  BY <1>1, Least, Zenon
<1>3. PICK s \in Bad : Cardinality(s) = n
  BY <1>2
<1>4. s # {}
  BY <1>3, FoldsApply
<1>5. /\ g[s] = Cost(Pick(s)[1]) + g[s \ {Pick(s)}] /\ h[s] = Cost(Pick(s)[1]) + h[s \ {Pick(s)}]
      /\ Pick(s) \in s /\ s \ {Pick(s)} \in SUBSET (S \cap T)
  <2>1. s \in SUBSET S /\ s \in SUBSET T /\ s # {} /\ Folds(g, S) /\ Folds(h, T)
    BY <1>3, <1>4
  <2>2. g[s] = Cost(Pick(s)[1]) + g[s \ {Pick(s)}] /\ Pick(s) \in s
    BY <2>1, FoldsApply
  <2>3. h[s] = Cost(Pick(s)[1]) + h[s \ {Pick(s)}]
    BY <2>1, FoldsApply
  <2> QED BY <2>1, <2>2, <2>3
<1>6. Cardinality(s \ {Pick(s)}) < n /\ Cardinality(s \ {Pick(s)}) \in Nat /\ n \in Nat
  BY <1>1, <1>3, <1>5, FewerTasks
<1>7. s \ {Pick(s)} \notin Bad
  <2> SUFFICES ASSUME s \ {Pick(s)} \in Bad PROVE FALSE
    OBVIOUS
  <2>1. Cardinality(s \ {Pick(s)}) \in I
    OBVIOUS
  <2>2. n <= Cardinality(s \ {Pick(s)})
    BY <1>2, <2>1
  <2> QED BY <1>6, <2>2
<1>8. g[s \ {Pick(s)}] = h[s \ {Pick(s)}]
  BY <1>5, <1>7
<1> QED BY <1>3, <1>5, <1>8

LEMMA FoldsExist == \A S \in SUBSET Tasks : \E g : Folds(g, S)
<1> DEFINE Bad == {S \in SUBSET Tasks : ~\E g : Folds(g, S)}
           I == {Cardinality(S) : S \in Bad}
           V(U) == (CHOOSE h : Folds(h, U))[U]
<1> SUFFICES ASSUME Bad # {} PROVE FALSE
  OBVIOUS
<1>1. I \subseteq Nat /\ I # {}
  BY FewerTasks
<1>2. PICK n \in I : \A k \in I : n <= k
  BY <1>1, Least, Zenon
<1>3. PICK S \in Bad : Cardinality(S) = n
  BY <1>2
<1> DEFINE g == [T \in SUBSET S |-> IF T = {} THEN 0 ELSE Cost(Pick(T)[1]) + V(T \ {Pick(T)})]
<1>4. ASSUME NEW T \in SUBSET S, T # {}
      PROVE  g[T \ {Pick(T)}] = V(T \ {Pick(T)})
  <2> DEFINE U == T \ {Pick(T)}
             h == CHOOSE h : Folds(h, U)
  <2>1. Pick(T) \in T
    BY <1>4, Zenon DEF Pick
  <2>2. U \in SUBSET Tasks /\ U \in SUBSET S /\ U # S /\ S \in SUBSET Tasks
    BY <2>1
  <2>3. Cardinality(U) < n
    <3>1. PICK y \in S : y \notin U
      BY <2>1
    <3>2. U \in SUBSET (S \ {y}) /\ IsFiniteSet(S \ {y})
      BY <2>2, <3>1, FewerTasks
    <3>3. Cardinality(U) <= Cardinality(S \ {y})
      BY <3>2, FS_Subset
    <3>4. Cardinality(S \ {y}) < n /\ Cardinality(S \ {y}) \in Nat /\ Cardinality(U) \in Nat /\ n \in Nat
      BY <1>1, <1>3, <2>2, <3>1, FewerTasks
    <3> QED BY <3>3, <3>4
  <2>4. U \notin Bad
    <3> SUFFICES ASSUME U \in Bad PROVE FALSE
      OBVIOUS
    <3>1. Cardinality(U) \in I
      OBVIOUS
    <3>2. n <= Cardinality(U) /\ Cardinality(U) \in Nat /\ n \in Nat
      BY <1>1, <1>2, <3>1
    <3> HIDE DEF U
    <3> QED BY <2>3, <3>2
  <2>5. \E k : Folds(k, U)
    BY <2>2, <2>4
  <2>6. Folds(h, U)
    BY <2>5, Zenon
  <2>7. V(U) = h[U]
    OBVIOUS
  <2>8. g[U] = IF U = {} THEN 0 ELSE Cost(Pick(U)[1]) + V(U \ {Pick(U)})
    BY <2>2, Zenon
  <2> HIDE DEF g, V, h
  <2>9. CASE U = {}
    BY <2>6, <2>7, <2>8, <2>9, FoldsApply
  <2>10. CASE U # {}
    <3> DEFINE W == U \ {Pick(U)}
    <3>1. h[U] = Cost(Pick(U)[1]) + h[W] /\ Pick(U) \in U
      <4> HIDE DEF U
      <4>1. h[U] = Cost(Pick(U)[1]) + h[U \ {Pick(U)}] /\ Pick(U) \in U
        BY <2>6, <2>10, FoldsApply
      <4> QED BY <4>1
    <3>2. W \in SUBSET Tasks /\ W \in SUBSET U
      BY <2>2
    <3>3. \E k : Folds(k, W)
      <4> SUFFICES ASSUME W \in Bad PROVE FALSE
        BY <3>2
      <4>1. Cardinality(W) \in I
        OBVIOUS
      <4>2. n <= Cardinality(W) /\ Cardinality(W) \in Nat /\ n \in Nat
        BY <1>1, <1>2, <4>1
      <4>3. Cardinality(W) < Cardinality(U) /\ Cardinality(U) \in Nat
        <5> HIDE DEF U
        <5> QED BY <2>2, <3>1, FewerTasks
      <4> HIDE DEF W, U
      <4> QED BY <2>3, <4>2, <4>3
    <3>4. Folds(CHOOSE k : Folds(k, W), W)
      BY <3>3, Zenon
    <3>5. V(W) = h[W]
      BY <2>2, <2>6, <3>2, <3>4, FoldsUnique DEF V
    <3> QED BY <2>7, <2>8, <2>10, <3>1, <3>5
  <2> QED BY <2>9, <2>10 DEF U
<1>5. Folds(g, S)
  <2>1. \A T \in SUBSET S : (IF T = {} THEN 0 ELSE Cost(Pick(T)[1]) + V(T \ {Pick(T)}))
                          = (IF T = {} THEN 0 ELSE Cost(Pick(T)[1]) + g[T \ {Pick(T)}])
    <3> HIDE DEF V, g
    <3> QED BY <1>4
  <2> HIDE DEF V
  <2> QED BY <2>1, Zenon DEF Folds
<1> QED BY <1>3, <1>5

LEMMA HeldPick ==
  ASSUME NEW S \in SUBSET Tasks
  PROVE  /\ S = {} => Held(S) = 0
         /\ S # {} => /\ Held(S) = Cost(Pick(S)[1]) + Held(S \ {Pick(S)})
                      /\ Pick(S) \in S
<1> DEFINE g == CHOOSE g : Folds(g, S)
           U == S \ {Pick(S)}
           h == CHOOSE h : Folds(h, U)
<1>1. Folds(g, S)
  BY FoldsExist, Zenon
<1>2. U \in SUBSET Tasks /\ U \in SUBSET S
  OBVIOUS
<1>3. Folds(h, U)
  BY <1>2, FoldsExist, Zenon
<1>4. Held(S) = g[S] /\ Held(U) = h[U]
  BY HeldIs
<1> HIDE DEF g, h
<1>5. g[U] = h[U]
  BY <1>1, <1>2, <1>3, FoldsUnique
<1> QED BY <1>1, <1>4, <1>5, FoldsApply

LEMMA Swapped ==
  ASSUME NEW a, NEW b, NEW c, NEW z \in Nat, NEW i \in Nat, NEW j \in Nat, a = i + b, b = j + z, c = i + z
  PROVE  a = j + c
OBVIOUS

\* It is a sum: any of the tasks can be taken from it.
LEMMA HeldSum ==
  ASSUME NEW S \in SUBSET Tasks
  PROVE  Held(S) \in Nat /\ \A x \in S : Held(S) = Cost(x[1]) + Held(S \ {x})
<1> DEFINE Good(T) == Held(T) \in Nat /\ \A x \in T : Held(T) = Cost(x[1]) + Held(T \ {x})
           Bad == {T \in SUBSET Tasks : ~Good(T)}
           I == {Cardinality(T) : T \in Bad}
<1> SUFFICES ASSUME S \in Bad PROVE FALSE
  OBVIOUS
<1>1. I \subseteq Nat /\ I # {}
  BY FewerTasks
<1>2. PICK n \in I : \A k \in I : n <= k
  BY <1>1, Least, Zenon
<1>3. PICK T \in Bad : Cardinality(T) = n
  BY <1>2
<1>4. ASSUME NEW x \in T PROVE T \ {x} \in SUBSET Tasks /\ Good(T \ {x})
  <2>1. Cardinality(T \ {x}) < n /\ Cardinality(T \ {x}) \in Nat /\ n \in Nat
    BY <1>1, <1>3, FewerTasks
  <2>2. T \ {x} \notin Bad
    <3> SUFFICES ASSUME T \ {x} \in Bad PROVE FALSE
      OBVIOUS
    <3>1. Cardinality(T \ {x}) \in I
      OBVIOUS
    <3>2. n <= Cardinality(T \ {x})
      BY <1>2, <3>1
    <3> QED BY <2>1, <3>2
  <2> QED BY <2>2
<1>5. CASE T = {}
  <2>1. Good(T)
    <3>1. Held(T) = 0
      BY <1>3, <1>5, HeldPick
    <3> QED BY <1>5, <3>1
  <2> QED BY <2>1, <1>3
<1>6. CASE T # {}
  <2> DEFINE p == Pick(T)
  <2>1. p \in T /\ Held(T) = Cost(p[1]) + Held(T \ {p})
    BY <1>6, <1>3, HeldPick
  <2> HIDE DEF p
  <2>2. Held(T \ {p}) \in Nat /\ Cost(p[1]) \in Nat
    BY <1>4, <2>1, TaskCosts
  <2>3. ASSUME NEW x \in T, x # p PROVE Held(T) = Cost(x[1]) + Held(T \ {x})
    <3>1. Held(T \ {p}) = Cost(x[1]) + Held((T \ {p}) \ {x})
      BY <1>4, <2>1, <2>3
    <3>2. Held(T \ {x}) = Cost(p[1]) + Held((T \ {x}) \ {p})
      BY <1>4, <2>1, <2>3
    <3>3. (T \ {p}) \ {x} = (T \ {x}) \ {p} /\ (T \ {p}) \ {x} \in SUBSET Tasks
      OBVIOUS
    <3>4. Held((T \ {p}) \ {x}) \in Nat
      <4>1. Good(T \ {x}) /\ p \in T \ {x} /\ T \ {x} \in SUBSET Tasks /\ Cardinality(T \ {x}) < n /\ Cardinality(T \ {x}) \in Nat
        BY <1>3, <1>4, <2>1, <2>3, FewerTasks
      <4>2. (T \ {x}) \ {p} \notin Bad
        <5> SUFFICES ASSUME (T \ {x}) \ {p} \in Bad PROVE FALSE
          OBVIOUS
        <5>1. Cardinality((T \ {x}) \ {p}) \in I
          OBVIOUS
        <5>2. n <= Cardinality((T \ {x}) \ {p}) /\ n \in Nat
          BY <1>1, <1>2, <5>1
        <5>3. Cardinality((T \ {x}) \ {p}) < Cardinality(T \ {x}) /\ Cardinality((T \ {x}) \ {p}) \in Nat
          BY <4>1, FewerTasks
        <5> QED BY <4>1, <5>2, <5>3
      <4> QED BY <3>3, <4>2
    <3>5. Cost(x[1]) \in Nat
      BY TaskCosts, <1>3
    <3>6. Held(T \ {x}) = Cost(p[1]) + Held((T \ {p}) \ {x})
      BY <3>2, <3>3
    <3> QED BY <2>1, <2>2, <3>1, <3>4, <3>5, <3>6, Swapped
  <2>4. Good(T)
    <3>1. Held(T) \in Nat
      BY <2>1, <2>2
    <3> QED BY <2>1, <2>3, <3>1
  <2> QED BY <1>3, <2>4
<1> QED BY <1>5, <1>6

-----------------------------------------------------------------------------
(* The messages being handled and the limiter.                             *)

Holders == {t \in Tasks : task[t] \in {"running", "delayed"}}

LeaseInv ==
  config.limited /\ kind = "concurrency" =>
    available = Limit - Held(Holders) /\ available >= 0

RateInv == LimiterInv /\ LeaseInv

LEMMA HeldNext == Held(Holders)' = Held(Holders')
BY Zenon DEF Held, FoldSet, MapThenFoldSet

LEMMA RateInit == Init => RateInv
<1> SUFFICES ASSUME Init PROVE RateInv
  OBVIOUS
<1>1. LimiterInv
  BY LimiterStart DEF Init
<1>2. Holders = {}
  BY DEF Init, Holders
<1>3. Held(Holders) = 0
  BY <1>2, HeldPick
<1>4. available = Limit /\ Limit \in Nat
  BY LimiterAssumption DEF LimiterAssumption, Init, LimiterInit
<1>5. LeaseInv
  BY <1>3, <1>4 DEF LeaseInv
<1> QED BY <1>1, <1>5 DEF RateInv

\* A step that leaves the limiter alone and whose tasks hold what they held.
LEMMA RateSame ==
  ASSUME RateInv, UNCHANGED <<config, limiterVars>>, Holders' = Holders
  PROVE  RateInv'
<1>1. LimiterInv'
  BY DEF RateInv, LimiterInv, LimiterType, WindowInv, BucketInv, Tokens, GrantedBefore, limiterVars
<1>2. LeaseInv'
  BY HeldNext DEF RateInv, LeaseInv, limiterVars
<1> QED BY <1>1, <1>2 DEF RateInv

\* A task that ends changes who holds permits by itself alone.
LEMMA ReleasedHolders ==
  ASSUME QueueType, NEW t \in Tasks, NEW end \in Ends, Released(t, end)
  PROVE  Holders' = Holders \ {t}
<1>1. /\ task'[t] = end
      /\ \A x \in Tasks \ {t} : \/ task'[x] = task[x]
                                \/ task[x] = "waiting" /\ task'[x] = "permitted"
  BY ReleasedTasks
<1> QED BY <1>1 DEF Holders, Ends

\* A message asks for its permits and runs, or is refused and ends.
LEMMA StartRate ==
  ASSUME QueueType, RateInv, NEW t \in Tasks, Start(t)
  PROVE  RateInv'
<1>1. /\ task[t] = "permitted" /\ t \notin Holders /\ UNCHANGED config
      /\ Cost(t[1]) \in Nat /\ Holders \in SUBSET Tasks
  BY TaskCosts DEF Start, Holders, consumerVars
<1>2. EndOf("failure") \in Ends
  BY EndOfOutcome DEF Outcomes, MessageResults
<1>3. /\ ~config.limited \/ Grants(Cost(t[1])) => Holders' = Holders \cup {t}
      /\ ~(~config.limited \/ Grants(Cost(t[1]))) => Holders' = Holders
  <2>1. ASSUME task' = [task EXCEPT ![t] = "running"] PROVE Holders' = Holders \cup {t}
    BY <2>1 DEF Holders, QueueType
  <2>2. ASSUME Released(t, EndOf("failure")) PROVE Holders' = Holders
    BY <1>1, <1>2, <2>2, ReleasedHolders
  <2> QED BY <2>1, <2>2 DEF Start
<1>4. CASE ~config.limited
  <2>1. UNCHANGED limiterVars
    BY <1>4 DEF Start
  <2>2. LimiterInv'
    BY <2>1 DEF RateInv, LimiterInv, LimiterType, WindowInv, BucketInv, Tokens, GrantedBefore, limiterVars
  <2> QED BY <1>1, <1>4, <2>2 DEF RateInv, LeaseInv
<1>5. CASE config.limited
  <2>1. Acquire(Cost(t[1]))
    BY <1>5 DEF Start
  <2>2. LimiterInv'
    BY <1>1, <2>1, LimiterAcquire DEF RateInv
  <2>3. LeaseInv'
    <3> SUFFICES ASSUME kind' = "concurrency"
                 PROVE  available' = Limit - Held(Holders') /\ available' >= 0
      BY HeldNext DEF LeaseInv
    <3>1. /\ kind = "concurrency" /\ available = Limit - Held(Holders) /\ available >= 0
          /\ available \in Int /\ Limit \in Nat
      BY <1>1, <1>5, <2>1, LimiterAssumption
      DEF LimiterAssumption, RateInv, LeaseInv, LimiterInv, LimiterType, Acquire
    <3>2. Replenished.available = available
      BY <3>1 DEF Replenished
    <3>3. /\ available' = available - (IF Grants(Cost(t[1])) THEN Cost(t[1]) ELSE 0)
          /\ Grants(Cost(t[1])) => Cost(t[1]) <= available
      BY <1>1, <2>1, <3>1, <3>2 DEF Acquire, Grants
    <3>4. CASE Grants(Cost(t[1]))
      <4>1. Holders' = Holders \cup {t} /\ Holders' \in SUBSET Tasks /\ Holders' \ {t} = Holders
        BY <1>1, <1>3, <3>4
      <4>2. Held(Holders') = Cost(t[1]) + Held(Holders' \ {t})
        BY <4>1, HeldSum
      <4>3. Held(Holders') = Cost(t[1]) + Held(Holders) /\ Held(Holders) \in Nat
        BY <1>1, <4>1, <4>2, HeldSum
      <4> QED BY <1>1, <3>1, <3>3, <3>4, <4>3
    <3>5. CASE ~Grants(Cost(t[1]))
      BY <1>3, <1>5, <3>1, <3>3, <3>5
    <3> QED BY <3>4, <3>5
  <2> QED BY <2>2, <2>3 DEF RateInv
<1> QED BY <1>4, <1>5

\* The handler of a message ends, and its permits are disposed of.
LEMMA HandlerEndsRate ==
  ASSUME QueueType, RateInv, NEW t \in Tasks, NEW outcome \in Outcomes, HandlerEnds(t, outcome)
  PROVE  RateInv'
<1>1. /\ task[t] = "running" /\ t \in Holders /\ UNCHANGED config
      /\ Cost(t[1]) \in Nat /\ Holders \in SUBSET Tasks
  BY TaskCosts DEF HandlerEnds, Holders, consumerVars
<1>2. CASE outcome = "throws" /\ attempt[t] < config.retries
  <2>1. task' = [task EXCEPT ![t] = "delayed"] /\ UNCHANGED limiterVars
    BY <1>2 DEF HandlerEnds
  <2>2. Holders' = Holders
    BY <1>1, <2>1 DEF Holders, QueueType
  <2> QED BY <1>1, <2>1, <2>2, RateSame
<1>3. CASE ~(outcome = "throws" /\ attempt[t] < config.retries)
  <2>1. /\ Released(t, EndOf(outcome)) /\ EndOf(outcome) \in Ends
        /\ IF config.limited THEN Dispose(Cost(t[1])) ELSE UNCHANGED limiterVars
    BY <1>3, EndOfOutcome DEF HandlerEnds
  <2>2. Holders' = Holders \ {t}
    BY <2>1, ReleasedHolders
  <2>3. CASE ~config.limited
    <3>1. LimiterInv'
      BY <2>1, <2>3 DEF RateInv, LimiterInv, LimiterType, WindowInv, BucketInv, Tokens, GrantedBefore, limiterVars
    <3> QED BY <1>1, <2>3, <3>1 DEF RateInv, LeaseInv
  <2>4. CASE config.limited
    <3>1. LimiterInv'
      BY <1>1, <2>1, <2>4, LimiterDispose DEF RateInv
    <3>2. LeaseInv'
      <4> SUFFICES ASSUME kind' = "concurrency"
                   PROVE  available' = Limit - Held(Holders') /\ available' >= 0
        BY HeldNext DEF LeaseInv
      <4>1. /\ kind = "concurrency" /\ available = Limit - Held(Holders) /\ available >= 0
            /\ available' = available + Cost(t[1]) /\ available \in Int /\ Limit \in Nat
        BY <1>1, <2>1, <2>4, LimiterAssumption
        DEF LimiterAssumption, RateInv, LeaseInv, LimiterInv, LimiterType, Dispose
      <4>2. Held(Holders) = Cost(t[1]) + Held(Holders') /\ Holders' \in SUBSET Tasks
        BY <1>1, <2>2, HeldSum
      <4>3. Held(Holders') \in Nat
        BY <4>2, HeldSum
      <4> QED BY <1>1, <4>1, <4>2, <4>3
    <3> QED BY <3>1, <3>2 DEF RateInv
  <2> QED BY <2>3, <2>4
<1> QED BY <1>2, <1>3

LEMMA RateStep == QueueType /\ FanInv /\ RateInv /\ [Next]_vars => RateInv'
<1> SUFFICES ASSUME QueueType, FanInv, RateInv, [Next]_vars PROVE RateInv'
  OBVIOUS
<1>1. CASE LoopSteps \/ ReceiveNothing \/ Abort \/ UNCHANGED vars \/ \E m \in Messages : VisibilityExpires(m)
  <2>1. UNCHANGED <<config, task, limiterVars>>
    BY <1>1 DEF LoopSteps, ReceiveNothing, ReceiveRejects, BatchHandled, BatchThrows, DeleteResolves,
                DeleteRejects, BackoffEnds, Abort, VisibilityExpires, vars, consumerVars, taskVars
  <2> QED BY <2>1, RateSame DEF Holders
<1>2. CASE Receive
  <2>1. PICK ms \in SUBSET {m \in Messages : place[m] = "visible"} : FanOut(ms)
    BY <1>2 DEF Receive
  <2>2. UNCHANGED <<config, limiterVars>> /\ pc = "polling"
    BY <1>2 DEF Receive
  <2>3. \A t \in Tasks : t[2] = batch' => task[t] = "none"
    BY <1>2, BatchTypes, TaskParts DEF Receive, FanInv
  <2>4. Holders' = Holders
    BY <2>1, <2>3 DEF FanOut, Holders
  <2> QED BY <2>2, <2>4, RateSame
<1>3. CASE ClockTicks
  <2>1. Tick /\ kind # "concurrency" /\ UNCHANGED <<kind, config>>
    BY <1>3 DEF ClockTicks, Tick, consumerVars
  <2> QED BY <2>1, LimiterTick DEF RateInv, LeaseInv
<1>4. ASSUME NEW t \in Tasks, RetryDelayEnds(t) PROVE RateInv'
  <2>1. /\ task[t] = "delayed" /\ task' = [task EXCEPT ![t] = "running"]
        /\ UNCHANGED <<config, limiterVars>>
    BY <1>4 DEF RetryDelayEnds, consumerVars
  <2>2. Holders' = Holders
    BY <2>1 DEF Holders, QueueType
  <2> QED BY <2>1, <2>2, RateSame
<1> QED
  BY <1>1, <1>2, <1>3, <1>4, StartRate, HandlerEndsRate DEF Next, TaskSteps

\* In every span of time a limiter grants what its kind promises at most: two
\* windows' limit within a period, a full bucket and what the periods brought;
\* and the messages being handled hold what the concurrency limiter lacks.
THEOREM SqsRateBounded == Spec => []RateBounded
<1>1. RateInv => RateBounded
  <2> SUFFICES ASSUME RateInv, config.limited PROVE RateBounded
    BY DEF RateBounded
  <2>1. /\ LimiterType /\ Limit \in Nat /\ PerPeriod \in Nat /\ MaxTime \in Nat
        /\ Times = 0 .. MaxTime /\ now \in Times /\ mark \in 0 .. now
    BY LimiterAssumption DEF LimiterAssumption, RateInv, LimiterInv, LimiterType, Times
  <2>2. ASSUME kind = "window", NEW s \in Times, NEW t \in s .. now, t - s < Period
        PROVE  GrantedIn(s, t) <= 2 * Limit
    <3>1. t \in Times /\ s <= t /\ t <= now /\ WindowInv
      BY <2>1, <2>2 DEF RateInv, LimiterInv
    <3>2. granted[t] - GrantedBefore(s) <= 2 * Limit
      BY <2>2, <3>1 DEF WindowInv
    <3> QED BY <3>2 DEF GrantedIn, GrantedBefore
  <2>3. ASSUME kind = "bucket", NEW s \in Times, NEW t \in s .. now
        PROVE  GrantedIn(s, t) <= Limit + PerPeriod * ((t \div Period) - (s \div Period))
    <3>1. t \in Times /\ now \in Times /\ s <= t /\ t <= now /\ BucketInv /\ mark \in Nat /\ mark <= now
          /\ available \in 0 .. Limit
      BY <2>1, <2>3 DEF RateInv, LimiterInv, LimiterType
    <3>2. Tokens >= 0 /\ Tokens \in Int
      <4>1. (now \div Period) - (mark \div Period) \in Nat
        <5>1. now \in Nat /\ mark \in Nat /\ mark <= now
          BY <2>1, <3>1
        <5>2. mark \div Period <= now \div Period /\ mark \div Period \in Nat /\ now \div Period \in Nat
          BY <5>1, Division
        <5> QED BY <5>2
      <4>2. PerPeriod * ((now \div Period) - (mark \div Period)) \in Nat
        BY <2>1, <4>1
      <4> QED BY <2>1, <3>1, <4>2 DEF Tokens
    <3>3. granted[t] - GrantedBefore(s) + (IF t = now THEN Tokens ELSE 0)
            <= Limit + PerPeriod * ((t \div Period) - (s \div Period))
      BY <3>1 DEF BucketInv
    <3>4. granted[t] - GrantedBefore(s) = GrantedIn(s, t)
      BY DEF GrantedIn, GrantedBefore
    <3>5. GrantedIn(s, t) \in Int /\ PerPeriod * ((t \div Period) - (s \div Period)) \in Int
      <4>1. t \in Nat /\ s \in Nat
        BY <2>1, <3>1
      <4>2. t \div Period \in Nat /\ s \div Period \in Nat
        BY <4>1, Division
      <4>3. granted[t] \in Nat /\ (s # 0 => granted[s - 1] \in Nat)
        BY <2>1, <3>1, <4>1 DEF LimiterType
      <4> QED BY <2>1, <4>2, <4>3 DEF GrantedIn
    <3> QED BY <2>1, <3>2, <3>3, <3>4, <3>5
  <2>4. kind = "concurrency" =>
          /\ available >= 0
          /\ available = Limit - FoldSet(LAMBDA t, sum : Cost(t[1]) + sum, 0,
                                         {t \in Tasks : task[t] \in {"running", "delayed"}})
    BY DEF RateInv, LeaseInv, Held, Holders
  <2> QED BY <2>2, <2>3, <2>4 DEF RateBounded
<1>2. Inv => QueueType
  BY DEF Inv
<1> QED
  BY <1>1, <1>2, InvInit, InvStep, FanInit, FanStep, RateInit, RateStep, PTL DEF Spec
-----------------------------------------------------------------------------
(* The types, which the invariants above all but settle.                   *)

\* What they leave open; without a limiter in the pipeline none is ever asked.
LoopType ==
  /\ pc \in {"polling", "handling", "deleting", "backoff", "returned"}
  /\ attempt \in [Tasks -> Nat]
  /\ failures \in 0 .. 2 /\ aborted \in BOOLEAN /\ faults \in 0 .. MaxFaults
  /\ ~config.limited => kind = "concurrency" /\ available = Limit

LEMMA LoopTypeInit == Init => LoopType
<1> SUFFICES ASSUME Init PROVE LoopType
  OBVIOUS
<1>1. MaxFaults \in Nat
  BY SqsAssumption DEF SqsAssumption
<1>2. attempt \in [Tasks -> Nat]
  BY DEF Init
<1>3. pc = "polling" /\ failures = 0 /\ faults = 0
  BY DEF Init
<1>4. aborted \in BOOLEAN
  BY Zenon DEF Init
<1>5. ~config.limited => kind = "concurrency" /\ available = Limit
  BY Zenon DEF Init, LimiterInit
<1> QED BY <1>1, <1>2, <1>3, <1>4, <1>5 DEF LoopType

LEMMA LoopTypeStep == LoopType /\ [Next]_vars => LoopType'
<1> SUFFICES ASSUME LoopType, [Next]_vars PROVE LoopType'
  OBVIOUS
<1> USE DEF LoopType
<1>1. MaxFaults \in Nat /\ (Fault => faults' \in 0 .. MaxFaults)
  BY SqsAssumption DEF SqsAssumption, Fault
<1>2. Loop => pc' \in {"polling", "returned"}
  BY DEF Loop
<1>3. Caught => pc' \in {"polling", "backoff", "returned"} /\ failures' \in 0 .. 2
  BY <1>2 DEF Caught
<1>4. CASE LoopSteps
  <2>1. CASE ReceiveRejects
    BY <1>1, <1>3, <2>1 DEF ReceiveRejects, taskVars, limiterVars
  <2>2. CASE BatchHandled
    BY <1>2, <2>2 DEF BatchHandled, taskVars, limiterVars
  <2>3. CASE BatchThrows
    BY <1>3, <2>3 DEF BatchThrows, taskVars, limiterVars
  <2>4. CASE DeleteResolves
    BY <1>1, <1>2, <2>4 DEF DeleteResolves, taskVars, limiterVars
  <2>5. CASE DeleteRejects
    BY <1>1, <1>3, <2>5 DEF DeleteRejects, taskVars, limiterVars
  <2>6. CASE BackoffEnds
    BY <1>2, <2>6 DEF BackoffEnds, taskVars, limiterVars
  <2> QED BY <1>4, <2>1, <2>2, <2>3, <2>4, <2>5, <2>6 DEF LoopSteps
<1>5. CASE Receive
  BY <1>5 DEF Receive, limiterVars
<1>6. CASE ReceiveNothing
  BY <1>2, <1>6 DEF ReceiveNothing, taskVars, limiterVars
<1>7. CASE Abort
  BY <1>7 DEF Abort, Loop, taskVars, limiterVars
<1>8. ASSUME NEW t \in Tasks, TaskSteps(t) PROVE LoopType'
  <2>1. /\ UNCHANGED <<config, pc, failures, aborted, faults, kind>>
        /\ attempt' \in [Tasks -> Nat]
        /\ ~config.limited => available' = available
    <3>1. CASE Start(t)
      BY <3>1 DEF Start, Acquire, consumerVars, limiterVars
    <3>2. CASE RetryDelayEnds(t)
      BY <3>2 DEF RetryDelayEnds, consumerVars, limiterVars
    <3>3. ASSUME NEW outcome \in Outcomes, HandlerEnds(t, outcome)
          PROVE  /\ UNCHANGED <<config, pc, failures, aborted, faults, kind>>
                 /\ attempt' \in [Tasks -> Nat]
                 /\ ~config.limited => available' = available
      BY <3>3 DEF HandlerEnds, Dispose, consumerVars, limiterVars
    <3> QED BY <1>8, <3>1, <3>2, <3>3 DEF TaskSteps
  <2> QED BY <2>1
<1>9. ASSUME NEW m \in Messages, VisibilityExpires(m) PROVE LoopType'
  BY <1>1, <1>9 DEF VisibilityExpires, taskVars, limiterVars
<1>10. CASE ClockTicks
  BY <1>10 DEF ClockTicks, Tick, consumerVars, taskVars
<1>11. CASE UNCHANGED vars
  BY <1>11 DEF vars, consumerVars, taskVars, limiterVars
<1> QED BY <1>4, <1>5, <1>6, <1>7, <1>8, <1>9, <1>10, <1>11 DEF Next

\* Every variable stays within its type: no semaphore gives more permits than it
\* has, nor a limiter, and none is given back twice.
THEOREM SqsTypeOK == Spec => []TypeOK
<1>1. QueueType /\ FanInv /\ RateInv /\ LoopType => TypeOK
  <2> SUFFICES ASSUME QueueType, FanInv, RateInv, LoopType PROVE TypeOK
    OBVIOUS
  <2>1. Limit \in Nat
    BY LimiterAssumption DEF LimiterAssumption
  <2>2. available \in 0 .. Limit
    <3>1. CASE kind # "concurrency"
      BY <3>1 DEF RateInv, LimiterInv, LimiterType
    <3>2. CASE ~config.limited
      BY <2>1, <3>2 DEF LoopType
    <3>3. CASE kind = "concurrency" /\ config.limited
      <4>1. Held(Holders) \in Nat
        BY HeldSum DEF Holders
      <4> QED BY <2>1, <3>3, <4>1 DEF RateInv, LeaseInv
    <3> QED BY <3>1, <3>2, <3>3
  <2> QED BY <2>2 DEF TypeOK, QueueType, Waits, FanInv, LoopType, RateInv, LimiterInv, LimiterType
<1>2. Inv => QueueType
  BY DEF Inv
<1> QED
  BY <1>1, <1>2, InvInit, InvStep, FanInit, FanStep, RateInit, RateStep, LoopTypeInit, LoopTypeStep, PTL DEF Spec
=============================================================================
