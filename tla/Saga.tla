-------------------------------- MODULE Saga --------------------------------
(***************************************************************************)
(* Saga, Stage and SagaStep: an ordered list of stages, each a group of    *)
(* steps whose forward actions run concurrently; when a stage fails, the   *)
(* effects created so far are compensated, newest stage first, and a clean *)
(* rollback may be retried from scratch.                                   *)
(*                                                                         *)
(* A run is one call of runAsync.  The state of a step (state, result,     *)
(* exception) lives on the SagaStep object and so is shared by every run   *)
(* and attempt of one Saga.  An action is the code between two awaits: of  *)
(* a stage's Promise.all, or of a call of the state store.  (Without a     *)
(* store the same code runs with those awaits left out.)  An effect is     *)
(* named by its step and by the run and attempt that created it, which is  *)
(* what the forward action's payload identifies for its compensation.      *)
(***************************************************************************)
EXTENDS Integers, Sequences, SequencesExt, FiniteSets

CONSTANTS
  Runs,         \* calls of runAsync on one Saga
  Stages,       \* a sequence of stages, each a sequence of steps
  Compensable,  \* the steps built with a compensation
  MaxAttempts,  \* retryPolicy.maxAttempts, 1 without a policy
  Overlap,      \* a run may begin while another is under way
  StoreFails    \* a call of the state store may reject

Steps == UNION {ToSet(Stages[i]) : i \in DOMAIN Stages}

ASSUME SagaAssumption ==
  /\ Stages \in Seq(Seq(Steps)) \ {<<>>}
  /\ \A i \in DOMAIN Stages : Stages[i] # <<>> /\ IsInjective(Stages[i])
  /\ \A i, j \in DOMAIN Stages : i # j => ToSet(Stages[i]) \cap ToSet(Stages[j]) = {}
  /\ Compensable \subseteq Steps
  /\ MaxAttempts \in Nat \ {0}
  /\ Overlap \in BOOLEAN /\ StoreFails \in BOOLEAN

VARIABLES
  phase,      \* per run: where it waits, or how it ended
  attempt,    \* per run: the attempt under way
  stage,      \* per run: the stage it executes or compensates
  failedAt,   \* per run: the stage that failed in this attempt, 0 for none
  clean,      \* per run: every compensation of this rollback has succeeded
  pending,    \* per run: the step calls its stage awaits, with their effects
  report,     \* per run: the SagaResult of its latest attempt
  state, result, exception,  \* per step: innerState, innerResult, innerException
  effects     \* what forward actions created and compensations have not undone

runVars == <<phase, attempt, stage, failedAt, clean, pending, report>>
stepVars == <<state, result, exception>>
vars == <<runVars, stepVars, effects>>

None == [run |-> "none", attempt |-> 0]
Tags == [run : Runs, attempt : 1 .. MaxAttempts] \cup {None}
Tag(r) == [run |-> r, attempt |-> attempt[r]]
Effect(s, t) == [step |-> s, tag |-> t]

Ended == {"returned", "threw"}
UnderWay(r) == phase[r] \notin Ended \cup {"idle"}
NoReport == [outcome |-> "none", exception |-> None, failures |-> {}]
Success == [outcome |-> "Succeeded", exception |-> None, failures |-> {}]

StepsOf(i) == ToSet(Stages[i])

Init ==
  /\ phase = [r \in Runs |-> "idle"]
  /\ attempt = [r \in Runs |-> 1]
  /\ stage = [r \in Runs |-> 0]
  /\ failedAt = [r \in Runs |-> 0]
  /\ clean = [r \in Runs |-> TRUE]
  /\ pending = [r \in Runs |-> {}]
  /\ report = [r \in Runs |-> NoReport]
  /\ state = [s \in Steps |-> "pending"]
  /\ result = [s \in Steps |-> None]
  /\ exception = [s \in Steps |-> None]
  /\ effects = {}

-----------------------------------------------------------------------------
(* The forward path.                                                       *)

\* Stage.executeAsync calls every forward action before it awaits any.
CallForward(r, i) ==
  /\ phase' = [phase EXCEPT ![r] = "executing"]
  /\ stage' = [stage EXCEPT ![r] = i]
  /\ pending' = [pending EXCEPT ![r] = {Effect(s, Tag(r)) : s \in StepsOf(i)}]
  /\ exception' = [s \in Steps |-> IF s \in StepsOf(i) THEN None ELSE exception[s]]
  /\ UNCHANGED <<attempt, failedAt, clean, report, state, result, effects>>

\* runAsync is called, and calls recordStartedAsync.
Begin(r) ==
  /\ phase[r] = "idle"
  /\ Overlap \/ ~\E q \in Runs : UnderWay(q)
  /\ phase' = [phase EXCEPT ![r] = "starting"]
  /\ UNCHANGED <<attempt, stage, failedAt, clean, pending, report, stepVars, effects>>

\* recordStartedAsync resolves.
Started(r) == phase[r] = "starting" /\ CallForward(r, 1)

ForwardSucceeds(r, e) ==
  /\ phase[r] = "executing" /\ e \in pending[r]
  /\ pending' = [pending EXCEPT ![r] = @ \ {e}]
  /\ state' = [state EXCEPT ![e.step] = "succeeded"]
  /\ result' = [result EXCEPT ![e.step] = e.tag]
  /\ effects' = IF e.step \in Compensable THEN effects \cup {e} ELSE effects
  /\ UNCHANGED <<phase, attempt, stage, failedAt, clean, report, exception>>

\* A failed result, or a throw that the step turns into one.
ForwardFails(r, e, thrown) ==
  /\ phase[r] = "executing" /\ e \in pending[r]
  /\ pending' = [pending EXCEPT ![r] = @ \ {e}]
  /\ state' = [state EXCEPT ![e.step] = "failed"]
  /\ result' = [result EXCEPT ![e.step] = None]
  /\ exception' = IF thrown THEN [exception EXCEPT ![e.step] = e.tag] ELSE exception
  /\ UNCHANGED <<phase, attempt, stage, failedAt, clean, report, effects>>

Finish(r, p) ==
  /\ phase' = [phase EXCEPT ![r] = "finishing"]
  /\ report' = [report EXCEPT ![r] = p]

\* Every step of the stage succeeded: recordStageCompletedAsync is called.
StageSucceeds(r) ==
  /\ phase[r] = "executing" /\ pending[r] = {}
  /\ \A s \in StepsOf(stage[r]) : state[s] = "succeeded"
  /\ phase' = [phase EXCEPT ![r] = "recording"]
  /\ UNCHANGED <<attempt, stage, failedAt, clean, pending, report, stepVars, effects>>

\* recordStageCompletedAsync resolves: the next stage, or the success.
StageRecorded(r) ==
  /\ phase[r] = "recording"
  /\ \/ stage[r] < Len(Stages) /\ CallForward(r, stage[r] + 1)
     \/ /\ stage[r] = Len(Stages)
        /\ Finish(r, Success)
        /\ UNCHANGED <<attempt, stage, failedAt, clean, pending, stepVars, effects>>

-----------------------------------------------------------------------------
(* The rollback.                                                           *)

\* Mutant: a stage with a failed step is taken to have nothing to undo.
MutCompensate(r, i) ==
  LET todo == IF i = stage[r] THEN {} ELSE {s \in StepsOf(i) : state[s] = "succeeded"}
  IN /\ stage' = [stage EXCEPT ![r] = i]
     /\ pending' = [pending EXCEPT ![r] = {Effect(s, result[s]) : s \in todo \cap Compensable}]
     /\ state' = [s \in Steps |-> IF s \in todo \ Compensable THEN "rolledBack" ELSE state[s]]

\* Stage.compensateAsync calls the compensation of every succeeded step, each
\* with the payload of the step's result; a step without one is rolled back.
Compensate(r, i) ==
  LET todo == {s \in StepsOf(i) : state[s] = "succeeded"}
  IN /\ stage' = [stage EXCEPT ![r] = i]
     /\ pending' = [pending EXCEPT ![r] = {Effect(s, result[s]) : s \in todo \cap Compensable}]
     /\ state' = [s \in Steps |-> IF s \in todo \ Compensable THEN "rolledBack" ELSE state[s]]

\* A step of the stage failed, and every one has settled.
StageFails(r) ==
  /\ phase[r] = "executing" /\ pending[r] = {}
  /\ \E s \in StepsOf(stage[r]) : state[s] # "succeeded"
  /\ phase' = [phase EXCEPT ![r] = "compensating"]
  /\ failedAt' = [failedAt EXCEPT ![r] = stage[r]]
  /\ clean' = [clean EXCEPT ![r] = TRUE]
  /\ Compensate(r, stage[r])
  /\ UNCHANGED <<attempt, report, result, exception, effects>>

CompensationSucceeds(r, e) ==
  /\ phase[r] = "compensating" /\ e \in pending[r]
  /\ pending' = [pending EXCEPT ![r] = @ \ {e}]
  /\ state' = [state EXCEPT ![e.step] = "rolledBack"]
  /\ effects' = effects \ {e}
  /\ UNCHANGED <<phase, attempt, stage, failedAt, clean, report, result, exception>>

\* The compensation answers a failed result or throws; the effect remains.
CompensationFails(r, e, thrown) ==
  /\ phase[r] = "compensating" /\ e \in pending[r]
  /\ pending' = [pending EXCEPT ![r] = @ \ {e}]
  /\ state' = [state EXCEPT ![e.step] = "compensationFailed"]
  /\ exception' = IF thrown THEN [exception EXCEPT ![e.step] = e.tag] ELSE exception
  /\ clean' = [clean EXCEPT ![r] = FALSE]
  /\ UNCHANGED <<phase, attempt, stage, failedAt, report, result, effects>>

\* The report of a failed attempt: the first failed step of the failed stage,
\* and the steps up to that stage whose compensation failed.
Failure(r) ==
  LET i == failedAt[r]
      failures == {s \in Steps : \E j \in 1 .. i : s \in StepsOf(j) /\ state[s] = "compensationFailed"}
      failed == SelectInSeq(Stages[i], LAMBDA s : state[s] = "failed")
  IN [outcome   |-> IF clean[r] THEN "RolledBack" ELSE "PartiallyRolledBack",
      exception |-> IF failed = 0 THEN None ELSE exception[Stages[i][failed]],
      failures  |-> failures]

\* Mutant: the stages are compensated oldest first.
MutPreviousStage(r) ==
  IF stage[r] = failedAt[r]
  THEN IF stage[r] > 1 THEN 1 ELSE 0
  ELSE IF stage[r] + 1 < failedAt[r] THEN stage[r] + 1 ELSE 0

\* Mutant: the rollback stops at the first stage it could not undo.
MutStopAtFailure(r) == IF clean[r] THEN stage[r] - 1 ELSE 0

\* The next stage to compensate, 0 when the rollback is over.
PreviousStage(r) == stage[r] - 1

\* The stage's compensations have settled: the stage before it, or the report.
StageCompensated(r) ==
  /\ phase[r] = "compensating" /\ pending[r] = {}
  /\ \/ /\ PreviousStage(r) # 0
        /\ Compensate(r, PreviousStage(r))
        /\ UNCHANGED <<phase, report>>
     \/ /\ PreviousStage(r) = 0
        /\ Finish(r, Failure(r))
        /\ UNCHANGED <<stage, pending, state>>
  /\ UNCHANGED <<attempt, failedAt, clean, result, exception, effects>>

-----------------------------------------------------------------------------
(* The end of an attempt.                                                  *)

\* Mutant: any failed attempt is retried.
MutRetries(r) == report[r].outcome # "Succeeded" /\ attempt[r] < MaxAttempts

\* Only a clean rollback is retried.
Retries(r) == report[r].outcome = "RolledBack" /\ attempt[r] < MaxAttempts

\* Mutant: the attempt is not counted.
MutFinished(r) ==
  /\ phase[r] = "finishing"
  /\ phase' = [phase EXCEPT ![r] = IF Retries(r) THEN "starting" ELSE "returned"]
  /\ UNCHANGED <<attempt, stage, failedAt, clean, pending, report, stepVars, effects>>

\* recordFinishedAsync resolves: the next attempt starts after its delay, or
\* runAsync returns the report.
Finished(r) ==
  /\ phase[r] = "finishing"
  /\ \/ /\ Retries(r)
        /\ phase' = [phase EXCEPT ![r] = "starting"]
        /\ attempt' = [attempt EXCEPT ![r] = @ + 1]
     \/ /\ ~Retries(r)
        /\ phase' = [phase EXCEPT ![r] = "returned"]
        /\ UNCHANGED attempt
  /\ UNCHANGED <<stage, failedAt, clean, pending, report, stepVars, effects>>

\* A call of the store rejects: nothing catches it and runAsync rejects.
StoreRejects(r) ==
  /\ StoreFails /\ phase[r] \in {"starting", "recording", "finishing"}
  /\ phase' = [phase EXCEPT ![r] = "threw"]
  /\ UNCHANGED <<attempt, stage, failedAt, clean, pending, report, stepVars, effects>>

ForwardEnds(r) ==
  \E e \in pending[r] : ForwardSucceeds(r, e) \/ \E t \in BOOLEAN : ForwardFails(r, e, t)

CompensationEnds(r) ==
  \E e \in pending[r] :
    CompensationSucceeds(r, e) \/ \E t \in BOOLEAN : CompensationFails(r, e, t)

Step(r) ==
  \/ Started(r) \/ ForwardEnds(r) \/ StageSucceeds(r) \/ StageRecorded(r)
  \/ StageFails(r) \/ CompensationEnds(r) \/ StageCompensated(r)
  \/ Finished(r) \/ StoreRejects(r)

Next == \E r \in Runs : Begin(r) \/ Step(r)

Spec == Init /\ [][Next]_vars

\* Actions, compensations and the store answer, and the event loop runs.
FairSpec == Spec /\ \A r \in Runs : WF_vars(Step(r))

-----------------------------------------------------------------------------
(* Properties.                                                             *)

EffectsOf(r) == {e \in effects : e.tag.run = r}

\* Every variable stays within its type.
TypeOK ==
  /\ phase \in [Runs -> Ended \cup {"idle", "starting", "executing", "recording", "compensating", "finishing"}]
  /\ attempt \in [Runs -> 1 .. MaxAttempts]
  /\ stage \in [Runs -> 0 .. Len(Stages)] /\ failedAt \in [Runs -> 0 .. Len(Stages)]
  /\ clean \in [Runs -> BOOLEAN]
  /\ pending \in [Runs -> SUBSET [step : Steps, tag : Tags]]
  /\ report \in [Runs -> [outcome : {"none", "Succeeded", "RolledBack", "PartiallyRolledBack"},
                         exception : Tags, failures : SUBSET Compensable]]
  /\ state \in [Steps -> {"pending", "succeeded", "failed", "rolledBack", "compensationFailed"}]
  /\ result \in [Steps -> Tags] /\ exception \in [Steps -> Tags]
  /\ effects \subseteq [step : Compensable, tag : Tags \ {None}]

\* A run that returned has created the effect of every step or left none:
\* after a success all of them stand, from one attempt, and otherwise, but for
\* a compensation that failed, the system is back at its starting state.
AllOrNothing ==
  \A r \in Runs : phase[r] = "returned" /\ report[r].outcome # "PartiallyRolledBack" =>
    EffectsOf(r) = IF report[r].outcome = "Succeeded"
                   THEN {Effect(s, Tag(r)) : s \in Compensable}
                   ELSE {}

\* The report of a partial rollback names the orphaned effects, all of them
\* and nothing else, and an error it reports is one that this attempt threw.
OrphansReported ==
  \A r \in Runs : phase[r] = "returned" =>
    /\ report[r].exception \in {None, Tag(r)}
    /\ report[r].outcome = "PartiallyRolledBack" =>
         /\ report[r].failures # {}
         /\ report[r].failures = {e.step : e \in EffectsOf(r)}

\* No retry repeats an effect that still stands.
NoDoubleEffect ==
  \A r \in Runs : \A e, f \in EffectsOf(r) : e.step = f.step => e = f

\* Effects are undone in the reverse of the order they were created in: no
\* compensation runs while an effect of a later stage has not been tried.
LastInFirstOut ==
  \A r \in Runs : phase[r] = "compensating" =>
    \A i, j \in DOMAIN Stages : i < j =>
      \A e \in pending[r], f \in EffectsOf(r) :
        e.step \in StepsOf(i) /\ f.step \in StepsOf(j) => state[f.step] = "compensationFailed"

\* Every run returns or throws.
RunsEnd == \A r \in Runs : UnderWay(r) ~> phase[r] \in Ended
=============================================================================
