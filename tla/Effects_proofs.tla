--------------------------- MODULE Effects_proofs ---------------------------
(***************************************************************************)
(* The two components that promise something of the effects of a handler.  *)
(*                                                                         *)
(* Saga: type correctness and, for runs that follow one another, what a    *)
(* run promises of its effects.  The inductive invariant says, per phase   *)
(* of a run, which effects stand and which step states belong to this      *)
(* attempt: those of the stages it has been through, and no other.         *)
(*                                                                         *)
(* Idempotency: that handlers, claims and completions agree.               *)
(***************************************************************************)
EXTENDS Saga, Idempotency, WellFoundedInduction, TLAPS

-----------------------------------------------------------------------------
(* Stages, tags and effects.                                               *)

LEMMA Plan ==
  /\ DOMAIN Stages = 1 .. Len(Stages) /\ Len(Stages) \in Nat /\ Len(Stages) >= 1
  /\ \A i \in DOMAIN Stages : StepsOf(i) \subseteq Steps /\ StepsOf(i) # {}
  /\ \A s \in Steps : \E i \in DOMAIN Stages : s \in StepsOf(i)
  /\ Compensable \subseteq Steps /\ MaxAttempts \in Nat \ {0}
<1>1. Stages \in Seq(Seq(Steps)) /\ Stages # <<>>
  BY SagaAssumption DEF SagaAssumption
<1>2. DOMAIN Stages = 1 .. Len(Stages) /\ Len(Stages) \in Nat /\ Len(Stages) >= 1
  BY <1>1
<1>3. ASSUME NEW i \in DOMAIN Stages PROVE StepsOf(i) \subseteq Steps /\ StepsOf(i) # {}
  <2>1. StepsOf(i) \subseteq Steps
    BY DEF Steps, StepsOf
  <2>2. Stages[i] \in Seq(Steps) /\ Stages[i] # <<>>
    BY <1>1, SagaAssumption DEF SagaAssumption
  <2>3. 1 \in DOMAIN Stages[i]
    BY <2>2
  <2> QED BY <2>1, <2>3 DEF StepsOf, ToSet
<1>4. \A s \in Steps : \E i \in DOMAIN Stages : s \in StepsOf(i)
  BY DEF Steps, StepsOf
<1> QED BY <1>2, <1>3, <1>4, SagaAssumption DEF SagaAssumption

\* A step belongs to one stage.
LEMMA OneStage ==
  ASSUME NEW i \in DOMAIN Stages, NEW j \in DOMAIN Stages, NEW s,
         s \in StepsOf(i), s \in StepsOf(j)
  PROVE  i = j
  BY SagaAssumption DEF SagaAssumption, StepsOf

LEMMA EffectParts ==
  /\ \A s, t, u, v : Effect(s, t) = Effect(u, v) <=> s = u /\ t = v
  /\ \A s, t : Effect(s, t).step = s /\ Effect(s, t).tag = t
  /\ \A r \in Runs : Tag(r).run = r
  BY DEF Effect, Tag

-----------------------------------------------------------------------------
(* Types: of an effect awaited or standing, of the stages under way, and of *)
(* the step states that a rollback reads, whether or not runs overlap.     *)

Real == Tags \ {None}

TypeInv ==
  /\ TypeOK
  /\ \A r \in Runs : pending[r] \subseteq [step : Steps, tag : Real]
  /\ \A r \in Runs : phase[r] \in {"executing", "recording", "compensating"} => stage[r] \in DOMAIN Stages
  /\ \A r \in Runs : phase[r] = "compensating" =>
       /\ failedAt[r] \in DOMAIN Stages
       /\ \A e \in pending[r] : e.step \in Compensable
  /\ \A s \in Steps : /\ state[s] = "succeeded" => result[s] \in Real
                      /\ state[s] = "compensationFailed" => s \in Compensable

LEMMA RealTag == ASSUME NEW r \in Runs, attempt[r] \in 1 .. MaxAttempts PROVE Tag(r) \in Real
  BY SagaAssumption DEF SagaAssumption, Tag, Tags, Real, None

LEMMA NoneType == None \in Tags /\ Real \subseteq Tags
  BY DEF Tags, Real


LEMMA TypeInit == Init => TypeInv
  BY Plan, NoneType DEF Init, TypeInv, TypeOK, NoReport, Ended, Real

LEMMA TypeCallForward ==
  ASSUME TypeInv, NEW r \in Runs, NEW i \in DOMAIN Stages, CallForward(r, i)
  PROVE  TypeInv'
  BY Plan, NoneType, RealTag, SMTT(60)
  DEF TypeInv, TypeOK, Ended, Real, CallForward, Effect

LEMMA TypeBegin ==
  ASSUME TypeInv, NEW r \in Runs, Begin(r)
  PROVE  TypeInv'
  BY Plan, NoneType, SMTT(60)
  DEF TypeInv, TypeOK, Ended, Real, Begin, stepVars

LEMMA TypeForwardSucceeds ==
  ASSUME TypeInv, NEW r \in Runs, NEW e \in pending[r], ForwardSucceeds(r, e)
  PROVE  TypeInv'
  BY Plan, NoneType, SMTT(60)
  DEF TypeInv, TypeOK, Ended, Real, ForwardSucceeds

LEMMA TypeForwardFails ==
  ASSUME TypeInv, NEW r \in Runs, NEW e \in pending[r], NEW t \in BOOLEAN, ForwardFails(r, e, t)
  PROVE  TypeInv'
  BY Plan, NoneType, SMTT(60)
  DEF TypeInv, TypeOK, Ended, Real, ForwardFails

LEMMA TypeStageSucceeds ==
  ASSUME TypeInv, NEW r \in Runs, StageSucceeds(r)
  PROVE  TypeInv'
  BY Plan, NoneType, SMTT(60)
  DEF TypeInv, TypeOK, Ended, Real, StageSucceeds, stepVars

LEMMA TypeStageFails ==
  ASSUME TypeInv, NEW r \in Runs, StageFails(r)
  PROVE  TypeInv'
  BY Plan, NoneType, SMTT(60)
  DEF TypeInv, TypeOK, Ended, Real, StageFails, Compensate, Effect

LEMMA TypeCompensationSucceeds ==
  ASSUME TypeInv, NEW r \in Runs, NEW e \in pending[r], CompensationSucceeds(r, e)
  PROVE  TypeInv'
  BY Plan, NoneType, SMTT(60)
  DEF TypeInv, TypeOK, Ended, Real, CompensationSucceeds

LEMMA TypeCompensationFails ==
  ASSUME TypeInv, NEW r \in Runs, NEW e \in pending[r], NEW t \in BOOLEAN, CompensationFails(r, e, t)
  PROVE  TypeInv'
  BY Plan, NoneType, SMTT(60)
  DEF TypeInv, TypeOK, Ended, Real, CompensationFails

LEMMA TypeFinished ==
  ASSUME TypeInv, NEW r \in Runs, Finished(r)
  PROVE  TypeInv'
<1>1. attempt' \in [Runs -> 1 .. MaxAttempts]
  <2>1. attempt \in [Runs -> 1 .. MaxAttempts]
    BY DEF TypeInv, TypeOK
  <2>2. attempt' = attempt \/ (attempt[r] < MaxAttempts /\ attempt' = [attempt EXCEPT ![r] = @ + 1])
    BY DEF Finished, Retries
  <2> QED BY Plan, <2>1, <2>2
<1>2. phase' \in [Runs -> Ended \cup {"idle", "starting", "executing", "recording", "compensating", "finishing"}]
      /\ \A q \in Runs : phase'[q] = phase[q] \/ phase'[q] \in {"starting", "returned"}
  BY DEF TypeInv, TypeOK, Finished, Ended
<1> QED BY <1>1, <1>2 DEF TypeInv, TypeOK, Finished, stepVars

LEMMA TypeStoreRejects ==
  ASSUME TypeInv, NEW r \in Runs, StoreRejects(r)
  PROVE  TypeInv'
  BY Plan, NoneType, SMTT(60)
  DEF TypeInv, TypeOK, Ended, Real, StoreRejects, stepVars

LEMMA Least ==
  ASSUME NEW I, I \subseteq Nat, I # {}
  PROVE  \E x \in I : \A y \in I : x <= y
<1> DEFINE Less == {p \in Nat \X Nat : p[1] < p[2]}
<1>1. IsWellFoundedOn(Less, Nat)
  <2>1. Less = OpToRel(<, Nat)
    BY Zenon DEF OpToRel
  <2>2. IsWellFoundedOn(OpToRel(<, Nat), Nat)
    BY NatLessThanWellFounded, Zenon
  <2> QED BY <2>1, <2>2, Zenon
<1>2. PICK x \in I : \A y \in I : ~(<<y, x>> \in Less)
  BY <1>1, WFMin, Zenon
<1>3. \A y \in I : x <= y
  <2> TAKE y \in I
  <2>1. ~(<<y, x>> \in Less)
    BY <1>2
  <2> QED BY <2>1
<1> QED BY <1>3

\* What the report of a failed attempt can hold.
LEMMA FailureParts ==
  ASSUME NEW r \in Runs, failedAt[r] \in DOMAIN Stages
  PROVE  /\ Failure(r) = [outcome |-> Failure(r).outcome, exception |-> Failure(r).exception,
                          failures |-> Failure(r).failures]
         /\ Failure(r).outcome = IF clean[r] THEN "RolledBack" ELSE "PartiallyRolledBack"
         /\ \/ Failure(r).exception = None
            \/ \E s \in StepsOf(failedAt[r]) : Failure(r).exception = exception[s]
         /\ Failure(r).failures =
              {s \in Steps : \E j \in 1 .. failedAt[r] : s \in StepsOf(j) /\ state[s] = "compensationFailed"}
<1> DEFINE seq == Stages[failedAt[r]]
           I == {k \in 1 .. Len(seq) : state[seq[k]] = "failed"}
           failed == SelectInSeq(seq, LAMBDA s : state[s] = "failed")
<1>1. seq \in Seq(Steps)
  BY SagaAssumption DEF SagaAssumption
<1>2. failed = IF I # {} THEN Min(I) ELSE 0
  BY Zenon DEF SelectInSeq
<1>3. ASSUME I # {} PROVE Min(I) \in I
  <2>1. I \subseteq Nat
    BY <1>1
  <2>2. \E x \in I : \A y \in I : x <= y
    BY <1>3, <2>1, Least, Zenon
  <2> QED BY <2>2, Zenon DEF Min
<1>4. failed = 0 \/ seq[failed] \in StepsOf(failedAt[r])
  <2> HIDE DEF failed, I
  <2> SUFFICES ASSUME I # {} PROVE seq[failed] \in StepsOf(failedAt[r])
    BY <1>2
  <2>1. failed \in I
    BY <1>2, <1>3
  <2>2. failed \in DOMAIN seq
    BY <1>1, <2>1 DEF I
  <2> QED BY <2>2 DEF StepsOf, ToSet
<1> QED BY <1>4, Zenon DEF Failure

LEMMA TypeStageRecorded ==
  ASSUME TypeInv, NEW r \in Runs, StageRecorded(r)
  PROVE  TypeInv'
<1>1. CASE stage[r] < Len(Stages) /\ CallForward(r, stage[r] + 1)
  <2>1. stage[r] \in DOMAIN Stages
    BY DEF TypeInv, StageRecorded
  <2>2. stage[r] + 1 \in DOMAIN Stages
    BY <1>1, <2>1, Plan
  <2> QED BY <1>1, <2>2, TypeCallForward
<1>2. CASE Finish(r, Success) /\ UNCHANGED <<attempt, stage, failedAt, clean, pending, stepVars, effects>>
  BY <1>2, Plan, NoneType, SMTT(60) DEF TypeInv, TypeOK, Ended, Finish, Success, stepVars
<1> QED BY <1>1, <1>2 DEF StageRecorded

LEMMA TypeStageCompensated ==
  ASSUME TypeInv, NEW r \in Runs, StageCompensated(r)
  PROVE  TypeInv'
<1>1. CASE PreviousStage(r) # 0 /\ Compensate(r, PreviousStage(r)) /\ UNCHANGED <<phase, report>>
  BY <1>1, Plan, NoneType, SMTT(60)
  DEF TypeInv, TypeOK, Ended, Real, StageCompensated, PreviousStage, Compensate, Effect
<1>2. CASE Finish(r, Failure(r)) /\ UNCHANGED <<stage, pending, state>>
  <2>1. Failure(r) \in [outcome : {"none", "Succeeded", "RolledBack", "PartiallyRolledBack"},
                       exception : Tags, failures : SUBSET Compensable]
    <3>1. failedAt[r] \in DOMAIN Stages
      BY DEF TypeInv, StageCompensated
    <3>2. Failure(r).exception \in Tags
      BY <3>1, FailureParts, NoneType, Plan DEF TypeInv, TypeOK
    <3>3. Failure(r).failures \subseteq Compensable
      BY <3>1, FailureParts DEF TypeInv
    <3>4. Failure(r).outcome \in {"none", "Succeeded", "RolledBack", "PartiallyRolledBack"}
      BY <3>1, FailureParts, Zenon
    <3>5. Failure(r) = [outcome |-> Failure(r).outcome, exception |-> Failure(r).exception,
                        failures |-> Failure(r).failures]
      BY <3>1, FailureParts
    <3> QED BY <3>2, <3>3, <3>4, <3>5
  <2> QED BY <1>2, <2>1, SMTT(60) DEF TypeInv, TypeOK, Ended, StageCompensated, Finish
<1> QED BY <1>1, <1>2 DEF StageCompensated

LEMMA TypeStep == TypeInv /\ [Next]_vars => TypeInv'
<1> SUFFICES ASSUME TypeInv, [Next]_vars PROVE TypeInv'
  OBVIOUS
<1>1. CASE UNCHANGED vars
  BY <1>1 DEF vars, runVars, stepVars, TypeInv, TypeOK
<1>2. ASSUME NEW r \in Runs, Begin(r) \/ Step(r) PROVE TypeInv'
  <2>1. CASE Begin(r)
    BY <2>1, TypeBegin
  <2>2. CASE Started(r)
    BY <2>2, Plan, TypeCallForward DEF Started
  <2>3. CASE ForwardEnds(r)
    BY <2>3, TypeForwardSucceeds, TypeForwardFails DEF ForwardEnds
  <2>4. CASE StageSucceeds(r) \/ StageFails(r) \/ Finished(r) \/ StoreRejects(r)
    BY <2>4, TypeStageSucceeds, TypeStageFails, TypeFinished, TypeStoreRejects
  <2>5. CASE StageRecorded(r) \/ StageCompensated(r)
    BY <2>5, TypeStageRecorded, TypeStageCompensated
  <2>6. CASE CompensationEnds(r)
    BY <2>6, TypeCompensationSucceeds, TypeCompensationFails DEF CompensationEnds
  <2> QED BY <1>2, <2>1, <2>2, <2>3, <2>4, <2>5, <2>6 DEF Step
<1> QED BY <1>1, <1>2 DEF Next

\* Every variable of every run stays within its type, also when runs overlap:
\* what is compensated is an effect of a step that has a compensation, and
\* what a report names as failed is such a step.
THEOREM SagaTypeOK == Spec => []TypeOK
<1>1. TypeInv => TypeOK
  BY DEF TypeInv
<1> QED BY <1>1, TypeInit, TypeStep, PTL DEF Spec

-----------------------------------------------------------------------------
(* Runs that follow one another.                                           *)

Stands(r, s) == Effect(s, Tag(r)) \in effects
Awaited(r, s) == Effect(s, Tag(r)) \in pending[r]
Fresh(r) == \A e \in effects : e.tag.run # r

\* The step has succeeded in this attempt, and its effect stands.
Kept(r, s) ==
  /\ state[s] = "succeeded" /\ result[s] = Tag(r)
  /\ s \in Compensable => Stands(r, s)

\* The step, of a stage under rollback, is being compensated, or it left no
\* effect, or its compensation failed.
Undone(r, s) ==
  \/ state[s] = "succeeded" /\ Awaited(r, s) /\ Stands(r, s)
  \/ state[s] \in {"failed", "rolledBack"} /\ ~Awaited(r, s) /\ ~Stands(r, s)
  \/ /\ state[s] = "compensationFailed" /\ ~Awaited(r, s) /\ Stands(r, s)
     /\ s \in Compensable /\ ~clean[r]

OfThisAttempt(r, s) == exception[s] \in {None, Tag(r)}

Forward(r) ==
  /\ stage[r] \in DOMAIN Stages
  /\ \A e \in pending[r] : \E s \in StepsOf(stage[r]) : e = Effect(s, Tag(r))
  /\ \A i \in DOMAIN Stages : \A s \in StepsOf(i) :
       /\ i < stage[r] => Kept(r, s)
       /\ i > stage[r] => ~Stands(r, s)
  /\ \A s \in StepsOf(stage[r]) :
       /\ OfThisAttempt(r, s)
       /\ Awaited(r, s) => ~Stands(r, s)
       /\ ~Awaited(r, s) => Kept(r, s) \/ (state[s] = "failed" /\ ~Stands(r, s))

Recorded(r) == \A s \in StepsOf(stage[r]) : ~Awaited(r, s) /\ Kept(r, s)

Backward(r) ==
  /\ failedAt[r] \in DOMAIN Stages
  /\ stage[r] \in 1 .. failedAt[r]
  /\ \A e \in pending[r] : \E s \in StepsOf(stage[r]) : s \in Compensable /\ e = Effect(s, Tag(r))
  /\ \A i \in DOMAIN Stages : \A s \in StepsOf(i) :
       /\ i < stage[r] => Kept(r, s)
       /\ stage[r] <= i /\ i <= failedAt[r] => Undone(r, s)
       /\ i > failedAt[r] => ~Stands(r, s)
  /\ ~clean[r] => \E i \in stage[r] .. failedAt[r] : \E s \in StepsOf(i) : state[s] = "compensationFailed"
  /\ \A s \in StepsOf(failedAt[r]) : OfThisAttempt(r, s)

\* The report is the truth about the effects of the run.
Honest(r) ==
  /\ report[r].outcome \in {"Succeeded", "RolledBack", "PartiallyRolledBack"}
  /\ report[r].exception \in {None, Tag(r)}
  /\ report[r].outcome = "Succeeded" => \A s \in Compensable : Stands(r, s)
  /\ report[r].outcome = "RolledBack" => Fresh(r)
  /\ report[r].outcome = "PartiallyRolledBack" =>
       /\ report[r].failures # {}
       /\ \A s \in Compensable : s \in report[r].failures <=> Stands(r, s)

RunInv(r) ==
  /\ phase[r] \in {"idle", "starting"} => Fresh(r)
  /\ phase[r] \in {"executing", "recording"} => Forward(r)
  /\ phase[r] = "recording" => Recorded(r)
  /\ phase[r] = "compensating" => Backward(r)
  /\ phase[r] \in {"finishing", "returned"} => Honest(r)

Alone == \A q, r \in Runs : UnderWay(q) /\ UnderWay(r) => q = r
Owned == \A e \in effects : e.tag.run \in Runs /\ e.tag = Tag(e.tag.run)

SeqInv == TypeInv /\ Alone /\ Owned /\ \A r \in Runs : RunInv(r)

LEMMA SameTag == ASSUME NEW r \in Runs, attempt'[r] = attempt[r] PROVE Tag(r)' = Tag(r)
  BY DEF Tag

\* A step of one run leaves what the invariant says of the others.
LEMMA OtherRuns ==
  ASSUME SeqInv, NEW r \in Runs,
         \A q \in Runs \ {r} : ~UnderWay(q),
         \A q \in Runs \ {r} : phase'[q] = phase[q] /\ attempt'[q] = attempt[q] /\ report'[q] = report[q],
         \A e : e.tag.run # r => (e \in effects' <=> e \in effects)
  PROVE  Alone' /\ \A q \in Runs \ {r} : RunInv(q)'
<1>1. Alone'
  BY DEF Alone, UnderWay
<1>2. ASSUME NEW q \in Runs \ {r} PROVE RunInv(q)'
  <2>1. Tag(q)' = Tag(q)
    BY SameTag
  <2>2. \A s : Stands(q, s)' <=> Stands(q, s)
    BY <2>1, EffectParts DEF Stands
  <2>3. Fresh(q)' <=> Fresh(q)
    BY DEF Fresh
  <2>4. Honest(q)' <=> Honest(q)
    BY <2>1, <2>2, <2>3 DEF Honest
  <2>5. phase[q] \in {"idle", "returned", "threw"} /\ phase'[q] = phase[q]
    BY DEF UnderWay, Ended, SeqInv, TypeInv, TypeOK
  <2>6. RunInv(q)
    BY DEF SeqInv
  <2> QED BY <2>3, <2>4, <2>5, <2>6 DEF RunInv
<1> QED BY <1>1, <1>2

LEMMA OwnedStep ==
  ASSUME Owned, NEW r \in Runs,
         \A q \in Runs : attempt'[q] = attempt[q],
         \A e \in effects' : e \in effects \/ e.tag = Tag(r)
  PROVE  Owned'
<1>1. \A q \in Runs : Tag(q)' = Tag(q)
  BY SameTag
<1> QED BY <1>1, EffectParts DEF Owned

LEMMA CallForwardKeeps ==
  ASSUME TypeInv, NEW r \in Runs, NEW i \in DOMAIN Stages, CallForward(r, i),
         \A j \in DOMAIN Stages : \A s \in StepsOf(j) :
           (j < i => Kept(r, s)) /\ (j >= i => ~Stands(r, s))
  PROVE  RunInv(r)'
<1>1. Tag(r)' = Tag(r)
  BY SameTag DEF CallForward
<1>2. /\ phase'[r] = "executing" /\ stage'[r] = i
      /\ pending'[r] = {Effect(s, Tag(r)) : s \in StepsOf(i)}
      /\ \A s \in StepsOf(i) : exception'[s] = None
  BY Plan DEF CallForward, TypeInv, TypeOK
<1>3. \A s : (Stands(r, s)' <=> Stands(r, s)) /\ (Kept(r, s)' <=> Kept(r, s))
  BY <1>1 DEF CallForward, Stands, Kept
<1>4. \A s \in StepsOf(i) : Awaited(r, s)' /\ OfThisAttempt(r, s)'
  BY <1>1, <1>2 DEF Awaited, OfThisAttempt
<1>5. Forward(r)'
  BY <1>1, <1>2, <1>3, <1>4, Plan DEF Forward
<1> QED BY <1>2, <1>5 DEF RunInv

LEMMA BeginKeeps ==
  ASSUME SeqInv, NEW r \in Runs, Begin(r)
  PROVE  RunInv(r)'
  BY DEF SeqInv, TypeInv, TypeOK, RunInv, Begin, Fresh

LEMMA StartedKeeps ==
  ASSUME SeqInv, NEW r \in Runs, Started(r)
  PROVE  RunInv(r)'
<1>1. \A s : ~Stands(r, s)
  BY EffectParts DEF SeqInv, RunInv, Started, Fresh, Stands
<1> QED BY <1>1, Plan, CallForwardKeeps DEF SeqInv, Started

LEMMA ForwardSucceedsKeeps ==
  ASSUME SeqInv, NEW r \in Runs, NEW e \in pending[r], ForwardSucceeds(r, e)
  PROVE  RunInv(r)'
<1>1. Forward(r) /\ phase'[r] = "executing" /\ stage' = stage /\ stage[r] \in DOMAIN Stages
  BY DEF SeqInv, RunInv, ForwardSucceeds, Forward
<1>2. Tag(r)' = Tag(r)
  BY SameTag DEF ForwardSucceeds
<1>3. PICK t \in StepsOf(stage[r]) : e = Effect(t, Tag(r))
  BY <1>1 DEF Forward
<1>4. e.step = t /\ e.tag = Tag(r) /\ t \in Steps
  BY <1>1, <1>3, EffectParts, Plan
<1>5. /\ pending'[r] = pending[r] \ {e} /\ exception' = exception
      /\ state'[t] = "succeeded" /\ result'[t] = Tag(r)
      /\ \A s \in Steps : s # t => state'[s] = state[s] /\ result'[s] = result[s]
  BY <1>4 DEF ForwardSucceeds, SeqInv, TypeInv, TypeOK
<1>6. \A s : Stands(r, s)' <=> Stands(r, s) \/ (s = t /\ t \in Compensable)
  BY <1>2, <1>3, <1>4, EffectParts DEF Stands, ForwardSucceeds
<1>7. \A s : Awaited(r, s)' <=> Awaited(r, s) /\ s # t
  BY <1>2, <1>3, <1>5, EffectParts DEF Awaited
<1>8. \A s \in Steps : s # t => (Kept(r, s) <=> Kept(r, s)')
  BY <1>2, <1>5, <1>6 DEF Kept
<1>9. Kept(r, t)'
  BY <1>2, <1>5, <1>6 DEF Kept
<1>10. \A i \in DOMAIN Stages : \A s \in StepsOf(i) : s \in Steps /\ (i # stage[r] => s # t)
  BY <1>1, OneStage, Plan
<1>11. \A s : OfThisAttempt(r, s)' <=> OfThisAttempt(r, s)
  BY <1>2, <1>5 DEF OfThisAttempt
<1>12. Forward(r)'
  <2>1. \A x \in pending'[r] : \E s \in StepsOf(stage'[r]) : x = Effect(s, Tag(r))'
    BY <1>1, <1>2, <1>5 DEF Forward, Effect
  <2>2. \A i \in DOMAIN Stages : \A s \in StepsOf(i) :
          (i < stage'[r] => Kept(r, s)') /\ (i > stage'[r] => ~Stands(r, s)')
    BY <1>1, <1>6, <1>8, <1>10, Plan DEF Forward
  <2>3. \A s \in StepsOf(stage'[r]) :
          /\ OfThisAttempt(r, s)'
          /\ Awaited(r, s)' => ~Stands(r, s)'
          /\ ~Awaited(r, s)' => Kept(r, s)' \/ (state'[s] = "failed" /\ ~Stands(r, s)')
    BY <1>1, <1>5, <1>6, <1>7, <1>8, <1>9, <1>10, <1>11 DEF Forward
  <2> QED BY <1>1, <2>1, <2>2, <2>3 DEF Forward
<1> QED BY <1>1, <1>12 DEF RunInv

LEMMA ForwardFailsKeeps ==
  ASSUME SeqInv, NEW r \in Runs, NEW e \in pending[r], NEW th \in BOOLEAN, ForwardFails(r, e, th)
  PROVE  RunInv(r)'
<1>1. Forward(r) /\ phase'[r] = "executing" /\ stage' = stage /\ stage[r] \in DOMAIN Stages
  BY DEF SeqInv, RunInv, ForwardFails, Forward
<1>2. Tag(r)' = Tag(r)
  BY SameTag DEF ForwardFails
<1>3. PICK t \in StepsOf(stage[r]) : e = Effect(t, Tag(r))
  BY <1>1 DEF Forward
<1>4. e.step = t /\ e.tag = Tag(r) /\ t \in Steps
  BY <1>1, <1>3, EffectParts, Plan
<1>5. /\ pending'[r] = pending[r] \ {e} /\ state'[t] = "failed"
      /\ \A s \in Steps : s # t => state'[s] = state[s] /\ result'[s] = result[s] /\ exception'[s] = exception[s]
      /\ exception'[t] \in {Tag(r), exception[t]}
  BY <1>4 DEF ForwardFails, SeqInv, TypeInv, TypeOK
<1>6. \A s : Stands(r, s)' <=> Stands(r, s)
  BY <1>2 DEF Stands, ForwardFails
<1>7. \A s : Awaited(r, s)' <=> Awaited(r, s) /\ s # t
  BY <1>2, <1>3, <1>5, EffectParts DEF Awaited
<1>8. \A s \in Steps : s # t => (Kept(r, s) <=> Kept(r, s)')
  BY <1>2, <1>5, <1>6 DEF Kept
<1>9. Awaited(r, t) /\ ~Stands(r, t)
  BY <1>1, <1>3 DEF Forward, Awaited
<1>10. \A i \in DOMAIN Stages : \A s \in StepsOf(i) : s \in Steps /\ (i # stage[r] => s # t)
  BY <1>1, OneStage, Plan
<1>11. \A s \in Steps : OfThisAttempt(r, s) => OfThisAttempt(r, s)'
  BY <1>2, <1>5 DEF OfThisAttempt
<1>12. Forward(r)'
  <2>1. \A x \in pending'[r] : \E s \in StepsOf(stage'[r]) : x = Effect(s, Tag(r))'
    BY <1>1, <1>2, <1>5 DEF Forward, Effect
  <2>2. \A i \in DOMAIN Stages : \A s \in StepsOf(i) :
          (i < stage'[r] => Kept(r, s)') /\ (i > stage'[r] => ~Stands(r, s)')
    BY <1>1, <1>6, <1>8, <1>10, Plan DEF Forward
  <2>3. \A s \in StepsOf(stage'[r]) :
          /\ OfThisAttempt(r, s)'
          /\ Awaited(r, s)' => ~Stands(r, s)'
          /\ ~Awaited(r, s)' => Kept(r, s)' \/ (state'[s] = "failed" /\ ~Stands(r, s)')
    BY <1>1, <1>5, <1>6, <1>7, <1>8, <1>9, <1>10, <1>11 DEF Forward
  <2> QED BY <1>1, <2>1, <2>2, <2>3 DEF Forward
<1> QED BY <1>1, <1>12 DEF RunInv

LEMMA StageSucceedsKeeps ==
  ASSUME SeqInv, NEW r \in Runs, StageSucceeds(r)
  PROVE  RunInv(r)'
<1>1. Forward(r) /\ phase'[r] = "recording" /\ pending[r] = {}
  BY DEF SeqInv, TypeInv, TypeOK, RunInv, StageSucceeds
<1>2. Tag(r)' = Tag(r)
  BY SameTag DEF StageSucceeds
<1>3. Recorded(r)
  BY <1>1 DEF Forward, Recorded, Awaited, StageSucceeds
<1>4. Forward(r)' /\ Recorded(r)'
  BY <1>1, <1>2, <1>3 DEF Forward, Recorded, Kept, Stands, Awaited, OfThisAttempt, StageSucceeds, stepVars
<1> QED BY <1>1, <1>4 DEF RunInv

\* After the last stage the effects of all steps stand.
LEMMA StageRecordedKeeps ==
  ASSUME SeqInv, NEW r \in Runs, StageRecorded(r)
  PROVE  RunInv(r)'
<1>1. Forward(r) /\ Recorded(r) /\ stage[r] \in DOMAIN Stages
  BY DEF SeqInv, RunInv, StageRecorded, Forward
<1>2. CASE stage[r] < Len(Stages) /\ CallForward(r, stage[r] + 1)
  <2>1. stage[r] + 1 \in DOMAIN Stages
    BY <1>1, <1>2, Plan
  <2>2. \A j \in DOMAIN Stages : \A s \in StepsOf(j) :
          (j < stage[r] + 1 => Kept(r, s)) /\ (j >= stage[r] + 1 => ~Stands(r, s))
    BY <1>1, Plan DEF Forward, Recorded
  <2> QED BY <1>2, <2>1, <2>2, CallForwardKeeps DEF SeqInv
<1>3. CASE /\ stage[r] = Len(Stages) /\ Finish(r, Success)
           /\ UNCHANGED <<attempt, stage, failedAt, clean, pending, stepVars, effects>>
  <2>1. Tag(r)' = Tag(r)
    BY <1>3, SameTag
  <2>2. phase'[r] = "finishing" /\ report'[r] = Success
    BY <1>3 DEF Finish, SeqInv, TypeInv, TypeOK
  <2>3. \A s \in Compensable : Stands(r, s)
    BY <1>1, <1>3, Plan DEF Forward, Recorded, Kept
  <2>4. \A s \in Compensable : Stands(r, s)'
    BY <1>3, <2>1, <2>3 DEF Stands
  <2>5. Honest(r)'
    BY <2>2, <2>4, Plan DEF Honest, Success
  <2> QED BY <2>2, <2>5 DEF RunInv
<1> QED BY <1>2, <1>3 DEF StageRecorded

\* What compensating a stage asks of the stages, and what it leaves of them.
LEMMA CompensateKeeps ==
  ASSUME TypeInv, NEW r \in Runs, NEW i \in DOMAIN Stages, Compensate(r, i),
         UNCHANGED <<attempt, result, exception, effects>>,
         failedAt'[r] \in DOMAIN Stages, i <= failedAt'[r],
         clean'[r] = clean[r] \/ i = failedAt'[r],
         ~clean'[r] => \E j \in i + 1 .. failedAt'[r] : \E s \in StepsOf(j) : state[s] = "compensationFailed",
         \A j \in DOMAIN Stages : \A s \in StepsOf(j) :
           /\ j < i => Kept(r, s)
           /\ j = i => Kept(r, s) \/ (state[s] = "failed" /\ ~Stands(r, s))
           /\ i < j /\ j <= failedAt'[r] => Undone(r, s) /\ ~Awaited(r, s)
           /\ j > failedAt'[r] => ~Stands(r, s),
         \A s \in StepsOf(failedAt'[r]) : OfThisAttempt(r, s)
  PROVE  Backward(r)'
<1>1. Tag(r)' = Tag(r)
  BY SameTag
<1>2. /\ stage'[r] = i
      /\ pending'[r] = {Effect(s, Tag(r)) : s \in {t \in StepsOf(i) : t \in Compensable /\ state[t] = "succeeded"}}
      /\ \A s \in Steps : state'[s] = IF s \in StepsOf(i) \ Compensable /\ state[s] = "succeeded"
                                      THEN "rolledBack" ELSE state[s]
  <2>1. \A s \in StepsOf(i) : state[s] = "succeeded" => result[s] = Tag(r)
    BY Plan DEF Kept
  <2> QED BY <2>1 DEF Compensate, TypeInv, TypeOK
<1>3. \A s : (Stands(r, s)' <=> Stands(r, s)) /\ (OfThisAttempt(r, s)' <=> OfThisAttempt(r, s))
  BY <1>1 DEF Stands, OfThisAttempt
<1>4. \A s : Awaited(r, s)' <=> s \in StepsOf(i) /\ s \in Compensable /\ state[s] = "succeeded"
  BY <1>1, <1>2, EffectParts DEF Awaited
<1>5. \A s : Stands(r, s) => s \in Compensable
  BY EffectParts DEF Stands, TypeInv, TypeOK
<1>6. \A j \in DOMAIN Stages : \A s \in StepsOf(j) : s \in Steps /\ (j # i => s \notin StepsOf(i))
  BY OneStage, Plan
<1>7. ASSUME NEW j \in DOMAIN Stages, NEW s \in StepsOf(j), j < i
      PROVE  Kept(r, s)'
  <2>1. Kept(r, s)
    BY <1>7
  <2>2. s \in Steps /\ s \notin StepsOf(i)
    BY <1>6, <1>7, Plan
  <2>3. state'[s] = state[s] /\ result'[s] = result[s]
    BY <1>2, <2>2 DEF Compensate
  <2> QED BY <1>1, <1>3, <2>1, <2>3 DEF Kept
<1>8. ASSUME NEW s \in StepsOf(i)
      PROVE  Undone(r, s)'
  BY <1>2, <1>3, <1>4, <1>5, <1>6 DEF Undone, Kept
<1>9. ASSUME NEW j \in DOMAIN Stages, NEW s \in StepsOf(j), i < j, j <= failedAt'[r]
      PROVE  Undone(r, s)' /\ state'[s] = state[s]
  BY <1>2, <1>3, <1>4, <1>6, <1>9, Plan DEF Undone
<1>10. ~clean'[r] => \E j \in i .. failedAt'[r] : \E s \in StepsOf(j) : state'[s] = "compensationFailed"
  <2> SUFFICES ASSUME ~clean'[r]
               PROVE  \E j \in i .. failedAt'[r] : \E s \in StepsOf(j) : state'[s] = "compensationFailed"
    OBVIOUS
  <2>1. PICK j \in i + 1 .. failedAt'[r] : \E s \in StepsOf(j) : state[s] = "compensationFailed"
    OBVIOUS
  <2>2. j \in DOMAIN Stages /\ i < j /\ j <= failedAt'[r] /\ j \in i .. failedAt'[r]
    BY Plan
  <2> QED BY <1>9, <2>1, <2>2
<1>11. \A x \in pending'[r] : \E s \in StepsOf(stage'[r]) : s \in Compensable /\ x = Effect(s, Tag(r)')
  BY <1>1, <1>2
<1>12. stage'[r] \in 1 .. failedAt'[r]
  BY <1>2, Plan
<1> QED BY <1>1, <1>2, <1>3, <1>7, <1>8, <1>9, <1>10, <1>11, <1>12, Plan DEF Backward, Effect

LEMMA StageFailsKeeps ==
  ASSUME SeqInv, NEW r \in Runs, StageFails(r)
  PROVE  RunInv(r)'
<1>1. Forward(r) /\ pending[r] = {} /\ stage[r] \in DOMAIN Stages
  BY DEF SeqInv, RunInv, StageFails, Forward
<1>2. phase'[r] = "compensating" /\ failedAt'[r] = stage[r] /\ clean'[r] = TRUE
  BY DEF StageFails, SeqInv, TypeInv, TypeOK
<1>3. \A s : ~Awaited(r, s)
  BY <1>1 DEF Awaited
<1>4. \A j \in DOMAIN Stages : \A s \in StepsOf(j) :
        /\ j < stage[r] => Kept(r, s)
        /\ j = stage[r] => Kept(r, s) \/ (state[s] = "failed" /\ ~Stands(r, s))
        /\ j > stage[r] => ~Stands(r, s)
  BY <1>1, <1>3 DEF Forward
<1>5. \A s \in StepsOf(stage[r]) : OfThisAttempt(r, s)
  BY <1>1 DEF Forward
<1>6. Compensate(r, stage[r]) /\ UNCHANGED <<attempt, result, exception, effects>>
  BY DEF StageFails
<1>7. Backward(r)'
  BY <1>1, <1>2, <1>4, <1>5, <1>6, CompensateKeeps, Plan DEF SeqInv
<1> QED BY <1>2, <1>7 DEF RunInv

LEMMA CompensationSucceedsKeeps ==
  ASSUME SeqInv, NEW r \in Runs, NEW e \in pending[r], CompensationSucceeds(r, e)
  PROVE  RunInv(r)'
<1>1. Backward(r) /\ phase'[r] = "compensating" /\ UNCHANGED <<stage, failedAt, clean, exception, result>>
  BY DEF SeqInv, RunInv, CompensationSucceeds
<1>2. Tag(r)' = Tag(r)
  BY SameTag DEF CompensationSucceeds
<1>3. PICK t \in StepsOf(stage[r]) : t \in Compensable /\ e = Effect(t, Tag(r))
  BY <1>1 DEF Backward
<1>4. stage[r] \in DOMAIN Stages /\ e.step = t /\ t \in Steps
  BY <1>1, <1>3, EffectParts, Plan DEF Backward
<1>5. /\ pending'[r] = pending[r] \ {e} /\ state'[t] = "rolledBack"
      /\ \A s \in Steps : s # t => state'[s] = state[s]
  BY <1>4 DEF CompensationSucceeds, SeqInv, TypeInv, TypeOK
<1>6. \A s : Stands(r, s)' <=> Stands(r, s) /\ s # t
  BY <1>2, <1>3, EffectParts DEF Stands, CompensationSucceeds
<1>7. \A s : Awaited(r, s)' <=> Awaited(r, s) /\ s # t
  BY <1>2, <1>3, <1>5, EffectParts DEF Awaited
<1>8. \A i \in DOMAIN Stages : \A s \in StepsOf(i) : s \in Steps /\ (i # stage[r] => s # t)
  BY <1>4, OneStage, Plan
<1>9. \A s \in Steps : s # t => (Kept(r, s) => Kept(r, s)') /\ (Undone(r, s) => Undone(r, s)')
  BY <1>1, <1>2, <1>5, <1>6, <1>7 DEF Kept, Undone
<1>10. Undone(r, t)'
  BY <1>5, <1>6, <1>7 DEF Undone
<1>11. state[t] = "succeeded"
  BY <1>1, <1>3, <1>4, Plan DEF Backward, Undone, Awaited
<1>12. Backward(r)'
  <2>1. \A x \in pending'[r] : \E s \in StepsOf(stage'[r]) : s \in Compensable /\ x = Effect(s, Tag(r)')
    BY <1>1, <1>2, <1>5 DEF Backward
  <2>2. \A i \in DOMAIN Stages : \A s \in StepsOf(i) :
          /\ i < stage'[r] => Kept(r, s)'
          /\ stage'[r] <= i /\ i <= failedAt'[r] => Undone(r, s)'
          /\ i > failedAt'[r] => ~Stands(r, s)'
    <3>1. \A i \in DOMAIN Stages : i < stage[r] => i # stage[r]
      BY <1>4, Plan
    <3>2. \A i \in DOMAIN Stages : \A s \in StepsOf(i) : i < stage[r] => Kept(r, s)'
      BY <1>1, <1>8, <1>9, <3>1 DEF Backward
    <3>3. \A i \in DOMAIN Stages : \A s \in StepsOf(i) :
            stage[r] <= i /\ i <= failedAt[r] => Undone(r, s)'
      BY <1>1, <1>8, <1>9, <1>10 DEF Backward
    <3>4. \A i \in DOMAIN Stages : \A s \in StepsOf(i) : i > failedAt[r] => ~Stands(r, s)'
      BY <1>1, <1>6 DEF Backward
    <3> QED BY <1>1, <3>2, <3>3, <3>4
  <2>3. ASSUME ~clean'[r]
        PROVE  \E i \in stage'[r] .. failedAt'[r] : \E s \in StepsOf(i) : state'[s] = "compensationFailed"
    <3>1. PICK i \in stage[r] .. failedAt[r] : \E s \in StepsOf(i) : state[s] = "compensationFailed"
      BY <1>1, <2>3 DEF Backward
    <3>2. PICK s \in StepsOf(i) : state[s] = "compensationFailed"
      BY <3>1
    <3>3. i \in DOMAIN Stages
      BY <1>1, <1>4, Plan DEF Backward
    <3>4. s \in Steps /\ s # t
      BY <1>11, <3>2, <3>3, Plan
    <3>5. state'[s] = "compensationFailed"
      BY <1>5, <3>2, <3>4
    <3> QED BY <1>1, <3>5
  <2>4. \A s \in StepsOf(failedAt'[r]) : OfThisAttempt(r, s)'
    BY <1>1, <1>2 DEF Backward, OfThisAttempt
  <2> QED BY <1>1, <2>1, <2>2, <2>3, <2>4 DEF Backward, Effect
<1> QED BY <1>1, <1>12 DEF RunInv

LEMMA CompensationFailsKeeps ==
  ASSUME SeqInv, NEW r \in Runs, NEW e \in pending[r], NEW th \in BOOLEAN, CompensationFails(r, e, th)
  PROVE  RunInv(r)'
<1>1. Backward(r) /\ phase'[r] = "compensating" /\ UNCHANGED <<stage, failedAt, result, effects>>
  BY DEF SeqInv, RunInv, CompensationFails
<1>2. Tag(r)' = Tag(r)
  BY SameTag DEF CompensationFails
<1>3. PICK t \in StepsOf(stage[r]) : t \in Compensable /\ e = Effect(t, Tag(r))
  BY <1>1 DEF Backward
<1>4. stage[r] \in DOMAIN Stages /\ stage[r] \in 1 .. failedAt[r] /\ e.step = t /\ e.tag = Tag(r) /\ t \in Steps
  BY <1>1, <1>3, EffectParts, Plan DEF Backward
<1>5. /\ pending'[r] = pending[r] \ {e} /\ state'[t] = "compensationFailed" /\ ~clean'[r]
      /\ \A s \in Steps : s # t => state'[s] = state[s] /\ exception'[s] = exception[s]
      /\ exception'[t] \in {exception[t], Tag(r)}
  BY <1>4 DEF CompensationFails, SeqInv, TypeInv, TypeOK
<1>6. \A s : Stands(r, s)' <=> Stands(r, s)
  BY <1>1, <1>2 DEF Stands
<1>7. \A s : Awaited(r, s)' <=> Awaited(r, s) /\ s # t
  BY <1>2, <1>3, <1>5, EffectParts DEF Awaited
<1>8. \A i \in DOMAIN Stages : \A s \in StepsOf(i) : s \in Steps /\ (i # stage[r] => s # t)
  BY <1>4, OneStage, Plan
<1>9. \A s \in Steps : s # t => (Kept(r, s) => Kept(r, s)') /\ (Undone(r, s) => Undone(r, s)')
  BY <1>1, <1>2, <1>5, <1>6, <1>7 DEF Kept, Undone
<1>10. Awaited(r, t) /\ Undone(r, t)
  BY <1>1, <1>3, <1>4, Plan DEF Backward, Awaited
<1>11. Undone(r, t)'
  BY <1>3, <1>5, <1>6, <1>7, <1>10 DEF Undone
<1>12. Backward(r)'
  <2>1. \A x \in pending'[r] : \E s \in StepsOf(stage'[r]) : s \in Compensable /\ x = Effect(s, Tag(r)')
    BY <1>1, <1>2, <1>5 DEF Backward
  <2>2. \A i \in DOMAIN Stages : \A s \in StepsOf(i) :
          /\ i < stage'[r] => Kept(r, s)'
          /\ stage'[r] <= i /\ i <= failedAt'[r] => Undone(r, s)'
          /\ i > failedAt'[r] => ~Stands(r, s)'
    <3>1. \A i \in DOMAIN Stages : i < stage[r] => i # stage[r]
      BY <1>4, Plan
    <3>2. \A i \in DOMAIN Stages : \A s \in StepsOf(i) : i < stage[r] => Kept(r, s)'
      BY <1>1, <1>8, <1>9, <3>1 DEF Backward
    <3>3. \A i \in DOMAIN Stages : \A s \in StepsOf(i) :
            stage[r] <= i /\ i <= failedAt[r] => Undone(r, s)'
      BY <1>1, <1>8, <1>9, <1>11 DEF Backward
    <3>4. \A i \in DOMAIN Stages : \A s \in StepsOf(i) : i > failedAt[r] => ~Stands(r, s)'
      BY <1>1, <1>6 DEF Backward
    <3> QED BY <1>1, <3>2, <3>3, <3>4
  <2>3. \E i \in stage'[r] .. failedAt'[r] : \E s \in StepsOf(i) : state'[s] = "compensationFailed"
    BY <1>1, <1>3, <1>4, <1>5
  <2>4. \A s \in StepsOf(failedAt'[r]) : OfThisAttempt(r, s)'
    BY <1>1, <1>2, <1>5, <1>8, Plan DEF Backward, OfThisAttempt
  <2> QED BY <1>1, <2>1, <2>2, <2>3, <2>4 DEF Backward, Effect
<1> QED BY <1>1, <1>12 DEF RunInv

\* The rollback is over: the report is made of what the stages were left in.
LEMMA RolledBackHonestly ==
  ASSUME SeqInv, NEW r \in Runs, StageCompensated(r), PreviousStage(r) = 0,
         Finish(r, Failure(r)), UNCHANGED <<stage, pending, state>>
  PROVE  RunInv(r)'
<1>1. /\ Backward(r) /\ stage[r] = 1 /\ failedAt[r] \in DOMAIN Stages /\ pending[r] = {}
      /\ failedAt[r] \in Nat
  BY Plan DEF SeqInv, RunInv, StageCompensated, Backward, PreviousStage
<1>2. /\ phase'[r] = "finishing" /\ report'[r] = Failure(r) /\ Tag(r)' = Tag(r)
      /\ effects' = effects
  BY SameTag DEF Finish, StageCompensated, SeqInv, TypeInv, TypeOK
<1>3. /\ Failure(r).outcome = IF clean[r] THEN "RolledBack" ELSE "PartiallyRolledBack"
      /\ \/ Failure(r).exception = None
         \/ \E s \in StepsOf(failedAt[r]) : Failure(r).exception = exception[s]
      /\ Failure(r).failures =
           {s \in Steps : \E j \in 1 .. failedAt[r] : s \in StepsOf(j) /\ state[s] = "compensationFailed"}
  BY <1>1, FailureParts
<1>4. ASSUME NEW i \in DOMAIN Stages, NEW s \in StepsOf(i)
      PROVE  Stands(r, s) <=> i <= failedAt[r] /\ state[s] = "compensationFailed"
  <2>1. ~Awaited(r, s)
    BY <1>1 DEF Awaited
  <2>2. CASE i > failedAt[r]
    BY <1>1, <2>2, Plan DEF Backward
  <2>3. CASE i <= failedAt[r]
    <3>1. Undone(r, s)
      BY <1>1, <2>3, Plan DEF Backward
    <3> QED BY <2>1, <2>3, <3>1 DEF Undone
  <2> QED BY <1>1, <2>2, <2>3, Plan
<1>5. ASSUME NEW s \in Compensable PROVE s \in Failure(r).failures <=> Stands(r, s)
  <2>1. PICK i \in DOMAIN Stages : s \in StepsOf(i)
    BY Plan
  <2>2. Stands(r, s) => s \in Failure(r).failures
    BY <1>3, <1>4, <2>1, Plan
  <2>3. s \in Failure(r).failures => Stands(r, s)
    <3> SUFFICES ASSUME NEW j \in 1 .. failedAt[r], s \in StepsOf(j), state[s] = "compensationFailed"
                 PROVE  Stands(r, s)
      BY <1>3
    <3>1. failedAt[r] \in DOMAIN Stages
      BY <1>1 DEF Backward
    <3>2. j \in DOMAIN Stages /\ j <= failedAt[r]
      BY <3>1, Plan
    <3> QED BY <1>4, <3>2
  <2> QED BY <2>2, <2>3
<1>6. clean[r] => Fresh(r)
  <2> SUFFICES ASSUME clean[r], NEW e \in effects, e.tag.run = r PROVE FALSE
    BY DEF Fresh
  <2>1. e = Effect(e.step, Tag(r)) /\ e.step \in Compensable
    BY DEF SeqInv, Owned, TypeInv, TypeOK, Effect
  <2>2. Stands(r, e.step)
    BY <2>1 DEF Stands
  <2>3. PICK i \in DOMAIN Stages : e.step \in StepsOf(i)
    BY <2>1, Plan
  <2>4. state[e.step] = "compensationFailed" /\ i <= failedAt[r]
    BY <1>4, <2>2, <2>3
  <2>5. Undone(r, e.step)
    BY <1>1, <2>3, <2>4, Plan DEF Backward
  <2> QED BY <2>4, <2>5 DEF Undone
<1>7. ~clean[r] => Failure(r).failures # {}
  BY <1>1, <1>3, Plan DEF Backward
<1>8. Failure(r).exception \in {None, Tag(r)}
  BY <1>1, <1>3 DEF Backward, OfThisAttempt
<1>9. \A s : Stands(r, s)' <=> Stands(r, s)
  BY <1>2 DEF Stands
<1>10. Fresh(r)' <=> Fresh(r)
  BY <1>2 DEF Fresh
<1>11. Honest(r)'
  <2>1. /\ report'[r].outcome \in {"RolledBack", "PartiallyRolledBack"}
        /\ report'[r].outcome = "RolledBack" <=> clean[r]
    BY <1>2, <1>3
  <2>2. report'[r].exception \in {None, Tag(r)'}
    BY <1>2, <1>8
  <2>3. \A s \in Compensable : s \in report'[r].failures <=> Stands(r, s)'
    BY <1>2, <1>5, <1>9
  <2> QED BY <1>2, <1>6, <1>7, <1>10, <2>1, <2>2, <2>3 DEF Honest
<1> QED BY <1>2, <1>11 DEF RunInv

LEMMA StageCompensatedKeeps ==
  ASSUME SeqInv, NEW r \in Runs, StageCompensated(r)
  PROVE  RunInv(r)'
<1>1. CASE PreviousStage(r) # 0 /\ Compensate(r, PreviousStage(r)) /\ UNCHANGED <<phase, report>>
  <2> DEFINE i == PreviousStage(r)
  <2>1. Backward(r) /\ phase'[r] = "compensating" /\ pending[r] = {}
    BY <1>1 DEF SeqInv, RunInv, StageCompensated
  <2>2. /\ UNCHANGED <<attempt, failedAt, clean, result, exception, effects>>
        /\ failedAt'[r] = failedAt[r] /\ clean'[r] = clean[r]
    BY DEF StageCompensated
  <2>3. /\ failedAt[r] \in DOMAIN Stages /\ i \in DOMAIN Stages /\ i = stage[r] - 1 /\ i <= failedAt[r]
        /\ stage[r] \in Nat /\ i \in Nat /\ i + 1 = stage[r]
    BY <1>1, <2>1, Plan DEF Backward, PreviousStage
  <2>4. \A s : ~Awaited(r, s)
    BY <2>1 DEF Awaited
  <2>5. ASSUME NEW j \in DOMAIN Stages, NEW s \in StepsOf(j)
        PROVE  /\ j < i => Kept(r, s)
               /\ j = i => Kept(r, s)
               /\ i < j /\ j <= failedAt[r] => Undone(r, s)
               /\ j > failedAt[r] => ~Stands(r, s)
    <3>1. /\ j < stage[r] => Kept(r, s)
          /\ stage[r] <= j /\ j <= failedAt[r] => Undone(r, s)
          /\ j > failedAt[r] => ~Stands(r, s)
      BY <2>1 DEF Backward
    <3>2. j \in Nat /\ stage[r] \in Nat /\ i \in Nat /\ i + 1 = stage[r] /\ i <= failedAt[r] /\ failedAt[r] \in Nat
      BY <2>3, Plan
    <3> HIDE DEF i
    <3>3. /\ j < i => j < stage[r]
          /\ j = i => j < stage[r]
          /\ i < j => stage[r] <= j
      BY <3>2
    <3> QED BY <3>1, <3>3
  <2>6. ~clean[r] => \E j \in i + 1 .. failedAt[r] : \E s \in StepsOf(j) : state[s] = "compensationFailed"
    <3>1. ~clean[r] => \E j \in stage[r] .. failedAt[r] : \E s \in StepsOf(j) : state[s] = "compensationFailed"
      BY <2>1 DEF Backward
    <3> HIDE DEF i
    <3> QED BY <2>3, <3>1
  <2>7. \A s \in StepsOf(failedAt[r]) : OfThisAttempt(r, s)
    BY <2>1 DEF Backward
  <2>8. Backward(r)'
    <3> HIDE DEF i
    <3>1. Compensate(r, i)
      BY <1>1 DEF i
    <3> QED BY <2>2, <2>3, <2>4, <2>5, <2>6, <2>7, <3>1, CompensateKeeps DEF SeqInv
  <2> QED BY <2>1, <2>8 DEF RunInv
<1>2. CASE PreviousStage(r) = 0 /\ Finish(r, Failure(r)) /\ UNCHANGED <<stage, pending, state>>
  BY <1>2, RolledBackHonestly
<1> QED BY <1>1, <1>2 DEF StageCompensated

\* Only a clean rollback is retried, so a new attempt finds no effect.
LEMMA FinishedKeeps ==
  ASSUME SeqInv, NEW r \in Runs, Finished(r)
  PROVE  RunInv(r)' /\ Owned'
<1>1. Honest(r) /\ phase'[r] \in {"starting", "returned"} /\ UNCHANGED <<effects, report>>
  BY DEF SeqInv, TypeInv, TypeOK, RunInv, Finished
<1>2. CASE Retries(r) /\ phase' = [phase EXCEPT ![r] = "starting"] /\ attempt' = [attempt EXCEPT ![r] = @ + 1]
  <2>1. Fresh(r) /\ Fresh(r)'
    BY <1>1, <1>2 DEF Retries, Honest, Fresh
  <2>2. \A q \in Runs \ {r} : Tag(q)' = Tag(q)
    BY <1>2, SameTag DEF SeqInv, TypeInv, TypeOK
  <2>3. Owned'
    BY <1>1, <2>1, <2>2 DEF SeqInv, Owned, Fresh
  <2>4. phase'[r] = "starting"
    BY <1>2 DEF SeqInv, TypeInv, TypeOK
  <2> QED BY <2>1, <2>3, <2>4 DEF RunInv
<1>3. CASE phase' = [phase EXCEPT ![r] = "returned"] /\ UNCHANGED attempt
  <2>1. Tag(r)' = Tag(r)
    BY <1>3, SameTag
  <2>2. Honest(r)'
    BY <1>1, <2>1 DEF Honest, Stands, Fresh
  <2>3. phase'[r] = "returned"
    BY <1>3 DEF SeqInv, TypeInv, TypeOK
  <2>4. Owned'
    BY <1>1, <1>3, OwnedStep DEF SeqInv
  <2> QED BY <2>2, <2>3, <2>4 DEF RunInv
<1> QED BY <1>2, <1>3 DEF Finished

LEMMA StoreRejectsKeeps ==
  ASSUME SeqInv, NEW r \in Runs, StoreRejects(r)
  PROVE  RunInv(r)'
<1>1. phase'[r] = "threw"
  BY DEF StoreRejects, SeqInv, TypeInv, TypeOK
<1> QED BY <1>1 DEF RunInv

LEMMA SeqInit == Init => SeqInv
<1> SUFFICES ASSUME Init PROVE SeqInv
  OBVIOUS
<1>1. Alone /\ Owned
  BY DEF Init, Alone, Owned, UnderWay
<1>2. \A r \in Runs : RunInv(r)
  BY DEF Init, RunInv, Fresh
<1> QED BY <1>1, <1>2, TypeInit DEF SeqInv

\* The acting run is the one under way, or the first to be after the others.
LEMMA ActorAlone ==
  ASSUME SeqInv, ~Overlap, NEW r \in Runs, Begin(r) \/ Step(r)
  PROVE  \A q \in Runs \ {r} : ~UnderWay(q)
<1>1. CASE Begin(r)
  BY <1>1 DEF Begin
<1>2. CASE Step(r)
  <2>1. UnderWay(r)
    BY <1>2 DEF Step, Started, ForwardEnds, ForwardSucceeds, ForwardFails, StageSucceeds, StageRecorded,
                StageFails, CompensationEnds, CompensationSucceeds, CompensationFails, StageCompensated,
                Finished, StoreRejects, UnderWay, Ended
  <2> QED BY <2>1 DEF SeqInv, Alone
<1> QED BY <1>1, <1>2

\* A step of a run touches no other run, and no effect but its own.
LEMMA ActorOnly ==
  ASSUME SeqInv, NEW r \in Runs, Begin(r) \/ Step(r)
  PROVE  /\ \A q \in Runs \ {r} : phase'[q] = phase[q] /\ attempt'[q] = attempt[q] /\ report'[q] = report[q]
         /\ \A e : e.tag.run # r => (e \in effects' <=> e \in effects)
         /\ \A e \in effects' : e \in effects \/ e.tag = Tag(r)
<1>1. ASSUME NEW e \in pending[r], phase[r] \in {"executing", "compensating"} PROVE e.tag = Tag(r)
  <2>1. CASE phase[r] = "executing"
    BY <2>1, EffectParts DEF SeqInv, RunInv, Forward
  <2>2. CASE phase[r] = "compensating"
    BY <2>2, EffectParts DEF SeqInv, RunInv, Backward
  <2> QED BY <1>1, <2>1, <2>2
<1>2. CASE Begin(r) \/ Started(r) \/ StageSucceeds(r) \/ StageFails(r) \/ Finished(r) \/ StoreRejects(r)
  BY <1>2 DEF SeqInv, TypeInv, TypeOK, Begin, Started, CallForward, StageSucceeds, StageFails, Finished, StoreRejects
<1>3. CASE StageRecorded(r) \/ StageCompensated(r)
  BY <1>3 DEF SeqInv, TypeInv, TypeOK, StageRecorded, StageCompensated, CallForward, Finish
<1>4. CASE ForwardEnds(r)
  BY <1>1, <1>4, EffectParts DEF ForwardEnds, ForwardSucceeds, ForwardFails
<1>5. CASE CompensationEnds(r)
  BY <1>1, <1>5, EffectParts DEF CompensationEnds, CompensationSucceeds, CompensationFails
<1> QED BY <1>2, <1>3, <1>4, <1>5 DEF Step

LEMMA ActorKeeps ==
  ASSUME SeqInv, NEW r \in Runs, Begin(r) \/ Step(r)
  PROVE  RunInv(r)'
<1>1. CASE Begin(r) \/ Started(r)
  BY <1>1, BeginKeeps, StartedKeeps
<1>2. CASE ForwardEnds(r)
  BY <1>2, ForwardSucceedsKeeps, ForwardFailsKeeps DEF ForwardEnds
<1>3. CASE StageSucceeds(r) \/ StageRecorded(r) \/ StageFails(r) \/ StageCompensated(r)
  BY <1>3, StageSucceedsKeeps, StageRecordedKeeps, StageFailsKeeps, StageCompensatedKeeps
<1>4. CASE CompensationEnds(r)
  BY <1>4, CompensationSucceedsKeeps, CompensationFailsKeeps DEF CompensationEnds
<1>5. CASE Finished(r) \/ StoreRejects(r)
  BY <1>5, FinishedKeeps, StoreRejectsKeeps
<1> QED BY <1>1, <1>2, <1>3, <1>4, <1>5 DEF Step

LEMMA ActorOwned ==
  ASSUME SeqInv, NEW r \in Runs, Begin(r) \/ Step(r)
  PROVE  Owned'
<1>1. CASE Finished(r)
  BY <1>1, FinishedKeeps
<1>2. CASE ~Finished(r)
  <2>1. attempt' = attempt
    BY <1>2 DEF Step, Begin, Started, CallForward, ForwardEnds, ForwardSucceeds, ForwardFails, StageSucceeds,
                StageRecorded, StageFails, CompensationEnds, CompensationSucceeds, CompensationFails,
                StageCompensated, StoreRejects
  <2> QED BY <2>1, ActorOnly, OwnedStep DEF SeqInv
<1> QED BY <1>1, <1>2

LEMMA SeqStep == ~Overlap /\ SeqInv /\ [Next]_vars => SeqInv'
<1> SUFFICES ASSUME ~Overlap, SeqInv, [Next]_vars PROVE SeqInv'
  OBVIOUS
<1>1. TypeInv'
  BY TypeStep DEF SeqInv
<1>2. CASE UNCHANGED vars
  <2>1. Alone' /\ Owned'
    BY <1>2 DEF SeqInv, Alone, Owned, UnderWay, Tag, vars, runVars
  <2>2. ASSUME NEW r \in Runs PROVE RunInv(r)'
    <3>1. Tag(r)' = Tag(r)
      BY <1>2, SameTag DEF vars, runVars
    <3>2. \A s : /\ Stands(r, s)' <=> Stands(r, s)
                 /\ Awaited(r, s)' <=> Awaited(r, s)
                 /\ OfThisAttempt(r, s)' <=> OfThisAttempt(r, s)
      BY <1>2, <3>1 DEF Stands, Awaited, OfThisAttempt, vars, runVars, stepVars
    <3>3. \A s : (Kept(r, s)' <=> Kept(r, s)) /\ (Undone(r, s)' <=> Undone(r, s))
      BY <1>2, <3>1, <3>2 DEF Kept, Undone, vars, runVars, stepVars
    <3>4. (Fresh(r)' <=> Fresh(r)) /\ (Honest(r)' <=> Honest(r))
      BY <1>2, <3>1, <3>2 DEF Fresh, Honest, vars, runVars
    <3>5. (Forward(r)' <=> Forward(r)) /\ (Recorded(r)' <=> Recorded(r))
      BY <1>2, <3>1, <3>2, <3>3 DEF Forward, Recorded, Effect, vars, runVars, stepVars
    <3>6. Backward(r)' <=> Backward(r)
      BY <1>2, <3>1, <3>2, <3>3 DEF Backward, Effect, vars, runVars, stepVars
    <3> QED BY <1>2, <3>4, <3>5, <3>6 DEF SeqInv, RunInv, vars, runVars
  <2> QED BY <1>1, <2>1, <2>2 DEF SeqInv
<1>3. ASSUME NEW r \in Runs, Begin(r) \/ Step(r) PROVE SeqInv'
  <2>1. Alone' /\ \A q \in Runs \ {r} : RunInv(q)'
    BY <1>3, ActorAlone, ActorOnly, OtherRuns
  <2>2. RunInv(r)' /\ Owned'
    BY <1>3, ActorKeeps, ActorOwned
  <2> QED BY <1>1, <2>1, <2>2 DEF SeqInv
<1> QED BY <1>2, <1>3 DEF Next

LEMMA SeqAlways == ASSUME ~Overlap PROVE Spec => []SeqInv
<1>1. SeqInv /\ [Next]_vars => SeqInv'
  BY SeqStep
<1> QED BY <1>1, SeqInit, PTL DEF Spec

\* The effects of a run are the ones that stand.
LEMMA EffectsStand ==
  ASSUME SeqInv, NEW r \in Runs
  PROVE  EffectsOf(r) = {Effect(s, Tag(r)) : s \in {t \in Compensable : Stands(r, t)}}
<1>1. ASSUME NEW e \in EffectsOf(r) PROVE e = Effect(e.step, Tag(r)) /\ e.step \in Compensable
  BY DEF EffectsOf, SeqInv, Owned, TypeInv, TypeOK, Effect
<1>2. ASSUME NEW s, Stands(r, s) PROVE Effect(s, Tag(r)) \in EffectsOf(r)
  BY <1>2, EffectParts DEF EffectsOf, Stands
<1>3. \A e \in EffectsOf(r) : Stands(r, e.step)
  BY <1>1 DEF Stands, EffectsOf
<1> QED BY <1>1, <1>2, <1>3

\* When runs follow one another, a run that returned has either created the
\* effect of every step, from one attempt, or left none, whichever steps,
\* compensations and earlier runs failed; the exception is the rollback it
\* reports as partial.
THEOREM SagaAllOrNothing == ASSUME ~Overlap PROVE Spec => []AllOrNothing
<1>1. SeqInv => AllOrNothing
  <2> SUFFICES ASSUME SeqInv, NEW r \in Runs, phase[r] = "returned", report[r].outcome # "PartiallyRolledBack"
               PROVE  EffectsOf(r) = IF report[r].outcome = "Succeeded"
                                     THEN {Effect(s, Tag(r)) : s \in Compensable} ELSE {}
    BY DEF AllOrNothing
  <2>1. Honest(r)
    BY DEF SeqInv, RunInv
  <2>2. CASE report[r].outcome = "Succeeded"
    BY <2>1, <2>2, EffectsStand DEF Honest
  <2>3. CASE report[r].outcome = "RolledBack"
    BY <2>1, <2>3 DEF Honest, Fresh, EffectsOf
  <2> QED BY <2>1, <2>2, <2>3 DEF Honest
<1> QED BY <1>1, SeqAlways, PTL

\* A partial rollback reports the effects it left, all of them and no other,
\* and no error of an earlier attempt or run.
THEOREM SagaOrphansReported == ASSUME ~Overlap PROVE Spec => []OrphansReported
<1>1. SeqInv => OrphansReported
  <2> SUFFICES ASSUME SeqInv, NEW r \in Runs, phase[r] = "returned"
               PROVE  /\ report[r].exception \in {None, Tag(r)}
                      /\ report[r].outcome = "PartiallyRolledBack" =>
                           /\ report[r].failures # {}
                           /\ report[r].failures = {e.step : e \in EffectsOf(r)}
    BY DEF OrphansReported
  <2>1. Honest(r)
    BY DEF SeqInv, RunInv
  <2>2. {e.step : e \in EffectsOf(r)} = {s \in Compensable : Stands(r, s)}
    BY EffectsStand, EffectParts
  <2>3. report[r].failures \subseteq Compensable
    BY DEF SeqInv, TypeInv, TypeOK
  <2> QED BY <2>1, <2>2, <2>3 DEF Honest
<1> QED BY <1>1, SeqAlways, PTL

\* No attempt adds a second effect of a step to one that still stands.
THEOREM SagaNoDoubleEffect == ASSUME ~Overlap PROVE Spec => []NoDoubleEffect
<1>1. SeqInv => NoDoubleEffect
  BY EffectsStand, EffectParts DEF NoDoubleEffect
<1> QED BY <1>1, SeqAlways, PTL

\* A stage is compensated only when the compensations of every later stage
\* have been tried.
THEOREM SagaLastInFirstOut == ASSUME ~Overlap PROVE Spec => []LastInFirstOut
<1>1. SeqInv => LastInFirstOut
  <2> SUFFICES ASSUME SeqInv, NEW r \in Runs, phase[r] = "compensating",
                      NEW i \in DOMAIN Stages, NEW j \in DOMAIN Stages, i < j,
                      NEW e \in pending[r], NEW f \in EffectsOf(r),
                      e.step \in StepsOf(i), f.step \in StepsOf(j)
               PROVE  state[f.step] = "compensationFailed"
    BY DEF LastInFirstOut
  <2>1. Backward(r) /\ stage[r] \in DOMAIN Stages
    BY Plan DEF SeqInv, RunInv, TypeInv
  <2>2. e.step \in StepsOf(stage[r]) /\ i = stage[r]
    BY <2>1, EffectParts, OneStage DEF Backward
  <2>3. Stands(r, f.step)
    BY EffectsStand, EffectParts
  <2>4. j <= failedAt[r]
    BY <2>1, <2>3, Plan DEF Backward
  <2>5. Undone(r, f.step)
    BY <2>1, <2>2, <2>4, Plan DEF Backward
  <2>6. ~Awaited(r, f.step)
    BY <2>1, <2>2, EffectParts, OneStage DEF Backward, Awaited
  <2> QED BY <2>3, <2>5, <2>6 DEF Undone
<1> QED BY <1>1, SeqAlways, PTL

-----------------------------------------------------------------------------
(* Idempotency.                                                            *)

\* The store is empty and nothing is in flight when the middleware is built.
LEMMA StoreInit ==
  IdempotencyInit => IdempotencyInv
BY IdempotencyAssumption
   DEF IdempotencyAssumption, IdempotencyInit, IdempotencyInv, IdempotencyTypeOK, OneHandlerPerKey, HandledOnce, ClaimsHaveHandlers,
       HandlersHaveClaims, CompletedSucceeded, SucceededCompleted, DuplicateOfSuccess,
       Handling, Succeeded, Outcomes, Statuses, Unlapsed

\* Every step of handleAsync, every expiry and every restart keeps the store
\* and the attempts in accord.
LEMMA StoreStep ==
  IdempotencyInv /\ [IdempotencyNext]_idempotencyVars => IdempotencyInv'
<1> SUFFICES ASSUME IdempotencyInv, [IdempotencyNext]_idempotencyVars PROVE IdempotencyInv'
  OBVIOUS
<1> USE IdempotencyAssumption
    DEF IdempotencyAssumption, IdempotencyInv, IdempotencyTypeOK, OneHandlerPerKey, HandledOnce, ClaimsHaveHandlers,
        HandlersHaveClaims, CompletedSucceeded, SucceededCompleted, DuplicateOfSuccess,
        Handling, Succeeded, Outcomes, Statuses, Tracked, Record, Unlapsed
<1>1. ASSUME NEW a \in Attempts, Untracked(a) PROVE IdempotencyInv'
  BY <1>1 DEF Untracked
<1>2. ASSUME NEW a \in Attempts, ClaimWon(a) PROVE IdempotencyInv'
  BY <1>2 DEF ClaimWon, Claimable
<1>3. ASSUME NEW a \in Attempts, HandleDuplicate(a) PROVE IdempotencyInv'
  BY <1>3 DEF HandleDuplicate, Claimable
<1>4. ASSUME NEW a \in Attempts, HandlerSucceeds(a) PROVE IdempotencyInv'
  BY <1>4 DEF HandlerSucceeds
<1>5. ASSUME NEW a \in Attempts, HandlerFails(a) PROVE IdempotencyInv'
  BY <1>5 DEF HandlerFails
<1>6. ASSUME NEW k \in Keys, Expire(k) PROVE IdempotencyInv'
  BY <1>6 DEF Expire
<1>7. CASE Restart
  BY <1>7 DEF Restart
<1>8. CASE UNCHANGED idempotencyVars
  BY <1>8 DEF idempotencyVars
<1> QED
  BY <1>1, <1>2, <1>3, <1>4, <1>5, <1>6, <1>7, <1>8 DEF IdempotencyNext

\* The middleware and the store are in accord in every reachable state, for
\* any attempts, keys, key strategy and store lifetime.
THEOREM StoreInAccord == IdempotencySpec => []IdempotencyInv
BY StoreInit, StoreStep, PTL DEF IdempotencySpec

\* Overlapping deliveries of one key never run the handler concurrently,
\* unless a claim expires under a running handler.
THEOREM ClaimExcludesOthers == IdempotencySpec => []OneHandlerPerKey
<1>1. IdempotencyInv => OneHandlerPerKey
  BY DEF IdempotencyInv
<1> QED
  BY StoreInAccord, <1>1, PTL

\* A key is handled successfully at most once while its records live, also
\* when the process restarts with a handler in flight.
THEOREM EffectOnce == IdempotencySpec => []HandledOnce
<1>1. IdempotencyInv => HandledOnce
  BY DEF IdempotencyInv
<1> QED
  BY StoreInAccord, <1>1, PTL

\* A claim in the store always has a handler in flight that will complete or
\* release it, also when records expire and the process restarts.
THEOREM NoOrphanedClaim == IdempotencySpec => []ClaimsHaveHandlers
<1>1. IdempotencyInv => ClaimsHaveHandlers
  BY DEF IdempotencyInv
<1> QED
  BY StoreInAccord, <1>1, PTL

\* Under Throw only a duplicate of a success is acknowledged unhandled.
THEOREM ThrowNeverSwallows == IdempotencySpec => []DuplicateOfSuccess
<1>1. IdempotencyInv => DuplicateOfSuccess
  BY DEF IdempotencyInv
<1> QED
  BY StoreInAccord, <1>1, PTL
=============================================================================
