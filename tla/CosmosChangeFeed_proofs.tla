----------------------- MODULE CosmosChangeFeed_proofs -----------------------
(***************************************************************************)
(* FeedInv is inductive together with TypeOK, for a feed and pages of any  *)
(* length, every set of configurations and any number of restarts; the     *)
(* safety properties the runs check follow from it.                        *)
(***************************************************************************)
EXTENDS CosmosChangeFeed, TLAPS

Inv == TypeOK /\ FeedInv

\* Nothing has been delivered when the first process starts.
LEMMA InvInit == Init => Inv
<1> SUFFICES ASSUME Init PROVE Inv
  OBVIOUS
<1>1. TypeOK
  <2> USE CosmosAssumption DEF CosmosAssumption, Init, Undefined
  <2>1. config \in Configs /\ head \in 0 .. FeedLength /\ restarts \in 0 .. MaxRestarts
    OBVIOUS
  <2>2. /\ token \in 0 .. head /\ checkpointed \in 0 .. head /\ origin \in 0 .. head
        /\ position \in -1 .. head /\ start \in 0 .. head
    OBVIOUS
  <2>3. phase \in Phases /\ writer \in {"none", "handler", "auto", "skip"}
    BY DEF Phases
  <2>4. aborted \in BOOLEAN /\ hasCheckpointed \in BOOLEAN /\ disturbed \in BOOLEAN
    OBVIOUS
  <2>5. fate \in [Documents -> Fates] /\ again \subseteq Documents
    BY DEF Fates
  <2> QED
    BY <2>1, <2>2, <2>3, <2>4, <2>5 DEF TypeOK
<1>2. FeedInv
  BY <1>1 DEF Init, TypeOK, FeedInv, DurableCovered, PassedCovered, HandledOnce, Dispatching,
              CoveredUpTo, HandledUpTo, Undefined, Documents
<1> QED
  BY <1>1, <1>2 DEF Inv

\* Every step of the loop, the workers, the host and the process keeps it.
LEMMA InvStep == Inv /\ [Next]_vars => Inv'
<1> SUFFICES ASSUME Inv, [Next]_vars PROVE Inv'
  OBVIOUS
<1> USE CosmosAssumption
    DEF CosmosAssumption, Inv, TypeOK, FeedInv, DurableCovered, PassedCovered, HandledOnce, Automatic,
        Dispatching, CoveredUpTo, Covered, HandledUpTo, Undefined, Now, Phases, Fates,
        Documents, feed, loop, history, Loop, From, Page
<1>1. CASE TokenRead
  BY <1>1 DEF TokenRead
<1>2. CASE TokenReadRejects
  BY <1>2 DEF TokenReadRejects
<1>3. CASE ReadFails
  BY <1>3 DEF ReadFails
<1>4. CASE NotModified
  BY <1>4 DEF NotModified
<1>5. CASE Deliver
  <2>1. PICK last \in position + 1 .. position + MaxItemCount :
          /\ last <= head /\ position' = last
          /\ fate' = [p \in Documents |->
               IF position < p /\ p <= last /\ fate[p] = "new" THEN "delivered" ELSE fate[p]]
    BY <1>5 DEF Deliver
  <2>2. /\ phase = "polling" /\ position # Now /\ phase' = "handling"
        /\ start' = position /\ hasCheckpointed' = FALSE
        /\ UNCHANGED <<feed, writer, aborted, checkpointed, config, again, origin, disturbed, restarts>>
    BY <1>5 DEF Deliver
  <2>3. TypeOK'
    <3>1. position' \in -1 .. head /\ start' \in 0 .. head
      BY <2>1, <2>2
    <3>2. fate' \in [Documents -> Fates]
      BY <2>1
    <3> QED
      BY <2>2, <3>1, <3>2
  <2>4. \A p \in Documents : fate[p] # "new" => fate'[p] = fate[p]
    BY <2>1
  <2>5. \A p \in Documents : fate'[p] = "handled" => fate[p] = "handled"
    BY <2>1
  <2>6. \A p \in Page' : fate'[p] # "new"
    BY <2>1, <2>2
  <2> QED
    BY <2>1, <2>2, <2>3, <2>4, <2>5, <2>6
<1>6. CASE Wake
  BY <1>6 DEF Wake
<1>7. CASE HandlerCheckpoints
  BY <1>7 DEF HandlerCheckpoints, Persist
<1>8. CASE HandlerSucceeds
  <2>1. /\ phase = "handling"
        /\ fate' = [p \in Documents |-> IF p \in Page THEN "handled" ELSE fate[p]]
        /\ again' = again \cup {p \in Page : fate[p] = "handled"}
        /\ UNCHANGED <<feed, aborted, hasCheckpointed, config, origin, disturbed, restarts>>
        /\ UNCHANGED <<position, start>>
    BY <1>8 DEF HandlerSucceeds, Persist, Completed
  <2>2. CoveredUpTo(position)'
    BY <2>1
  <2>3. Automatic /\ ~disturbed => again' = {} /\ HandledUpTo(position)'
    <3>1. SUFFICES ASSUME Automatic, ~disturbed PROVE again' = {} /\ HandledUpTo(position)'
      OBVIOUS
    <3>2. \A p \in Documents : fate[p] = "handled" => p <= start
      BY <2>1, <3>1
    <3>3. {p \in Page : fate[p] = "handled"} = {}
      BY <3>2
    <3>4. again' = {}
      BY <2>1, <3>1, <3>3
    <3>5. HandledUpTo(position)'
      BY <2>1, <3>2
    <3> QED
      BY <3>4, <3>5
  <2>4. CASE PersistsAfterSuccess /\ Persist("auto")
    <3>1. TypeOK'
      <4>1. fate' \in [Documents -> Fates] /\ again' \subseteq Documents
        BY <2>1
      <4> QED
        BY <2>1, <2>4, <4>1 DEF Persist
    <3> QED
      BY <2>1, <2>2, <2>3, <2>4, <3>1 DEF Persist
  <2>5. CASE ~PersistsAfterSuccess /\ Completed
    <3>1. Automatic => checkpointed = position
      BY <2>1, <2>5 DEF PersistsAfterSuccess
    <3> QED
      BY <2>1, <2>2, <2>3, <2>5, <3>1 DEF Completed
  <2> QED
    BY <1>8, <2>4, <2>5 DEF HandlerSucceeds
<1>9. CASE HandlerFails
  <2>1. /\ phase = "handling"
        /\ fate' = [p \in Documents |->
             IF config.skip /\ p \in Page /\ fate[p] = "delivered" THEN "skipped" ELSE fate[p]]
        /\ UNCHANGED <<feed, aborted, hasCheckpointed, config, again, origin, disturbed, restarts>>
    BY <1>9 DEF HandlerFails
  <2>2. CASE config.skip /\ Persist("skip")
    <3>1. TypeOK'
      <4>1. fate' \in [Documents -> Fates]
        BY <2>1
      <4> QED
        BY <2>1, <2>2, <4>1 DEF Persist
    <3>2. CoveredUpTo(position)'
      <4>1. \A p \in Page : fate[p] \in {"delivered", "vouched", "handled", "skipped"}
        BY <2>1
      <4> QED
        BY <2>1, <2>2, <4>1 DEF Persist
    <3>3. \A p \in Documents : fate'[p] = "handled" => fate[p] = "handled"
      BY <2>1
    <3> QED
      BY <2>1, <2>2, <3>1, <3>2, <3>3 DEF Persist
  <2>3. CASE ~config.skip /\ Rewind
    <3>1. fate' = fate
      BY <2>1, <2>3
    <3> QED
      BY <2>1, <2>3, <3>1 DEF Rewind
  <2> QED
    BY <1>9, <2>2, <2>3 DEF HandlerFails, Caught
<1>10. CASE HandlerCancelled
  BY <1>10 DEF HandlerCancelled, Rewind
<1>11. CASE WriteResolves
  BY <1>11 DEF WriteResolves, Completed
<1>12. CASE WriteRejects
  BY <1>12 DEF WriteRejects, Caught, Persist, Rewind
<1>13. CASE DocumentChanges
  BY <1>13 DEF DocumentChanges
<1>14. CASE Stop
  BY <1>14 DEF Stop
<1>15. CASE Crash
  BY <1>15 DEF Crash
<1>16. CASE Restart
  <2>1. /\ phase \in {"ended", "dead"} /\ phase' = "readingToken"
        /\ restarts < MaxRestarts /\ restarts' = restarts + 1
        /\ writer' = "none" /\ aborted' = FALSE /\ hasCheckpointed' = FALSE
        /\ checkpointed' = 0 /\ position' = 0 /\ start' = 0
        /\ UNCHANGED <<feed, config, fate, again, origin>>
    BY <1>16 DEF Restart
  <2>2. disturbed' \in BOOLEAN /\ (~disturbed' => ~disturbed /\ checkpointed = token)
    BY <1>16 DEF Restart
  <2>3. TypeOK'
    <3>1. phase' \in Phases /\ restarts' \in 0 .. MaxRestarts /\ disturbed' \in BOOLEAN
      BY <2>1, <2>2
    <3>2. checkpointed' \in 0 .. head /\ position' \in -1 .. head /\ start' \in 0 .. head
      BY <2>1
    <3> QED
      BY <2>1, <3>1, <3>2
  <2>4. Automatic' /\ ~disturbed' => again' = {} /\ HandledUpTo(token)'
    BY <2>1, <2>2
  <2> QED
    BY <2>1, <2>3, <2>4
<1>17. CASE UNCHANGED vars
  BY <1>17 DEF vars
<1> QED
  BY <1>1, <1>2, <1>3, <1>4, <1>5, <1>6, <1>7, <1>8, <1>9, <1>10, <1>11, <1>12,
     <1>13, <1>14, <1>15, <1>16, <1>17 DEF Next

\* The invariant holds in every reachable state: any feed, any page size, any
\* of the workers' options, failures of reads and writes, crashes, restarts.
THEOREM FeedInvariance == Spec => [](TypeOK /\ FeedInv)
<1>1. Inv => TypeOK /\ FeedInv
  BY DEF Inv
<1> QED
  BY InvInit, InvStep, <1>1, PTL DEF Spec

\* Type correctness of the processor's state.
THEOREM CosmosTypeOK == Spec => []TypeOK
BY FeedInvariance, PTL

\* No restart resumes behind a document that was neither handled nor skipped;
\* a batch cancelled by a stop is never made durable.
THEOREM DurableOnlyCovered == Spec => []DurableCovered
<1>1. FeedInv => DurableCovered
  BY DEF FeedInv
<1> QED
  BY FeedInvariance, <1>1, PTL

\* The loop moves on only past what was handled or skipped.
THEOREM PassedOnlyCovered == Spec => []PassedCovered
<1>1. FeedInv => PassedCovered
  BY DEF FeedInv
<1> QED
  BY FeedInvariance, <1>1, PTL

\* With automatic checkpoints a document is handled with success once until a
\* process ends with a checkpoint the store has not recorded.
THEOREM SuccessOnce == Spec => []HandledOnce
<1>1. FeedInv => HandledOnce
  BY DEF FeedInv
<1> QED
  BY FeedInvariance, <1>1, PTL
=============================================================================
