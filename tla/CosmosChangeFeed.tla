-------------------------- MODULE CosmosChangeFeed --------------------------
(***************************************************************************)
(* The Cosmos DB change feed: the poll loop of the processor that          *)
(* CosmosChangeFeedProcessorFactory creates, the two workers that handle   *)
(* its batches, the durable checkpoint, stops, crashes and restarts.       *)
(*                                                                         *)
(* A document is its place in the feed; a continuation token is the last   *)
(* document it has passed.  An action is the code between two awaits.      *)
(* The change feed and the checkpoint store are external: a read or a      *)
(* write may fail, and a write that is reported failed may have been made. *)
(* The handler keeps CosmosChangeFeedStreamCheckpointer's condition: it    *)
(* checkpoints a batch once everything in the batch is safe.               *)
(*                                                                         *)
(* Bounds: FeedLength documents, MaxRestarts processes after the first.    *)
(***************************************************************************)
EXTENDS Integers

CONSTANTS
  FeedLength,
  MaxItemCount,           \* maxItemCount: the documents of a page
  Configs,                \* the configurations a behaviour may have
  MaxRestarts

Configurations ==
  [worker : {"latestVersion", "allVersions"}, autoCheckpoint : BOOLEAN,
   skip : BOOLEAN, startFrom : {"now", "beginning"}]

ASSUME CosmosAssumption ==
  /\ FeedLength \in Nat /\ MaxItemCount \in Nat \ {0} /\ MaxRestarts \in Nat
  /\ Configs \subseteq Configurations

Documents == 1 .. FeedLength
Undefined == 0            \* no continuation token
Now == -1                 \* an iterator that has not fixed its place yet

VARIABLES
  config,                 \* the worker and its options; skip is
                          \* catchHandlerExceptions || atMostOnce
  head,                   \* the documents in the feed
  token,                  \* the store: the durable continuation token
  phase,                  \* what the poll loop awaits
  writer,                 \* who called persist: the handler, or the worker
                          \* after success (auto) or failure (skip)
  aborted,                \* controller.signal.aborted
  checkpointed,           \* run()'s local
  position, start,        \* the iterator, and where the page began
  hasCheckpointed,        \* of the page's checkpointer
  fate,                   \* history: what became of a document
  again,                  \* history: documents handled twice with success
  origin,                 \* history: where an iterator last fixed "now"
  disturbed, restarts     \* history

feed == <<head, token>>
loop == <<phase, writer, aborted, checkpointed, position, start, hasCheckpointed>>
history == <<config, fate, again, origin, disturbed, restarts>>
vars == <<feed, loop, history>>

Fates == {"new", "delivered", "vouched", "handled", "skipped"}
Phases == {"readingToken", "polling", "waiting", "handling", "writing", "ended", "dead"}
Page == {p \in Documents : start < p /\ p <= position}

TypeOK ==
  /\ config \in Configs
  /\ head \in 0 .. FeedLength
  /\ token \in 0 .. head /\ checkpointed \in 0 .. head
  /\ phase \in Phases /\ writer \in {"none", "handler", "auto", "skip"}
  /\ position \in -1 .. head /\ start \in 0 .. head
  /\ origin \in 0 .. head
  /\ aborted \in BOOLEAN /\ hasCheckpointed \in BOOLEAN /\ disturbed \in BOOLEAN
  /\ fate \in [Documents -> Fates] /\ again \subseteq Documents
  /\ restarts \in 0 .. MaxRestarts

Init ==
  /\ config \in Configs
  /\ head \in 0 .. FeedLength /\ token = Undefined
  /\ phase = "readingToken" /\ writer = "none" /\ aborted = FALSE
  /\ checkpointed = Undefined /\ position = 0 /\ start = 0 /\ hasCheckpointed = FALSE
  /\ fate = [p \in Documents |-> "new"] /\ again = {} /\ origin = 0
  /\ disturbed = FALSE /\ restarts = 0

-----------------------------------------------------------------------------
(* The poll loop.                                                          *)

\* getIterator: where reading starts from a token, or from none.
From(c) ==
  IF c # Undefined THEN c ELSE IF config.startFrom = "now" THEN Now ELSE 0

\* The test at the top of the loop.
Loop == phase' = IF aborted THEN "ended" ELSE "polling"

\* Mutant: a restart reads from the configured start, whatever the token.
MutTokenRead ==
  /\ phase = "readingToken"
  /\ checkpointed' = token /\ position' = From(Undefined)
  /\ Loop
  /\ UNCHANGED <<feed, writer, aborted, start, hasCheckpointed, history>>

TokenRead ==
  /\ phase = "readingToken"
  /\ checkpointed' = token /\ position' = From(token)
  /\ Loop
  /\ UNCHANGED <<feed, writer, aborted, start, hasCheckpointed, history>>

\* run() rejects, and nothing awaits it before stopAsync does.
TokenReadRejects ==
  /\ phase = "readingToken"
  /\ phase' = "dead"
  /\ UNCHANGED <<feed, writer, aborted, checkpointed, position, start, hasCheckpointed, history>>

ReadFails ==
  /\ phase = "polling"
  /\ phase' = "waiting"
  /\ UNCHANGED <<feed, writer, aborted, checkpointed, position, start, hasCheckpointed, history>>

\* An iterator that starts from now fixes its place when it is first read.
NotModified ==
  /\ phase = "polling" /\ position \in {Now, head}
  /\ phase' = "waiting" /\ position' = head
  /\ origin' = IF position = Now THEN head ELSE origin
  /\ UNCHANGED <<feed, writer, aborted, checkpointed, start, hasCheckpointed,
                 config, fate, again, disturbed, restarts>>

Deliver ==
  /\ phase = "polling" /\ position # Now
  /\ \E last \in position + 1 .. position + MaxItemCount :
       /\ last <= head
       /\ position' = last
       /\ fate' = [p \in Documents |->
            IF position < p /\ p <= last /\ fate[p] = "new" THEN "delivered" ELSE fate[p]]
  /\ phase' = "handling" /\ start' = position /\ hasCheckpointed' = FALSE
  /\ UNCHANGED <<feed, writer, aborted, checkpointed, config, again, origin, disturbed, restarts>>

\* The delay ends, at once when the signal is aborted.
Wake ==
  /\ phase = "waiting"
  /\ Loop
  /\ UNCHANGED <<feed, writer, aborted, checkpointed, position, start, hasCheckpointed, history>>

\* The hook moves checkpointed, then asks the store.
Persist(by) ==
  /\ checkpointed' = position
  /\ phase' = "writing" /\ writer' = by
  /\ UNCHANGED <<position, start>>

\* Mutant: the iterator is kept after a failed batch.
MutRewind ==
  /\ phase' = "waiting" /\ writer' = "none"
  /\ UNCHANGED <<position, start, checkpointed>>

\* dispatch rejected: a new iterator at checkpointed, and a delay.
Rewind ==
  /\ position' = From(checkpointed) /\ start' = 0
  /\ phase' = "waiting" /\ writer' = "none"
  /\ UNCHANGED checkpointed

\* dispatch resolved.
Completed ==
  /\ Loop /\ writer' = "none"
  /\ UNCHANGED <<checkpointed, position, start>>

-----------------------------------------------------------------------------
(* The workers.                                                            *)

HandlerCheckpoints ==
  /\ phase = "handling" /\ config.worker = "latestVersion"
  /\ Persist("handler")
  /\ fate' = [p \in Documents |->
       IF p \in Page /\ fate[p] # "handled" THEN "vouched" ELSE fate[p]]
  /\ UNCHANGED <<feed, aborted, hasCheckpointed, config, again, origin, disturbed, restarts>>

\* The all-versions processor persists whenever the worker returns.
PersistsAfterSuccess ==
  \/ config.worker = "allVersions"
  \/ config.autoCheckpoint /\ ~hasCheckpointed

HandlerSucceeds ==
  /\ phase = "handling"
  /\ \/ PersistsAfterSuccess /\ Persist("auto")
     \/ ~PersistsAfterSuccess /\ Completed
  /\ fate' = [p \in Documents |-> IF p \in Page THEN "handled" ELSE fate[p]]
  /\ again' = again \cup {p \in Page : fate[p] = "handled"}
  /\ UNCHANGED <<feed, aborted, hasCheckpointed, config, origin, disturbed, restarts>>

\* Mutant: skip is not looked at.
MutCaught == Rewind

\* The catch of onChangesAsync, for an error that is no cancellation.
Caught ==
  \/ config.skip /\ Persist("skip")
  \/ ~config.skip /\ Rewind

HandlerFails ==
  /\ phase = "handling"
  /\ Caught
  /\ fate' = [p \in Documents |->
       IF config.skip /\ p \in Page /\ fate[p] = "delivered" THEN "skipped" ELSE fate[p]]
  /\ UNCHANGED <<feed, aborted, hasCheckpointed, config, again, origin, disturbed, restarts>>

\* Mutant: skip mode checkpoints a batch that the shutdown cancelled.
MutHandlerCancelled ==
  /\ phase = "handling" /\ aborted
  /\ Caught
  /\ UNCHANGED <<feed, aborted, hasCheckpointed, history>>

\* The shutdown cancelled the batch: rethrown whatever the options.
HandlerCancelled ==
  /\ phase = "handling" /\ aborted
  /\ Rewind
  /\ UNCHANGED <<feed, aborted, hasCheckpointed, history>>

WriteResolves ==
  /\ phase = "writing"
  /\ token' = checkpointed
  /\ \/ /\ writer = "handler"
        /\ phase' = "handling" /\ writer' = "none" /\ hasCheckpointed' = TRUE
        /\ UNCHANGED <<checkpointed, position, start>>
     \/ writer # "handler" /\ Completed /\ UNCHANGED hasCheckpointed
  /\ UNCHANGED <<head, aborted, history>>

\* The latest-version worker writes after success inside its try, so its catch
\* sees the error; every other rejection reaches the loop, or the handler.
WriteRejects ==
  /\ phase = "writing"
  /\ token' \in {token, checkpointed}
  /\ \/ /\ writer = "handler"
        /\ phase' = "handling" /\ writer' = "none"
        /\ UNCHANGED <<checkpointed, position, start>>
     \/ writer = "auto" /\ config.worker = "latestVersion" /\ Caught
     \/ (writer = "skip" \/ (writer = "auto" /\ config.worker = "allVersions")) /\ Rewind
  /\ UNCHANGED <<head, aborted, hasCheckpointed, history>>

-----------------------------------------------------------------------------
(* The feed, the host and the process.                                     *)

DocumentChanges ==
  /\ head < FeedLength
  /\ head' = head + 1
  /\ UNCHANGED <<token, loop, history>>

\* stopAsync, which then awaits the loop.
Stop ==
  /\ ~aborted /\ phase # "dead"
  /\ aborted' = TRUE
  /\ UNCHANGED <<feed, phase, writer, checkpointed, position, start, hasCheckpointed, history>>

\* A write in flight is made or not.
Crash ==
  /\ phase \notin {"ended", "dead"}
  /\ phase' = "dead" /\ disturbed' = TRUE
  /\ token' \in IF phase = "writing" THEN {token, checkpointed} ELSE {token}
  /\ UNCHANGED <<head, writer, aborted, checkpointed, position, start, hasCheckpointed,
                 config, fate, again, origin, restarts>>

\* A clean stop forgets what a rejected write had to record.
Restart ==
  /\ phase \in {"ended", "dead"} /\ restarts < MaxRestarts
  /\ restarts' = restarts + 1
  /\ disturbed' = (disturbed \/ checkpointed # token)
  /\ phase' = "readingToken" /\ writer' = "none" /\ aborted' = FALSE
  /\ checkpointed' = Undefined /\ position' = 0 /\ start' = 0 /\ hasCheckpointed' = FALSE
  /\ UNCHANGED <<feed, config, fate, again, origin>>

Next ==
  \/ TokenRead \/ TokenReadRejects \/ ReadFails \/ NotModified \/ Deliver \/ Wake
  \/ HandlerCheckpoints \/ HandlerSucceeds \/ HandlerFails \/ HandlerCancelled
  \/ WriteResolves \/ WriteRejects
  \/ DocumentChanges \/ Stop \/ Crash \/ Restart

Spec == Init /\ [][Next]_vars

\* Every call the loop awaits is answered, reads do not fail for ever, and a
\* handler's code ends however often its checkpoint is rejected.
FairSpec ==
  /\ Spec
  /\ WF_vars(TokenRead) /\ WF_vars(Wake)
  /\ WF_vars(ReadFails \/ NotModified \/ Deliver)
  /\ SF_vars(NotModified \/ Deliver)
  /\ SF_vars(HandlerSucceeds \/ HandlerFails \/ HandlerCancelled)
  /\ WF_vars(WriteResolves \/ WriteRejects)

-----------------------------------------------------------------------------

Covered(p) == fate[p] \in {"vouched", "handled", "skipped"}
CoveredUpTo(n) == \A p \in Documents : origin < p /\ p <= n => Covered(p)
Dispatching == phase \in {"handling", "writing"}

\* What the durable token has passed was handled, or failed under skip: no
\* restart loses a document, and a batch cancelled by a stop is never passed.
DurableCovered == CoveredUpTo(token)

\* The iterator in memory has passed nothing that was not handled or skipped,
\* the page in the handler's hands apart.
PassedCovered ==
  /\ phase \in {"polling", "waiting"} => CoveredUpTo(position)
  /\ Dispatching => CoveredUpTo(start)

\* With autoCheckpointOnSuccess a document is handled with success once, unless
\* a process ended with its checkpoint ahead of the durable one.
Automatic == config.autoCheckpoint \/ config.worker = "allVersions"
HandledOnce == Automatic /\ ~disturbed => again = {}

\* No document beyond n was handled.
HandledUpTo(n) == \A p \in Documents : fate[p] = "handled" => p <= n

\* The inductive invariant: everything read is covered, and nothing that was
\* handled lies where the iterator, or one made anew, would read again.
FeedInv ==
  /\ DurableCovered /\ PassedCovered /\ HandledOnce
  /\ CoveredUpTo(checkpointed)
  /\ phase = "writing" => CoveredUpTo(position) /\ checkpointed = position
  /\ phase = "handling" /\ hasCheckpointed => checkpointed = position
  /\ Dispatching => start <= position /\ \A p \in Page : fate[p] # "new"
  /\ Automatic /\ ~disturbed =>
       /\ phase \in {"polling", "waiting"} => HandledUpTo(position)
       /\ phase = "handling" \/ (phase = "writing" /\ writer = "handler") => HandledUpTo(start)
       /\ phase \in {"readingToken", "dead"} => HandledUpTo(token)
       /\ phase \notin {"readingToken", "dead"} => HandledUpTo(checkpointed)

\* "The handler rejected: rewind to the last durable checkpoint so the same
\* batch is redelivered (at-least-once)": a document once delivered is not
\* behind the place where reading starts unless it was handled or skipped.
DeliveredNotPassed ==
  \A p \in Documents : fate[p] = "delivered" => p > origin

\* stopAsync settles, and under skip no document, poison or not, holds up the
\* feed.
FeedProgresses ==
  /\ aborted ~> phase \in {"ended", "dead"}
  /\ \A p \in Documents :
       config.skip /\ Automatic /\ p <= head
         ~> checkpointed >= p \/ p <= origin \/ aborted \/ phase = "dead"

=============================================================================
