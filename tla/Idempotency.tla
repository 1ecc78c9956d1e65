----------------------------- MODULE Idempotency -----------------------------
(***************************************************************************)
(* IdempotencyMiddleware over InMemoryIdempotencyStore.  An attempt is one *)
(* delivery of a message through handleAsync; attempts with one key are    *)
(* redeliveries or duplicates and may overlap in any way, so that several  *)
(* are between tryClaimAsync and their handler's end at once.              *)
(*                                                                         *)
(* An action is the code between two awaits: each method of the store runs *)
(* its body synchronously, in the continuation that calls it.  An expired  *)
(* entry is indistinguishable from a missing one (tryClaimAsync overwrites *)
(* it), so expiry removes it.                                              *)
(***************************************************************************)
CONSTANTS
  Attempts,
  Keys,
  NoKey,            \* what getKey answers for a message that opts out
  KeyOf,            \* the key strategy: a function from attempts to keys
  Behaviors         \* the values of inProgressBehavior a behaviour may have

ASSUME IdempotencyAssumption ==
  /\ NoKey \notin Keys
  /\ KeyOf \in [Attempts -> Keys \cup {NoKey}]
  /\ Behaviors \subseteq {"Skip", "Throw"}

VARIABLES
  outcome,          \* per attempt: how far handleAsync is, or how it ended
  entries,          \* the store's map: the status of a key's live record
  behavior,         \* the option inProgressBehavior
  lapsed            \* history: <<k, s>> when a record of k with status s was
                    \* lost: a claim that expired, a success that expired or
                    \* that a restart forgot

idempotencyVars == <<outcome, entries, behavior, lapsed>>

\* "handling": inside next();  "short": short-circuited as a successful
\* duplicate;  "conflict": IdempotencyConflictException;  "lost": in flight
\* when the process ended.
Outcomes == {"new", "handling", "succeeded", "failed", "short", "conflict", "lost"}
Statuses == {"none", "inProgress", "completed"}

Tracked(a) == KeyOf[a] # NoKey
Handling(k) == {a \in Attempts : outcome[a] = "handling" /\ KeyOf[a] = k}
Succeeded(k) == {a \in Attempts : outcome[a] = "succeeded" /\ KeyOf[a] = k}

-----------------------------------------------------------------------------
(* The store.                                                              *)

\* Mutant: an in-progress record does not stop a claim.
MutClaimable(k) == entries[k] # "completed"

\* tryClaimAsync wins when there is no live record.
Claimable(k) == entries[k] = "none"

Record(k, s) == entries' = [entries EXCEPT ![k] = s]

-----------------------------------------------------------------------------
(* The middleware.                                                         *)

IdempotencyInit ==
  /\ outcome = [a \in Attempts |-> "new"]
  /\ entries = [k \in Keys |-> "none"]
  /\ behavior \in Behaviors
  /\ lapsed = {}

\* No key: the handler runs without touching the store.
Untracked(a) ==
  /\ outcome[a] = "new" /\ ~Tracked(a)
  /\ outcome' = [outcome EXCEPT ![a] = "handling"]
  /\ UNCHANGED <<entries, behavior, lapsed>>

ClaimWon(a) ==
  /\ outcome[a] = "new" /\ Tracked(a)
  /\ Claimable(KeyOf[a])
  /\ Record(KeyOf[a], "inProgress")
  /\ outcome' = [outcome EXCEPT ![a] = "handling"]
  /\ UNCHANGED <<behavior, lapsed>>

\* Mutant: every duplicate is acknowledged.
MutHandleDuplicate(a) ==
  /\ outcome[a] = "new" /\ Tracked(a)
  /\ ~Claimable(KeyOf[a])
  /\ outcome' = [outcome EXCEPT ![a] = "short"]
  /\ UNCHANGED <<entries, behavior, lapsed>>

HandleDuplicate(a) ==
  LET conflict == entries[KeyOf[a]] = "inProgress" /\ behavior = "Throw"
  IN /\ outcome[a] = "new" /\ Tracked(a)
     /\ ~Claimable(KeyOf[a])
     /\ outcome' = [outcome EXCEPT ![a] = IF conflict THEN "conflict" ELSE "short"]
     /\ UNCHANGED <<entries, behavior, lapsed>>

\* next() resolved and wasSuccessful(context): completeAsync.
HandlerSucceeds(a) ==
  /\ outcome[a] = "handling"
  /\ outcome' = [outcome EXCEPT ![a] = "succeeded"]
  /\ \/ Tracked(a) /\ Record(KeyOf[a], "completed")
     \/ ~Tracked(a) /\ UNCHANGED entries
  /\ UNCHANGED <<behavior, lapsed>>

\* Mutant: the claim of a failed handler is kept.
MutFailureKeepsClaim(a) ==
  /\ outcome[a] = "handling"
  /\ outcome' = [outcome EXCEPT ![a] = "failed"]
  /\ UNCHANGED <<entries, behavior, lapsed>>

\* next() rejected, or the result is a failure: releaseAsync, which deletes
\* the entry whoever made it.
HandlerFails(a) ==
  /\ outcome[a] = "handling"
  /\ outcome' = [outcome EXCEPT ![a] = "failed"]
  /\ \/ Tracked(a) /\ Record(KeyOf[a], "none")
     \/ ~Tracked(a) /\ UNCHANGED entries
  /\ UNCHANGED <<behavior, lapsed>>

Expire(k) ==
  /\ entries[k] # "none"
  /\ Record(k, "none")
  /\ lapsed' = lapsed \cup {<<k, entries[k]>>}
  /\ UNCHANGED <<outcome, behavior>>

\* The process ends with its store; its attempts settle nothing.
Restart ==
  /\ outcome' = [a \in Attempts |-> IF outcome[a] = "handling" THEN "lost" ELSE outcome[a]]
  /\ entries' = [k \in Keys |-> "none"]
  /\ lapsed' = lapsed \cup {<<k, "completed">> : k \in {h \in Keys : entries[h] = "completed"}}
  /\ UNCHANGED behavior

IdempotencyNext ==
  \/ \E a \in Attempts : \/ Untracked(a) \/ ClaimWon(a) \/ HandleDuplicate(a)
                         \/ HandlerSucceeds(a) \/ HandlerFails(a)
  \/ \E k \in Keys : Expire(k)
  \/ Restart

IdempotencySpec == IdempotencyInit /\ [][IdempotencyNext]_idempotencyVars

-----------------------------------------------------------------------------
(* Properties.                                                             *)

\* Every variable stays within its type.
IdempotencyTypeOK ==
  /\ outcome \in [Attempts -> Outcomes]
  /\ entries \in [Keys -> Statuses]
  /\ behavior \in Behaviors
  /\ lapsed \in SUBSET (Keys \X {"inProgress", "completed"})

\* No record of k has been lost while it was needed.
Unlapsed(k) == <<k, "inProgress">> \notin lapsed /\ <<k, "completed">> \notin lapsed

\* Overlapping deliveries of one key never run the handler concurrently,
\* unless a claim expires under a running handler.
OneHandlerPerKey ==
  \A k \in Keys : <<k, "inProgress">> \notin lapsed => \A a, b \in Handling(k) : a = b

\* A key is handled successfully at most once while its records live, also
\* when the process restarts with a handler in flight.
HandledOnce ==
  \A k \in Keys : Unlapsed(k) => \A a, b \in Succeeded(k) : a = b

\* A claim belongs to a handler in flight: none is left behind that would turn
\* redeliveries away for ever, also when a handler outlives its record and
\* later deletes or completes another attempt's claim.
ClaimsHaveHandlers ==
  \A k \in Keys : entries[k] = "inProgress" => Handling(k) # {}

\* Under Throw a delivery is acknowledged as a duplicate only of a success, so
\* a failure always leaves its message to the transport.  (Skip, the default,
\* acknowledges a duplicate of a handler in flight that may still fail, which
\* InProgressBehavior names as its cost.)
DuplicateOfSuccess ==
  behavior = "Throw" => \A a \in Attempts : outcome[a] = "short" => Succeeded(KeyOf[a]) # {}

-----------------------------------------------------------------------------
(* The strengthening that makes the invariants above inductive.            *)

\* A running handler's claim is in the store, unless a claim expired.
HandlersHaveClaims ==
  \A k \in Keys :
    <<k, "inProgress">> \notin lapsed /\ Handling(k) # {} => entries[k] = "inProgress"

\* A completed key was handled successfully.
CompletedSucceeded == \A k \in Keys : entries[k] = "completed" => Succeeded(k) # {}

\* A success is remembered, unless a record lapsed.
SucceededCompleted ==
  \A k \in Keys : Unlapsed(k) /\ Succeeded(k) # {} => entries[k] = "completed"

IdempotencyInv ==
  /\ IdempotencyTypeOK /\ OneHandlerPerKey /\ HandledOnce /\ ClaimsHaveHandlers
  /\ HandlersHaveClaims /\ CompletedSucceeded /\ SucceededCompleted
  /\ DuplicateOfSuccess
=============================================================================
