------------------------- MODULE BoundedDispatcher -------------------------
(***************************************************************************)
(* The bounded concurrent dispatcher of Benzene.SelfHost together with the *)
(* capacity-1 channel each of its lanes is built on.                       *)
(*                                                                         *)
(* Node runs one continuation at a time, so an action is the code between  *)
(* two awaits.  Callers of enqueueAsync, the handlers, abort signals and   *)
(* drain calls may run between any two actions.  A continuation that has   *)
(* been woken but has not run yet is a state of its own: the first         *)
(* woken[l] of the suspended writers of lane l, and reader = "woken".      *)
(*                                                                         *)
(* Bound: a behaviour makes at most ItemCount calls of enqueueAsync, one   *)
(* call each of drainAsync and drainLanesAsync.                            *)
(***************************************************************************)
EXTENDS Integers, FiniteSets, Sequences, SequencesExt

CONSTANTS
  LaneCount,           \* number of lanes
  ItemCount,           \* enqueueAsync calls in a behaviour
  Keyed,               \* TRUE when a keySelector was supplied
  KeyOf,               \* the selector: a function from items to integers
  CatchExceptions,     \* the option of the same name
  SequentialPerKey,    \* TRUE: a call is made only once the calls made before
                       \* it for the same key have settled
  LaneSets             \* the sets of lanes drainLanesAsync is called with

Items == 1 .. ItemCount
Lanes == 0 .. LaneCount - 1
NoItem == 0
NoLane == -1

ASSUME DispatcherAssumption ==
  /\ LaneCount \in Nat \ {0}
  /\ ItemCount \in Nat
  /\ Keyed \in BOOLEAN
  /\ KeyOf \in [Items -> Int]
  /\ CatchExceptions \in BOOLEAN
  /\ SequentialPerKey \in BOOLEAN
  /\ LaneSets \subseteq SUBSET Lanes

VARIABLES
  stage,               \* where the enqueueAsync call, then the item, is
  laneOf,              \* the lane the item was routed to
  aborted,             \* items whose abort signal has fired
  slot,                \* per lane: the channel's one slot
  completed,           \* per lane: the channel was completed
  writers,             \* per lane: items suspended in write, in queue order
  woken,               \* per lane: how many of them have been woken; the
                       \* others are the channel's writeWaiters
  reader,              \* per lane: the consumer loop
  laneOutstanding,     \* per lane: the outstanding count
  roundRobinCounter,
  drain,               \* the drainAsync call
  quiesce              \* the drainLanesAsync call and its target lanes

vars == <<stage, laneOf, aborted, slot, completed, writers, woken,
          reader, laneOutstanding, roundRobinCounter, drain, quiesce>>

\* "blocked":   suspended in write;      "rejecting": write has thrown,
\* "queued":    in the lane's slot;       "taken":     yielded to the consumer
\* "running":   inside handle;           "refused":   enqueueAsync rejected
Stages == {"new", "blocked", "rejecting", "queued", "taken", "running",
           "handled", "faulted", "refused"}
Accepted == {"queued", "taken", "running"}
InFlight == {"taken", "running"}
Started == {"taken", "running", "handled", "faulted"}
Counted == Accepted \cup {"blocked", "rejecting"}

ReaderStates == {"waiting", "woken", "busy", "leaving", "gone"}
QuiescePhases == {"idle", "polling", "quiet", "timedOut"}

-----------------------------------------------------------------------------
(* Routing.                                                                *)

\* key >>> 0 is the key modulo 2^32; 2^32 itself is reduced modulo LaneCount
\* so that the arithmetic stays within TLC's integers.
LaneForKey(key) ==
  LET wrap == ((65536 % LaneCount) * (65536 % LaneCount)) % LaneCount
  IN IF key >= 0 THEN key % LaneCount
                 ELSE ((key % LaneCount) + wrap) % LaneCount

\* Mutant: the lane follows the call, not the key.
MutRouteByCall(i) == i % LaneCount

\* The lane of the next item; roundRobinCounter is incremented before use.
Route(i) == IF Keyed THEN LaneForKey(KeyOf[i])
                     ELSE (roundRobinCounter + 1) % LaneCount

-----------------------------------------------------------------------------
(* The channel of one lane.                                                *)

\* Mutant: taking the item wakes nobody.
MutWakeNoWriters(l) == UNCHANGED woken

\* wake(writeWaiters): every waiting writer will run and check again.
WakeWriters(l) == woken' = [woken EXCEPT ![l] = Len(writers[l])]

\* Mutant: the reader is left asleep.
MutStillAsleep(r) == r

Awake(r) == IF r = "waiting" THEN "woken" ELSE r

\* Mutant: write does not look at hasItem.
MutWriteOverwrites(l, i, others) ==
  /\ slot' = [slot EXCEPT ![l] = i]
  /\ reader' = [reader EXCEPT ![l] = Awake(@)]
  /\ stage' = [stage EXCEPT ![i] = "queued"]
  /\ writers' = [writers EXCEPT ![l] = others]

\* The synchronous part of write for item i on lane l, on the first call and
\* again on every wake-up, up to the next await; others are the writers
\* suspended besides i.
Write(l, i, others) ==
  \/ /\ ~completed[l] /\ slot[l] = NoItem
     /\ slot' = [slot EXCEPT ![l] = i]
     /\ reader' = [reader EXCEPT ![l] = Awake(@)]
     /\ stage' = [stage EXCEPT ![i] = "queued"]
     /\ writers' = [writers EXCEPT ![l] = others]
  \/ /\ ~completed[l] /\ slot[l] # NoItem /\ i \notin aborted
     /\ stage' = [stage EXCEPT ![i] = "blocked"]
     /\ writers' = [writers EXCEPT ![l] = Append(others, i)]
     /\ UNCHANGED <<slot, reader>>
  \/ /\ completed[l] \/ (slot[l] # NoItem /\ i \in aborted)
     /\ stage' = [stage EXCEPT ![i] = "rejecting"]
     /\ writers' = [writers EXCEPT ![l] = others]
     /\ UNCHANGED <<slot, reader>>

\* One turn of readAll, st being the stages as the caller leaves them: take
\* the item and wake the writers, or wait, or end.
ReadNext(l, st) ==
  \/ /\ slot[l] # NoItem
     /\ stage' = [st EXCEPT ![slot[l]] = "taken"]
     /\ slot' = [slot EXCEPT ![l] = NoItem]
     /\ reader' = [reader EXCEPT ![l] = "busy"]
     /\ WakeWriters(l)
  \/ /\ slot[l] = NoItem
     /\ stage' = st
     /\ reader' = [reader EXCEPT ![l] = IF completed[l] THEN "leaving"
                                                        ELSE "waiting"]
     /\ UNCHANGED <<slot, woken>>

-----------------------------------------------------------------------------
Init ==
  /\ stage = [i \in Items |-> "new"]
  /\ laneOf = [i \in Items |-> NoLane]
  /\ aborted = {}
  /\ slot = [l \in Lanes |-> NoItem]
  /\ completed = [l \in Lanes |-> FALSE]
  /\ writers = [l \in Lanes |-> <<>>]
  /\ woken = [l \in Lanes |-> 0]
  /\ reader = [l \in Lanes |-> "waiting"]
  /\ laneOutstanding = [l \in Lanes |-> 0]
  /\ roundRobinCounter = -1
  /\ drain = "none"
  /\ quiesce = [phase |-> "idle", lanes |-> {}]

\* enqueueAsync(i), up to its first await.  Items are numbered in call order.
Enqueue(i) ==
  /\ stage[i] = "new"
  /\ \A j \in 1 .. (i - 1) : stage[j] # "new"
  /\ SequentialPerKey =>
       \A j \in 1 .. (i - 1) : KeyOf[j] = KeyOf[i] => stage[j] \notin {"blocked", "rejecting"}
  /\ laneOf' = [laneOf EXCEPT ![i] = Route(i)]
  /\ roundRobinCounter' = IF Keyed THEN roundRobinCounter ELSE roundRobinCounter + 1
  /\ laneOutstanding' = [laneOutstanding EXCEPT ![Route(i)] = @ + 1]
  /\ Write(Route(i), i, writers[Route(i)])
  /\ UNCHANGED <<aborted, completed, woken, drain, quiesce>>

\* A woken writer's continuation runs; continuations run in wake-up order.
WriterResume(l) ==
  /\ woken[l] > 0
  /\ Write(l, Head(writers[l]), Tail(writers[l]))
  /\ woken' = [woken EXCEPT ![l] = @ - 1]
  /\ UNCHANGED <<laneOf, aborted, completed, laneOutstanding, roundRobinCounter,
                 drain, quiesce>>

\* The caller's abort signal fires while write is waiting: the waiter is
\* removed and its promise rejects.
AbortWaiting(i) ==
  /\ i \notin aborted /\ stage[i] = "blocked"
  /\ \E k \in woken[laneOf[i]] + 1 .. Len(writers[laneOf[i]]) :
       /\ writers[laneOf[i]][k] = i
       /\ writers' = [writers EXCEPT ![laneOf[i]] = RemoveAt(@, k)]
  /\ aborted' = aborted \cup {i}
  /\ stage' = [stage EXCEPT ![i] = "rejecting"]
  /\ UNCHANGED <<laneOf, slot, completed, woken, reader, laneOutstanding,
                 roundRobinCounter, drain, quiesce>>

\* The signal fires before the call, or when the waiter has already been
\* woken and no longer listens: only the next wait will notice.
AbortUnheard(i) ==
  /\ i \notin aborted
  /\ \/ stage[i] = "new"
     \/ /\ stage[i] = "blocked"
        /\ \E k \in 1 .. woken[laneOf[i]] : writers[laneOf[i]][k] = i
  /\ aborted' = aborted \cup {i}
  /\ UNCHANGED <<stage, laneOf, slot, completed, writers, woken, reader,
                 laneOutstanding, roundRobinCounter, drain, quiesce>>

\* enqueueAsync's catch: the item never entered the lane.
EnqueueRejected(i) ==
  /\ stage[i] = "rejecting"
  /\ stage' = [stage EXCEPT ![i] = "refused"]
  /\ laneOutstanding' = [laneOutstanding EXCEPT ![laneOf[i]] = @ - 1]
  /\ UNCHANGED <<laneOf, aborted, slot, completed, writers, woken, reader,
                 roundRobinCounter, drain, quiesce>>

-----------------------------------------------------------------------------
(* The consumer of one lane.                                               *)

ReaderResume(l) ==
  /\ reader[l] = "woken"
  /\ ReadNext(l, stage)
  /\ UNCHANGED <<laneOf, aborted, completed, writers, laneOutstanding, roundRobinCounter,
                 drain, quiesce>>

\* Mutant: an item stops being counted when its handler starts.
MutUncountAtStart(i) ==
  /\ stage[i] = "taken"
  /\ woken[laneOf[i]] = 0
  /\ stage' = [stage EXCEPT ![i] = "running"]
  /\ laneOutstanding' = [laneOutstanding EXCEPT ![laneOf[i]] = @ - 1]
  /\ UNCHANGED <<laneOf, aborted, slot, completed, writers, woken, reader,
                 roundRobinCounter, drain, quiesce>>

\* The for-await body starts: handle(item).  The writers woken when the item
\* was taken were queued first, so they have run.
HandleStart(i) ==
  /\ stage[i] = "taken"
  /\ woken[laneOf[i]] = 0
  /\ stage' = [stage EXCEPT ![i] = "running"]
  /\ UNCHANGED <<laneOf, aborted, slot, completed, writers, woken, reader,
                 laneOutstanding, roundRobinCounter, drain, quiesce>>

HandlerReturns(i) ==
  /\ stage[i] = "running"
  /\ laneOutstanding' = [laneOutstanding EXCEPT ![laneOf[i]] = @ - 1]
  /\ ReadNext(laneOf[i], [stage EXCEPT ![i] = "handled"])
  /\ UNCHANGED <<laneOf, aborted, completed, writers, roundRobinCounter, drain, quiesce>>

\* A fault is swallowed and the lane reads on, or it ends the lane.
HandlerThrows(i) ==
  /\ stage[i] = "running"
  /\ laneOutstanding' = [laneOutstanding EXCEPT ![laneOf[i]] = @ - 1]
  /\ \/ /\ CatchExceptions
        /\ ReadNext(laneOf[i], [stage EXCEPT ![i] = "faulted"])
     \/ /\ ~CatchExceptions
        /\ stage' = [stage EXCEPT ![i] = "faulted"]
        /\ reader' = [reader EXCEPT ![laneOf[i]] = "leaving"]
        /\ UNCHANGED <<slot, woken>>
  /\ UNCHANGED <<laneOf, aborted, completed, writers, roundRobinCounter, drain, quiesce>>

\* consumeLoopAsync's finally.
LaneExit(l) ==
  /\ reader[l] = "leaving"
  /\ woken[l] = 0
  /\ reader' = [reader EXCEPT ![l] = "gone"]
  /\ laneOutstanding' = [laneOutstanding EXCEPT ![l] = 0]
  /\ UNCHANGED <<stage, laneOf, aborted, slot, completed, writers, woken,
                 roundRobinCounter, drain, quiesce>>

-----------------------------------------------------------------------------
(* Shutdown and quiescing.                                                 *)

\* drainAsync completes every lane before its first await.
DrainBegin ==
  /\ drain = "none"
  /\ drain' = "draining"
  /\ completed' = [l \in Lanes |-> TRUE]
  /\ reader' = [l \in Lanes |-> Awake(reader[l])]
  /\ woken' = [l \in Lanes |-> Len(writers[l])]
  /\ UNCHANGED <<stage, laneOf, aborted, slot, writers, laneOutstanding, roundRobinCounter,
                 quiesce>>

\* The race of drainAsync: all consumers settled, or the timeout.
DrainEnd ==
  /\ drain = "draining"
  /\ \/ /\ \A l \in Lanes : reader[l] = "gone"
        /\ drain' = "drained"
     \/ drain' = "timedOut"
  /\ UNCHANGED <<stage, laneOf, aborted, slot, completed, writers, woken,
                 reader, laneOutstanding, roundRobinCounter, quiesce>>

DrainLanesBegin(T) ==
  /\ quiesce.phase = "idle"
  /\ quiesce' = [phase |-> "polling", lanes |-> T]
  /\ UNCHANGED <<stage, laneOf, aborted, slot, completed, writers, woken,
                 reader, laneOutstanding, roundRobinCounter, drain>>

\* One poll of drainLanesAsync that returns.
DrainLanesEnd ==
  /\ quiesce.phase = "polling"
  /\ \/ /\ \A l \in quiesce.lanes : laneOutstanding[l] <= 0
        /\ quiesce' = [quiesce EXCEPT !.phase = "quiet"]
     \/ /\ \E l \in quiesce.lanes : laneOutstanding[l] > 0
        /\ quiesce' = [quiesce EXCEPT !.phase = "timedOut"]
  /\ UNCHANGED <<stage, laneOf, aborted, slot, completed, writers, woken,
                 reader, laneOutstanding, roundRobinCounter, drain>>

-----------------------------------------------------------------------------
Next ==
  \/ \E i \in Items : \/ Enqueue(i) \/ AbortWaiting(i) \/ AbortUnheard(i)
                      \/ EnqueueRejected(i)
                      \/ HandleStart(i) \/ HandlerReturns(i) \/ HandlerThrows(i)
  \/ \E l \in Lanes : WriterResume(l) \/ ReaderResume(l) \/ LaneExit(l)
  \/ DrainBegin \/ DrainEnd
  \/ \E T \in LaneSets : DrainLanesBegin(T)
  \/ DrainLanesEnd

Spec == Init /\ [][Next]_vars

\* The event loop runs every queued continuation, and handlers return or
\* throw; nothing is assumed of callers, abort signals or timers.
Fairness ==
  /\ \A i \in Items : /\ WF_vars(EnqueueRejected(i))
                      /\ WF_vars(HandleStart(i))
                      /\ WF_vars(HandlerReturns(i) \/ HandlerThrows(i))
  /\ \A l \in Lanes : /\ WF_vars(WriterResume(l))
                      /\ WF_vars(ReaderResume(l))
                      /\ WF_vars(LaneExit(l))

FairSpec == Spec /\ Fairness

-----------------------------------------------------------------------------
(* Properties.                                                             *)

\* The items an outstanding count of lane l stands for.
CountedOn(l) == {i \in Items : laneOf[i] = l /\ stage[i] \in Counted}

\* Every variable stays within its type.
TypeOK ==
  /\ stage \in [Items -> Stages]
  /\ laneOf \in [Items -> Lanes \cup {NoLane}]
  /\ aborted \in SUBSET Items
  /\ slot \in [Lanes -> Items \cup {NoItem}]
  /\ completed \in [Lanes -> BOOLEAN]
  /\ writers \in [Lanes -> Seq(Items)]
  /\ woken \in [Lanes -> Nat]
  /\ reader \in [Lanes -> ReaderStates]
  /\ laneOutstanding \in [Lanes -> Int]
  /\ roundRobinCounter \in Nat \cup {-1}
  /\ drain \in {"none", "draining", "drained", "timedOut"}
  /\ quiesce \in [phase : QuiescePhases, lanes : SUBSET Lanes]

\* No lost wake-up: a writer is left waiting only while the slot is occupied
\* and the channel open, the reader only while the slot is empty and the
\* channel open.  (BoundedChannel rechecks its condition after every wake.)
NoLostWakeup ==
  \A l \in Lanes :
    /\ Len(writers[l]) > woken[l] => slot[l] # NoItem /\ ~completed[l]
    /\ reader[l] = "waiting" => slot[l] = NoItem /\ ~completed[l]

\* Until a lane's consumer has gone, its count is exactly the number of calls
\* and items that are pending, queued or in flight on it: what
\* drainLanesAsync reads as quiet.
OutstandingExact ==
  \A l \in Lanes : reader[l] # "gone" => laneOutstanding[l] = Cardinality(CountedOn(l))

\* An accepted item is never overwritten in the slot, and a lane runs one
\* handler at a time: at most laneCount handlers at once.
LaneSerial ==
  /\ \A i \in Items : stage[i] = "queued" => slot[laneOf[i]] = i
  /\ \A i, j \in Items :
       stage[i] \in InFlight /\ stage[j] \in InFlight /\ laneOf[i] = laneOf[j] => i = j

\* The shape of a reachable state, in parts; LaneInv is inductive.
Routed == \A i \in Items : stage[i] # "new" => laneOf[i] \in Lanes

\* A lane's suspended writers are blocked calls routed to it, each once.
SuspendedBlocked ==
  \A l \in Lanes :
    /\ woken[l] <= Len(writers[l])
    /\ \A k \in 1 .. Len(writers[l]) :
         /\ stage[writers[l][k]] = "blocked"
         /\ laneOf[writers[l][k]] = l
         /\ \A m \in 1 .. Len(writers[l]) : writers[l][k] = writers[l][m] => k = m

\* The slot holds an item of its lane that is queued.
SlotQueued ==
  \A l \in Lanes : slot[l] # NoItem => stage[slot[l]] = "queued" /\ laneOf[slot[l]] = l

\* An item in flight keeps its lane's consumer busy.
InFlightBusy == \A i \in Items : stage[i] \in InFlight => reader[laneOf[i]] = "busy"

\* Unless a fault ends it, a consumer ends on a completed, empty channel.
EndedEmpty ==
  CatchExceptions =>
    \A l \in Lanes : reader[l] \in {"leaving", "gone"} => completed[l] /\ slot[l] = NoItem

\* drainAsync reports all consumers settled only when they are.
DrainedGone == drain = "drained" => \A l \in Lanes : reader[l] = "gone"

LaneInv ==
  /\ TypeOK /\ Routed /\ NoLostWakeup /\ LaneSerial
  /\ SuspendedBlocked /\ SlotQueued /\ InFlightBusy /\ EndedEmpty /\ DrainedGone

\* When drainAsync returns because every consumer settled, every accepted
\* item has been through its handler.
CleanDrain ==
  CatchExceptions /\ drain = "drained" => \A i \in Items : stage[i] \notin Accepted

\* Items of one key are handled in the order of their enqueueAsync calls, one
\* after the other: when a handler starts, every earlier item of its key has
\* been through its own or was refused.  (The keySelector's promise.)
PerKeyFifo ==
  Keyed => \A i, j \in Items :
    i < j /\ KeyOf[i] = KeyOf[j] /\ stage[j] \in Started
      => stage[i] \in {"handled", "faulted", "rejecting", "refused"}

\* While faults are swallowed, drainLanesAsync returns before its timeout only
\* in a state in which its lanes hold nothing queued or in flight.
QuiesceSound ==
  [][CatchExceptions /\ quiesce'.phase = "quiet" /\ quiesce.phase # "quiet"
       => \A i \in Items : laneOf[i] \in quiesce.lanes => stage[i] \notin Accepted]_vars

\* The lane of i was ended by a handler's fault.
LaneFaulted(i) ==
  ~CatchExceptions /\ \E j \in Items : stage[j] = "faulted" /\ laneOf[j] = laneOf[i]

\* Backpressure ends: a caller blocked in enqueueAsync is not left waiting,
\* unless a fault that is not caught ended its lane.
BlockedWriteSettles ==
  \A i \in Items :
    stage[i] = "blocked" ~> stage[i] \in {"handled", "faulted", "refused"} \/ LaneFaulted(i)

\* A drain does not need its timeout when every handler returns or throws.
DrainSettles == drain = "draining" ~> \A l \in Lanes : reader[l] = "gone"

-----------------------------------------------------------------------------
(* The abstract view: what a worker sees of an item.                       *)

StatusOf(s) ==
  CASE s = "new" -> "idle"
    [] s = "blocked" -> "pending"
    [] s \in {"queued", "taken"} -> "accepted"
    [] s = "running" -> "running"
    [] s \in {"handled", "faulted"} -> "finished"
    [] s \in {"rejecting", "refused"} -> "refused"

PhaseOf(d) ==
  CASE d = "none" -> "open"
    [] d \in {"draining", "timedOut"} -> "draining"
    [] d = "drained" -> "settled"

Contract == INSTANCE LaneContract WITH
  status <- [i \in Items |-> StatusOf(stage[i])],
  phase <- PhaseOf(drain)

\* The dispatcher implements LaneContract: whatever the channel, the wake-ups
\* and the consumer loops do, callers see calls accepted into lanes of two
\* places, run one at a time and once each, and a drain that ends acceptance.
ImplementsContract == Contract!Spec
=============================================================================
