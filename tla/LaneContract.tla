---------------------------- MODULE LaneContract ----------------------------
(***************************************************************************)
(* What the bounded concurrent dispatcher promises the workers built on    *)
(* it, without channels, wake-ups or counts.  A call of enqueueAsync waits *)
(* until its lane accepts the item or refuses it; a lane holds at most two *)
(* accepted items (one with its consumer, one in the channel's slot) and   *)
(* runs one handler at a time, each item's once; after drainAsync has been *)
(* called nothing more is accepted; drainAsync settles, unless a fault may *)
(* end a lane, only when every accepted item is finished.                  *)
(*                                                                         *)
(* BoundedDispatcher implements this module; RabbitMqWorker is composed    *)
(* with it.                                                                *)
(***************************************************************************)
CONSTANTS Items, Lanes, CatchExceptions

VARIABLES status, laneOf, phase

\* A status is "idle", "pending", "accepted", "running", "finished" or "refused".
Held == {"accepted", "running"}

Init ==
  /\ status = [i \in Items |-> "idle"]
  /\ phase = "open"

HeldOn(l) == {i \in Items : status[i] \in Held /\ laneOf[i] = l}

\* At most one item is held on l, so that the channel's slot is free.
HasRoom(l) == \A i, j \in HeldOn(l) : i = j

SetStatus(i, s) == status' = [status EXCEPT ![i] = s]

\* enqueueAsync(i): the item goes to lane l and is accepted, waits behind an
\* item held there, or is refused (after the drain, or instead of waiting).
Call(i, l) ==
  /\ status[i] = "idle"
  /\ laneOf' = [laneOf EXCEPT ![i] = l]
  /\ \/ phase = "open" /\ HasRoom(l) /\ SetStatus(i, "accepted")
     \/ phase = "open" /\ HeldOn(l) # {} /\ SetStatus(i, "pending")
     \/ (phase # "open" \/ HeldOn(l) # {}) /\ SetStatus(i, "refused")
  /\ UNCHANGED phase

Accept(i) ==
  /\ status[i] = "pending" /\ phase = "open" /\ HasRoom(laneOf[i])
  /\ SetStatus(i, "accepted")
  /\ UNCHANGED <<laneOf, phase>>

\* The caller's abort signal, or the drain, ends the wait.
Refuse(i) ==
  /\ status[i] = "pending"
  /\ SetStatus(i, "refused")
  /\ UNCHANGED <<laneOf, phase>>

Run(i) ==
  /\ status[i] = "accepted"
  /\ \A j \in HeldOn(laneOf[i]) : status[j] # "running"
  /\ SetStatus(i, "running")
  /\ UNCHANGED <<laneOf, phase>>

Finish(i) ==
  /\ status[i] = "running"
  /\ SetStatus(i, "finished")
  /\ UNCHANGED <<laneOf, phase>>

Drain ==
  /\ phase = "open"
  /\ phase' = "draining"
  /\ UNCHANGED <<status, laneOf>>

Settle ==
  /\ phase = "draining"
  /\ CatchExceptions => \A i \in Items : status[i] \notin Held
  /\ phase' = "settled"
  /\ UNCHANGED <<status, laneOf>>

Next ==
  \/ \E i \in Items : \/ \E l \in Lanes : Call(i, l)
                      \/ Accept(i) \/ Refuse(i) \/ Run(i) \/ Finish(i)
  \/ Drain \/ Settle

Spec == Init /\ [][Next]_<<status, laneOf, phase>>
=============================================================================
