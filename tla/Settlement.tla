----------------------------- MODULE Settlement -----------------------------
(***************************************************************************)
(* How a worker reads the outcome of a pipeline: the result it left, if    *)
(* any, or a throw.  A result "unmatched" is the router's answer for a     *)
(* topic no handler serves.                                                *)
(***************************************************************************)

MessageResults == {"missing", "unmatched", "success", "failure"}
Outcomes == MessageResults \cup {"throws"}

\* Whether the acknowledgement of a message that ended with this result must
\* be declined.
IsSettledAsFailure(result, redeliverMissing, ignoreUnmatched) ==
  \/ result = "failure"
  \/ result = "missing" /\ redeliverMissing
  \/ result = "unmatched" /\ ~ignoreUnmatched
=============================================================================
