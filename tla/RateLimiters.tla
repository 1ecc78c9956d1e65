----------------------------- MODULE RateLimiters -----------------------------
(***************************************************************************)
(* The rate limiters: permits held until they are given back, permits per  *)
(* fixed window, and a token bucket.  None has a timer: a window is rolled *)
(* and tokens are added when permits are next asked for, from the clock.   *)
(*                                                                         *)
(* Bounds: the clock stops at MaxTime.                                     *)
(***************************************************************************)
EXTENDS Integers

CONSTANTS
  Limit,        \* permitLimit, tokenLimit
  Period,       \* windowMs, replenishmentPeriodMs
  PerPeriod,    \* tokensPerPeriod
  MaxTime

ASSUME LimiterAssumption ==
  /\ Limit \in Nat /\ PerPeriod \in Nat /\ MaxTime \in Nat
  /\ Period \in Nat \ {0}

Kinds == {"concurrency", "window", "bucket"}
Times == 0 .. MaxTime

VARIABLES
  now,
  kind,
  available,    \* available; permitLimit - consumed; tokens
  mark,         \* windowStart, lastReplenish
  granted       \* history: the permits granted up to each time

limiterVars == <<now, kind, available, mark, granted>>

\* Mutant: what the clock brought is not capped by the size of the bucket.
MutReplenished ==
  CASE kind = "concurrency" -> [available |-> available, mark |-> mark]
    [] kind = "window" ->
         IF now - mark >= Period THEN [available |-> Limit, mark |-> now]
         ELSE [available |-> available, mark |-> mark]
    [] kind = "bucket" ->
         LET periods == (now - mark) \div Period
         IN [available |-> available + periods * PerPeriod,
             mark |-> mark + periods * Period]

\* rollWindow and replenish.
Replenished ==
  CASE kind = "concurrency" -> [available |-> available, mark |-> mark]
    [] kind = "window" ->
         IF now - mark >= Period THEN [available |-> Limit, mark |-> now]
         ELSE [available |-> available, mark |-> mark]
    [] kind = "bucket" ->
         LET periods == (now - mark) \div Period
             tokens == available + periods * PerPeriod
         IN [available |-> IF tokens > Limit THEN Limit ELSE tokens,
             mark |-> mark + periods * Period]

\* The permits that can be had at once; a greater cost is a RangeError, which
\* the middleware takes for a rejection.
Grants(cost) == cost = 0 \/ (cost <= Limit /\ cost <= Replenished.available)

\* attemptAcquire.  The window is rolled even when the permits are refused.
Acquire(cost) ==
  /\ IF cost \in 1 .. Limit
     THEN /\ mark' = Replenished.mark
          /\ available' = Replenished.available - (IF Grants(cost) THEN cost ELSE 0)
     ELSE UNCHANGED <<mark, available>>
  /\ granted' = IF Grants(cost)
                THEN [t \in Times |-> IF t < now THEN granted[t] ELSE granted[t] + cost]
                ELSE granted
  /\ UNCHANGED <<now, kind>>

\* The lease is disposed of, which only the concurrency limiter feels.
Dispose(cost) ==
  /\ available' = IF kind = "concurrency" THEN available + cost ELSE available
  /\ UNCHANGED <<now, kind, mark, granted>>

Tick ==
  /\ now < MaxTime /\ now' = now + 1
  /\ UNCHANGED <<kind, available, mark, granted>>

LimiterInit ==
  /\ kind \in Kinds
  /\ now = 0 /\ mark = 0
  /\ available = Limit
  /\ granted = [t \in Times |-> 0]
=============================================================================
