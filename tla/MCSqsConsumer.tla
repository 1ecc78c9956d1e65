---------------------------- MODULE MCSqsConsumer ----------------------------
(* Instances of SqsConsumer for TLC.                                       *)
EXTENDS SqsConsumer

MCCost(m) == IF m = 2 THEN 2 ELSE 1

Defaults == [wholeBatch |-> FALSE, atMostOnce |-> FALSE, ignoreUnmatched |-> FALSE,
             parallelism |-> 0, limited |-> FALSE, retries |-> 0]
Bounded == [Defaults EXCEPT !.parallelism = 1]

\* Every setting that makes a difference, in turn; the last holds a lease over a
\* retry, and may leave a batch running that does beside the next.
MCConfigs ==
  {Defaults, Bounded, [Defaults EXCEPT !.ignoreUnmatched = TRUE],
   [Bounded EXCEPT !.wholeBatch = TRUE, !.atMostOnce = TRUE],
   [Bounded EXCEPT !.wholeBatch = TRUE, !.limited = TRUE, !.retries = 1]}
=============================================================================
