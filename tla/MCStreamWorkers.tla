--------------------------- MODULE MCStreamWorkers ---------------------------
(* Instances of StreamWorkers for TLC.                                     *)
EXTENDS StreamWorkers

MCPartitions == {1, 2}
MCPublished(p) == IF p = 1 THEN 3 ELSE 1

EventHubDefaults ==
  [platform |-> "eventhub", atMostOnce |-> FALSE, catch |-> TRUE, raise |-> TRUE,
   ignoreUnmatched |-> TRUE, interval |-> 2, manual |-> FALSE, stopsAtOnce |-> TRUE]
KafkaDefaults == [EventHubDefaults EXCEPT !.platform = "kafka", !.interval = 1]

\* Every setting that makes a difference, in turn.
MCConfigs ==
  {EventHubDefaults, [EventHubDefaults EXCEPT !.interval = 1],
   [EventHubDefaults EXCEPT !.stopsAtOnce = FALSE],
   [EventHubDefaults EXCEPT !.interval = 3, !.catch = FALSE],
   [EventHubDefaults EXCEPT !.catch = FALSE, !.ignoreUnmatched = FALSE],
   [EventHubDefaults EXCEPT !.catch = FALSE, !.raise = FALSE],
   [EventHubDefaults EXCEPT !.atMostOnce = TRUE],
   KafkaDefaults, [KafkaDefaults EXCEPT !.atMostOnce = TRUE],
   [KafkaDefaults EXCEPT !.manual = TRUE, !.catch = FALSE]}
=============================================================================
