------------------------- MODULE MCCosmosChangeFeed -------------------------
(* Instances of CosmosChangeFeed for TLC.                                  *)
EXTENDS CosmosChangeFeed

MCConfigs == {c \in Configurations : c.worker = "allVersions" => c.autoCheckpoint}
MCDefault ==
  {[worker |-> "latestVersion", autoCheckpoint |-> TRUE, skip |-> FALSE, startFrom |-> "now"]}
=============================================================================
