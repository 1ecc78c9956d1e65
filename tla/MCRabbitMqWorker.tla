-------------------------- MODULE MCRabbitMqWorker --------------------------
(* Instances of RabbitMqWorker for TLC.                                    *)
EXTENDS RabbitMqWorker, TLC

CONSTANTS m1, m2, m3

MCMessages3 == {m1, m2, m3}
MCMessages2 == {m1, m2}
MCSymmetry == Permutations(Messages)

Explicit == [autoAck |-> FALSE, atMostOnce |-> FALSE, requeueOnFailure |-> TRUE]

\* The defaults; and every setting that makes settlement differ from them.
MCExplicit == {Explicit}
MCConfigs == {Explicit,
              [Explicit EXCEPT !.atMostOnce = TRUE],
              [Explicit EXCEPT !.autoAck = TRUE],
              [Explicit EXCEPT !.requeueOnFailure = FALSE]}
=============================================================================
