------------------------- MODULE MCServiceBusWorker -------------------------
(* Instances of ServiceBusWorker for TLC.                                  *)
EXTENDS ServiceBusWorker

CONSTANTS s1, s2

MCSlots == {s1, s2}
MCSessions == {"a", "b"}

Defaults == [sessions |-> FALSE, explicit |-> TRUE, atMostOnce |-> FALSE,
             ignoreUnmatched |-> FALSE, closeWaits |-> TRUE, calls |-> 2, maxFaults |-> 1,
             slots |-> {s1}, sessionOf |-> <<"a", "a">>]

\* One session that two slots compete for; two sessions for one slot.
Contended == [Defaults EXCEPT !.sessions = TRUE, !.calls = 1, !.slots = MCSlots]
Starved == [Contended EXCEPT !.slots = {s1}, !.sessionOf = <<"a", "b">>]

\* Every setting that makes a difference, in turn.
MCConfigs ==
  {Contended, Starved, [Starved EXCEPT !.atMostOnce = TRUE],
   [Starved EXCEPT !.explicit = FALSE, !.closeWaits = FALSE, !.maxFaults = 0],
   [Defaults EXCEPT !.closeWaits = FALSE],
   [Defaults EXCEPT !.explicit = FALSE, !.atMostOnce = TRUE],
   [Defaults EXCEPT !.ignoreUnmatched = TRUE]}
=============================================================================
