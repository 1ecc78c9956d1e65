------------------------ MODULE MCBoundedDispatcher ------------------------
(***************************************************************************)
(* Small instances of BoundedDispatcher.                                   *)
(***************************************************************************)
EXTENDS BoundedDispatcher

\* Two keys that meet on one lane of two, one of them negative, and a third
\* on the other lane.
MCKeyOf == [i \in Items |-> CASE i % 3 = 1 -> 3 [] i % 3 = 2 -> -1 [] OTHER -> 2]

\* A commit that quiesces one lane of two, and one that quiesces both.
MCLaneSets == {{1}, {0, 1}}
MCNoLaneSets == {}
=============================================================================
