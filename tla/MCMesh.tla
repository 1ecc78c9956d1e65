-------------------------------- MODULE MCMesh --------------------------------
(* An instance of Mesh for TLC: orders, in two releases, calls payments.     *)
EXTENDS Mesh

CONSTANTS orders, payments, orders1, orders2, payments1, place, pay

MCServiceOf(i) == IF i = payments1 THEN payments ELSE orders

\* The second release publishes nothing it declares; payments does not know what
\* it sends, and does not declare all it handles.
MCRequests(i) == IF i = payments1 THEN {} ELSE {place}
MCProvides(i) ==
  CASE i = orders1 -> {pay} [] i = orders2 -> {} [] i = payments1 -> {Unknown}

\* orders places, and payments pays for it; the next order comes from orders too.
MCInstanceOf(e) == IF e = 2 THEN payments1 ELSE orders1
MCTopicOf(e) == IF e = 2 THEN pay ELSE place
MCParent(e) == IF e = 2 THEN 1 ELSE 0
=============================================================================
