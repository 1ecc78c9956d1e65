---------------------------- MODULE MCIdempotency ----------------------------
(* Instances of Idempotency for TLC: three deliveries of one key, one of    *)
(* another, and one that opts out.                                         *)
EXTENDS Idempotency, Integers

MCAttempts == 1 .. 5
MCKeys == {"k1", "k2"}
MCKeyOf == <<"k1", "k1", "k1", "k2", "none">>
=============================================================================
