------------------------------- MODULE MCSaga -------------------------------
(* An instance of Saga for TLC: three stages, the middle one of two steps, *)
(* and a step without a compensation in the last.                          *)
EXTENDS Saga

ThreeStages == << <<"a">>, <<"b", "c">>, <<"d">> >>
=============================================================================
