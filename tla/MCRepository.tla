---------------------------- MODULE MCRepository ----------------------------
(***************************************************************************)
(* Instances of Repository for TLC: a two-tick interval and a one-tick     *)
(* minute, so that unaligned open times exist and floor to their candle.   *)
(***************************************************************************)
EXTENDS Repository

MCTimes == {1, 2, 4, 5, 6, 8}
MCFaultTimes == {2, 4, 6, 8, 10}
=============================================================================
