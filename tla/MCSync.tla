------------------------------- MODULE MCSync -------------------------------
(***************************************************************************)
(* Instances of SyncOrchestrator for TLC.  One tick is one candle.         *)
(***************************************************************************)
EXTENDS SyncOrchestrator

MCTimes == 1..MaxNow
=============================================================================
