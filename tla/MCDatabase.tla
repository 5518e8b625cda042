----------------------------- MODULE MCDatabase -----------------------------
(***************************************************************************)
(* Instances of DatabaseFeed for TLC.  A page of two candles makes the     *)
(* warm-up take several requests, a ring of two makes it trim, and a span  *)
(* of two makes readiness come and go.                                     *)
(***************************************************************************)
EXTENDS DatabaseFeed
=============================================================================
