----------------------------- MODULE MCBackfill -----------------------------
(***************************************************************************)
(* Backfill for TLC.                                                       *)
(***************************************************************************)
EXTENDS Backfill
=============================================================================
