--------------------------- MODULE MCOracleGossip ---------------------------
(***************************************************************************)
(* OracleGossip for TLC.                                                   *)
(***************************************************************************)
EXTENDS OracleGossip

CONSTANTS p1, p2, t1, r1, r2
=============================================================================
