---------------------------- MODULE MCOracleNode ----------------------------
(***************************************************************************)
(* OracleNode for TLC.                                                     *)
(***************************************************************************)
EXTENDS OracleNode

CONSTANTS f1, f2
=============================================================================
