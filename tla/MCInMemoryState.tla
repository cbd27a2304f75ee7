--------------------------- MODULE MCInMemoryState ---------------------------
(***************************************************************************)
(* InMemoryState for TLC: the ExEx alone, without the oracle around it.    *)
(***************************************************************************)
EXTENDS InMemoryState

CONSTANTS f1, f2
=============================================================================
