----------------------------- MODULE RollupChain ----------------------------
(***************************************************************************)
(* What the rollup's block table promises to its readers: one chain of     *)
(* headers that grows by one block at its end and, when L1 reorganises,    *)
(* loses one block from its end.  Nothing is ever changed in its middle.   *)
(***************************************************************************)
EXTENDS Integers, Sequences

CONSTANT Headers

VARIABLE chain

ChainInit == chain = <<>>

Extend == \E h \in Headers : chain' = Append(chain, h)

Retract ==
  /\ chain # <<>>
  /\ chain' = SubSeq(chain, 1, Len(chain) - 1)

ChainNext == Extend \/ Retract

ChainSpec == ChainInit /\ [][ChainNext]_chain
=============================================================================
