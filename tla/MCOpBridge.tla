----------------------------- MODULE MCOpBridge -----------------------------
(***************************************************************************)
(* OpBridge for TLC: two transactions, one of which both deposits and      *)
(* withdraws, in blocks that a reorg may move.                             *)
(***************************************************************************)
EXTENDS OpBridge

CONSTANTS t1, t2, bridge, other, x, y

LogOf(t, a, e, d) == [tx |-> t, address |-> a, event |-> e, data |-> d]

Deposit(t, d)    == LogOf(t, bridge, "ETHBridgeInitiated", d)
Withdrawal(t, d) == LogOf(t, bridge, "ETHBridgeFinalized", d)

\* Every transaction emits at most one event of a kind.
PlainBlocks ==
  {<<>>,
   <<Deposit(t1, x)>>,
   <<Withdrawal(t2, y)>>,
   <<Deposit(t1, x), Withdrawal(t1, y)>>,
   <<Deposit(t1, x), Deposit(t2, x)>>,
   <<LogOf(t2, bridge, "other", x), LogOf(t2, bridge, "undecodable", x)>>,
   <<LogOf(t2, other, "ETHBridgeInitiated", x), Deposit(t2, y)>>}

\* A transaction may deposit twice, the same or another amount.
AllBlocks ==
  PlainBlocks \cup {<<Deposit(t1, x), Deposit(t1, d)>> : d \in {x, y}}
=============================================================================
