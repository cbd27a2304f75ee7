------------------------------ MODULE OpBridge ------------------------------
(***************************************************************************)
(* The OP bridge ExEx (op-bridge/src/main.rs): it keeps the deposits and   *)
(* withdrawals of the L1 chain in two SQLite tables.  Every DELETE and     *)
(* every INSERT is a transaction of its own, so a notification is many     *)
(* steps and a failed statement leaves the earlier ones behind.            *)
(*                                                                         *)
(* An L1 block is the sequence of its logs.  A log is reduced to its       *)
(* transaction, the contract that emitted it, what it decodes to, and      *)
(* `data`, which stands for from, to and amount.                           *)
(***************************************************************************)
EXTENDS Integers, SequencesExt

CONSTANTS
  OpBridges,   \* OP_BRIDGES
  Contracts,   \* addresses that emit logs
  Txs,         \* L1 transactions
  Data,        \* what a bridge event says: from, to, amount
  Blocks,      \* L1 blocks
  MaxHeight,   \* BOUND: length of the L1 chain
  MaxCommit    \* BOUND: new blocks of one notification

\* TableOf(event) is where an event goes; "other" stands for the bridge's
\* other events, "undecodable" for logs decode_raw_log rejects.
Tables == {"deposits", "withdrawals"}

TableOf == [ETHBridgeInitiated |-> "deposits", ETHBridgeFinalized |-> "withdrawals"]

LogEvents == DOMAIN TableOf \cup {"other", "undecodable"}

Log == [tx : Txs, address : Contracts, event : LogEvents, data : Data]

ASSUME OpBridgeConstants ==
  /\ OpBridges \subseteq Contracts
  /\ Blocks \subseteq Seq(Log)
  /\ MaxHeight \in Nat
  /\ MaxCommit \in Nat

Row == [block_number : 1..MaxHeight, tx_hash : Txs,
        contract_address : OpBridges, data : Data]

\* A decoded event and its place: the number of its block, the index in it.
Entry == [number : 1..MaxHeight, index : Nat \ {0}, log : Log]

VARIABLES
  chain,      \* the canonical L1 chain; block n is chain[n]
  phase,      \* waiting, reverting, committing, failed
  reverted,   \* decoded events of the reverted chain still to be handled
  committed,  \* decoded events of the committed chain still to be handled
  tip,        \* number of the committed chain's tip, 0 without such a chain
  table,      \* the rows of each table
  finished    \* the height of the last FinishedHeight

vars == <<chain, phase, reverted, committed, tip, table, finished>>

TypeOK ==
  /\ chain \in Seq(Blocks) /\ Len(chain) <= MaxHeight
  /\ phase \in {"waiting", "reverting", "committing", "failed"}
  /\ reverted \in Seq(Entry)
  /\ committed \in Seq(Entry)
  /\ tip \in 0..MaxHeight
  /\ table \in [Tables -> SUBSET Row]
  /\ finished \in 0..MaxHeight

\* create_tables on a new database.
Init ==
  /\ chain = <<>>
  /\ phase = "waiting"
  /\ reverted = <<>>
  /\ committed = <<>>
  /\ tip = 0
  /\ table = [t \in Tables |-> {}]
  /\ finished = 0

-----------------------------------------------------------------------------
\* Mutant of IsBridgeEvent: the address of the log is not looked at.
IsBridgeEventAnywhere(log) == log.event # "undecodable"

IsBridgeEvent(log) == log.address \in OpBridges /\ log.event # "undecodable"

\* The logs of all receipts, flattened, of blocks that follow block `parent`.
LogsOf(parent, blocks) ==
  FlattenSeq([i \in DOMAIN blocks |->
                [k \in DOMAIN blocks[i] |->
                   [number |-> parent + i, index |-> k, log |-> blocks[i][k]]]])

\* Of those, the logs of the bridges that decode, in the same order.
EventsIn(logs) ==
  LET events[n \in 0..Len(logs)] ==
        IF n = 0 THEN <<>>
        ELSE IF IsBridgeEvent(logs[n].log) THEN Append(events[n - 1], logs[n])
        ELSE events[n - 1]
  IN  events[Len(logs)]

\* decode_chain_into_events.
DecodeChainIntoEvents(parent, blocks) == EventsIn(LogsOf(parent, blocks))

TxsOf(b) == {b[k].tx : k \in DOMAIN b}

\* External: a transaction is in one block of the chain at most.
ValidChain(blocks) ==
  \A i, j \in DOMAIN blocks :
    i # j => TxsOf(blocks[i]) \cap TxsOf(blocks[j]) = {}

\* External: the node reverts the blocks above `parent`, commits new ones, or
\* both.  reverted_chain and committed_chain are decoded.
Notify(parent, blocks) ==
  LET kept == SubSeq(chain, 1, parent)
  IN  /\ phase = "waiting"
      /\ parent < Len(chain) \/ blocks # <<>>
      /\ parent + Len(blocks) <= MaxHeight
      /\ ValidChain(kept \o blocks)
      /\ chain' = kept \o blocks
      /\ reverted' = DecodeChainIntoEvents(
                       parent, SubSeq(chain, parent + 1, Len(chain)))
      /\ committed' = DecodeChainIntoEvents(parent, blocks)
      /\ tip' = IF blocks = <<>> THEN 0 ELSE parent + Len(blocks)
      /\ phase' = "reverting"
      /\ UNCHANGED <<table, finished>>

-----------------------------------------------------------------------------
IsStored(e) == e.log.event \in DOMAIN TableOf

RowOf(e) ==
  [block_number |-> e.number, tx_hash |-> e.log.tx,
   contract_address |-> e.log.address, data |-> e.log.data]

Taken(t, tx) == \E row \in table[t] : row.tx_hash = tx

\* Mutant of Delete: the statement names the wrong table.
DeleteFromDeposits(e) ==
  table' = [table EXCEPT !["deposits"] = {row \in @ : row.tx_hash # e.log.tx}]

\* "DELETE FROM <table> WHERE tx_hash = ?".
Delete(e) ==
  table' = [table EXCEPT ![TableOf[e.log.event]] =
                           {row \in @ : row.tx_hash # e.log.tx}]

RevertEvent ==
  /\ phase = "reverting"
  /\ reverted # <<>>
  /\ IF IsStored(Head(reverted)) THEN Delete(Head(reverted))
                                 ELSE UNCHANGED table
  /\ reverted' = Tail(reverted)
  /\ UNCHANGED <<chain, phase, committed, tip, finished>>

\* Mutant of RevertDone: the new events are inserted before the old ones are
\* deleted.
RevertDoneEarly ==
  /\ phase = "reverting"
  /\ phase' = IF tip > 0 THEN "committing" ELSE "waiting"
  /\ UNCHANGED <<chain, reverted, committed, tip, table, finished>>

RevertDone ==
  /\ phase = "reverting"
  /\ reverted = <<>>
  /\ phase' = IF tip > 0 THEN "committing" ELSE "waiting"
  /\ UNCHANGED <<chain, reverted, committed, tip, table, finished>>

\* "INSERT INTO <table>": tx_hash is UNIQUE.
CommitEvent ==
  LET e == Head(committed)
  IN  /\ phase = "committing"
      /\ committed # <<>>
      /\ IsStored(e)
      /\ ~Taken(TableOf[e.log.event], e.log.tx)
      /\ table' = [table EXCEPT ![TableOf[e.log.event]] = @ \cup {RowOf(e)}]
      /\ committed' = Tail(committed)
      /\ UNCHANGED <<chain, phase, reverted, tip, finished>>

\* The constraint is violated; `?` ends the ExEx, half way through.
CommitFails ==
  LET e == Head(committed)
  IN  /\ phase = "committing"
      /\ committed # <<>>
      /\ IsStored(e)
      /\ Taken(TableOf[e.log.event], e.log.tx)
      /\ phase' = "failed"
      /\ UNCHANGED <<chain, reverted, committed, tip, table, finished>>

\* `_ => continue`.
CommitOther ==
  /\ phase = "committing"
  /\ committed # <<>>
  /\ ~IsStored(Head(committed))
  /\ committed' = Tail(committed)
  /\ UNCHANGED <<chain, phase, reverted, tip, table, finished>>

\* Mutant of NotificationDone: FinishedHeight is sent before the insertions.
NotificationDoneEarly ==
  /\ phase = "committing"
  /\ phase' = IF committed = <<>> THEN "waiting" ELSE phase
  /\ finished' = tip
  /\ UNCHANGED <<chain, reverted, committed, tip, table>>

\* FinishedHeight with the tip of the committed chain.
NotificationDone ==
  /\ phase = "committing"
  /\ committed = <<>>
  /\ phase' = "waiting"
  /\ finished' = tip
  /\ UNCHANGED <<chain, reverted, committed, tip, table>>

Next ==
  \/ \E parent \in 0..Len(chain) :
       \E blocks \in BoundedSeq(Blocks, MaxCommit) : Notify(parent, blocks)
  \/ RevertEvent
  \/ RevertDone
  \/ CommitEvent
  \/ CommitFails
  \/ CommitOther
  \/ NotificationDone

Spec == Init /\ [][Next]_vars

-----------------------------------------------------------------------------
(***************************************************************************)
(* Properties.                                                             *)
(***************************************************************************)
BridgeEvents == ToSet(DecodeChainIntoEvents(0, chain))

\* The rows that table t should have for a set of events.
RowsFor(t, events) ==
  {RowOf(e) : e \in {f \in events : IsStored(f) /\ TableOf[f.log.event] = t}}

\* The two tables are the bridge events of the canonical chain, each with the
\* number of the block it is in now, at every moment: apart from the events
\* still to be inserted, and with those still to be deleted.
TablesExact ==
  \A t \in Tables :
    table[t] = RowsFor(t, (BridgeEvents \ ToSet(committed)) \cup ToSet(reverted))

\* An INSERT only fails when one transaction emits two bridge events of the
\* same kind in one block: a transaction that a reorg moves to another block is
\* deleted before it is inserted again.
FailsOnRepeatedEventOnly ==
  phase = "failed" =>
    \E e \in BridgeEvents \ ToSet(committed) :
      /\ e.number = Head(committed).number
      /\ e.log.tx = Head(committed).log.tx
      /\ e.log.event = Head(committed).log.event

\* FinishedHeight, "signaling the node that we don't need any blocks below
\* this height anymore", is sent when every event up to it is in its table.
FinishedEventsStored ==
  [][finished' # finished =>
       \A e \in BridgeEvents :
         e.number <= finished' /\ IsStored(e) =>
           RowOf(e) \in table[TableOf[e.log.event]]]_vars

\* "Insert all new deposits and withdrawals": the insertion of an event into
\* the tables never fails (checked in a run that expects a violation).
AllEventsInserted == phase # "failed"
=============================================================================
