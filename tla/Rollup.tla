------------------------------- MODULE Rollup -------------------------------
(***************************************************************************)
(* The rollup ExEx (rollup/src/main.rs, execution.rs) on top of its        *)
(* database: it follows the L1 chain through the notifications of the node *)
(* and keeps the rollup's blocks and accounts in step with it.             *)
(*                                                                         *)
(* The L1 chain is the sequence of the rollup contract's events, one per   *)
(* L1 block.  A notification reverts a suffix of it and commits new        *)
(* events; which events those are is chosen when they are processed, which *)
(* is the same because the ExEx never looks ahead.  The contract (external)*)
(* numbers the submissions of each rollup chain 0, 1, 2, ...               *)
(*                                                                         *)
(* `applied` is the L1 chain as far as the ExEx has processed it.  An      *)
(* entry remembers the event and, as history that no action reads, whether *)
(* the event inserted a block and the rollup state before and after it.    *)
(***************************************************************************)
EXTENDS RollupEvm

CONSTANTS
  Ours,              \* CHAIN_ID
  Chains,            \* rollup chain ids that use the contract
  Ether,             \* Address::ZERO, the token of an ETH deposit
  Tokens,            \* tokens that are deposited
  Amounts,           \* deposited amounts
  Calls,             \* what tx.input() of a submission decodes to
  MaxEvents,         \* BOUND: length of the L1 chain
  MaxBatch,          \* BOUND: new events of one notification
  MaxNotifications   \* BOUND: number of notifications

ASSUME RollupConstants ==
  /\ Ours \in Chains
  /\ Ether \in Tokens
  /\ Amounts \subseteq Balances
  /\ Calls \subseteq {"submitBlock", "otherCall", "undecodable"}
  /\ MaxEvents \in Nat
  /\ MaxBatch \in Nat
  /\ MaxNotifications \in Nat

VARIABLES
  applied,        \* the L1 events processed so far, oldest first
  to_revert,      \* events of the reverted chain still to be processed
  to_commit,      \* events of the committed chain still to be processed
  phase,          \* where `start` stands
  finished,       \* the last FinishedHeight sent, in events
  notifications   \* notifications received

vars == <<dbVars, applied, to_revert, to_commit, phase, finished,
          notifications>>

Submissions ==
  [type : {"BlockSubmitted"}, chain : Chains, sequence : Seqs,
   header : Headers, call : Calls]

Enters ==
  [type : {"Enter"}, chain : Chains, token : Tokens,
   recipient : Addresses, amount : Amounts]

Events == Submissions \cup Enters

IsSubmission(e) == e.type = "BlockSubmitted"

RollupState == [account : AccountTable, slot : StorageView]

Entries ==
  [event : Events, inserted : BOOLEAN, pre : RollupState, post : PostType]

TypeOK ==
  /\ DbTypeOK
  /\ applied \in Seq(Entries)
  /\ to_revert \in 0..Len(applied)
  /\ to_commit \in Nat
  /\ phase \in {"waiting", "reverting", "committing", "failed"}
  /\ finished \in Nat
  /\ notifications \in Nat

Init ==
  /\ DbInit
  /\ applied = <<>>
  /\ to_revert = 0
  /\ to_commit = 0
  /\ phase = "waiting"
  /\ finished = 0
  /\ notifications = 0

-----------------------------------------------------------------------------
(***************************************************************************)
(* The L1 contract: the next submission of a chain has the number after    *)
(* the largest one on the L1 chain, starting at 0.                         *)
(***************************************************************************)
SubmittedOn(chain) ==
  {applied[i].event.sequence :
     i \in {j \in DOMAIN applied : /\ IsSubmission(applied[j].event)
                                   /\ applied[j].event.chain = chain}}

IsNextSequence(chain, n) ==
  /\ \A m \in SubmittedOn(chain) : m < n
  /\ n # 0 => n - 1 \in SubmittedOn(chain)

(***************************************************************************)
(* `start`: a notification arrives.  ChainCommitted has r = 0,             *)
(* ChainReverted has c = 0, ChainReorged has both.                         *)
(***************************************************************************)
Notify ==
  /\ phase = "waiting"
  /\ notifications < MaxNotifications
  /\ \E r \in 0..Len(applied), c \in 0..MaxBatch :
       /\ r + c > 0
       /\ Len(applied) - r + c <= MaxEvents
       /\ to_revert' = r
       /\ to_commit' = c
  /\ phase' = "reverting"
  /\ notifications' = notifications + 1
  /\ UNCHANGED <<dbVars, applied, finished>>

\* An error returned through `?` ends the ExEx; the failed statement or
\* transaction changed nothing.
Fail ==
  /\ phase' = "failed"
  /\ UNCHANGED <<dbVars, applied, to_revert, to_commit, finished,
                 notifications>>

-----------------------------------------------------------------------------
(***************************************************************************)
(* revert: the events of the old chain, the last one first.                *)
(***************************************************************************)
LastEvent == applied[Len(applied)].event

DropLast ==
  /\ applied' = SubSeq(applied, 1, Len(applied) - 1)
  /\ to_revert' = to_revert - 1
  /\ UNCHANGED <<to_commit, phase, finished, notifications>>

Reverting == phase = "reverting" /\ to_revert > 0

\* Only Ether deposits to this rollup count.
IsDeposit(e) == ~IsSubmission(e) /\ e.chain = Ours /\ e.token = Ether

\* Neither arm of the match does anything with the event.
RevertIgnored ==
  /\ Reverting
  /\ IF IsSubmission(LastEvent) THEN LastEvent.call = "otherCall"
                                ELSE ~IsDeposit(LastEvent)
  /\ DropLast
  /\ UNCHANGED dbVars

\* BlockSubmitted: revert_tip_block(header.sequence)?, whatever the chain.
RevertSubmission ==
  /\ Reverting
  /\ IsSubmission(LastEvent)
  /\ LastEvent.call = "submitBlock"
  /\ IsTip(LastEvent.sequence)
  /\ RevertTipBlock(LastEvent.sequence)
  /\ DropLast

RevertSubmissionFails ==
  /\ Reverting
  /\ IsSubmission(LastEvent)
  /\ LastEvent.call = "submitBlock"
  /\ ~IsTip(LastEvent.sequence)
  /\ Fail

\* Mutant of Withdrawn: the subtraction does not wrap.
WithdrawnUnwrapped(info, amount) == [info EXCEPT !.balance = @ - amount]

\* Enter: the balance of an existing account goes down, modulo 2^256.
Withdrawn(info, amount) ==
  [info EXCEPT !.balance = (@ - amount) % BalanceModulus]

RevertDeposit ==
  /\ Reverting
  /\ IsDeposit(LastEvent)
  /\ account[LastEvent.recipient] # None
  /\ UpsertAccount(LastEvent.recipient,
                   Withdrawn(account[LastEvent.recipient], LastEvent.amount))
  /\ DropLast

RevertDepositFails ==
  /\ Reverting
  /\ IsDeposit(LastEvent)
  /\ account[LastEvent.recipient] = None
  /\ Fail

\* revert returned; the committed chain, if there is one, is next.
RevertDone ==
  /\ phase = "reverting"
  /\ to_revert = 0
  /\ phase' = IF to_commit > 0 THEN "committing" ELSE "waiting"
  /\ UNCHANGED <<dbVars, applied, to_revert, to_commit, finished,
                 notifications>>

-----------------------------------------------------------------------------
(***************************************************************************)
(* commit: the events of the new chain in order.                           *)
(***************************************************************************)
Now == [account |-> account, slot |-> View(storage)]

Committing(e) ==
  /\ phase = "committing"
  /\ to_commit > 0
  /\ IsSubmission(e) => IsNextSequence(e.chain, e.sequence)

Record(e, inserted, post) ==
  /\ applied' = Append(applied, [event |-> e, inserted |-> inserted,
                                 pre |-> Now, post |-> post])
  /\ to_commit' = to_commit - 1
  /\ UNCHANGED <<to_revert, phase, finished, notifications>>

\* Mutant of Executable: a missing parent block is not an error.
ExecutableOrphan(e) == e.chain = Ours

\* execute_block up to the transactions: the chain id, then the parent block
\* that the base fee is computed from (block 0 has none).
Executable(e) ==
  /\ e.chain = Ours
  /\ e.sequence # 0 => Stored(e.sequence - 1)

\* BlockSubmitted, executed and inserted.
CommitBlock(e, body) ==
  /\ Committing(e)
  /\ IsSubmission(e)
  /\ e.call = "submitBlock"
  /\ Executable(e)
  /\ ~Stored(e.sequence)
  /\ InsertBlockWithBundle(e.sequence, e.header, Execute(body))
  /\ Record(e, TRUE, Execute(body))

\* BlockSubmitted whose execution failed (the chain id, no parent block,
\* blobs or block data that cannot be had or decoded, a gas limit, a database
\* error) is logged and passed over; so is a call that is not submitBlock.
CommitUnexecuted(e) ==
  /\ Committing(e)
  /\ IsSubmission(e)
  /\ e.call # "undecodable"
  /\ Record(e, FALSE, Unchanged)
  /\ UNCHANGED dbVars

\* abi_decode(tx.input())? fails, or the block number is already in the
\* table and the INSERT breaks the UNIQUE constraint.
CommitFails(e) ==
  /\ Committing(e)
  /\ IsSubmission(e)
  /\ e.call # "undecodable" => /\ e.call = "submitBlock"
                               /\ Executable(e)
                               /\ Stored(e.sequence)
  /\ Fail

\* Mutant of Deposited: the balance is replaced, not increased.
DepositReplaces(info, amount) ==
  [balance |-> amount, code |-> Code(info)]

\* Enter: the recipient's balance goes up, modulo 2^256.
Deposited(info, amount) ==
  [balance |-> (Balance(info) + amount) % BalanceModulus, code |-> Code(info)]

CommitDeposit(e) ==
  /\ Committing(e)
  /\ IsDeposit(e)
  /\ UpsertAccount(e.recipient, Deposited(account[e.recipient], e.amount))
  /\ Record(e, FALSE, Unchanged)

CommitIgnoredDeposit(e) ==
  /\ Committing(e)
  /\ ~IsSubmission(e)
  /\ ~IsDeposit(e)
  /\ Record(e, FALSE, Unchanged)
  /\ UNCHANGED dbVars

\* commit returned: FinishedHeight is sent and `start` waits again.
NotificationDone ==
  /\ phase = "committing"
  /\ to_commit = 0
  /\ phase' = "waiting"
  /\ finished' = Len(applied)
  /\ UNCHANGED <<dbVars, applied, to_revert, to_commit, notifications>>

Next ==
  \/ Notify
  \/ RevertIgnored
  \/ RevertSubmission
  \/ RevertSubmissionFails
  \/ RevertDeposit
  \/ RevertDepositFails
  \/ RevertDone
  \/ \E e \in Submissions, body \in Bodies : CommitBlock(e, body)
  \/ \E e \in Submissions : CommitUnexecuted(e)
  \/ \E e \in Submissions : CommitFails(e)
  \/ \E e \in Enters : CommitDeposit(e)
  \/ \E e \in Enters : CommitIgnoredDeposit(e)
  \/ NotificationDone

Spec == Init /\ [][Next]_vars

-----------------------------------------------------------------------------
(***************************************************************************)
(* Safety of the block table.                                              *)
(***************************************************************************)

\* The stored block numbers have no gap: construct_header finds the parent of
\* every block but 0, and revert_tip_block takes away the last one only.
BlocksContiguous ==
  \A n \in Seqs : Stored(n) => \A m \in 0..n : Stored(m)

\* Every stored block is hash-linked to the block stored below it, after any
\* reorg: its parent_hash is the hash of the block now found at n - 1.
HashLinked ==
  \A n \in Seqs : Stored(n) =>
    /\ Len(block[n]) = n + 1
    /\ n > 0 => SubSeq(block[n], 1, n) = block[n - 1]

\* The entry i submitted the block stored under number n.
Submitted(i, n) ==
  /\ applied[i].inserted
  /\ applied[i].event.chain = Ours
  /\ applied[i].event.sequence = n
  /\ applied[i].event.header = block[n][n + 1]

\* A stored block was submitted for this rollup, with this header, by an
\* event that is still on the L1 chain: no reorg leaves a block behind.
StoredBlocksAreCanonical ==
  \A n \in Seqs : Stored(n) => \E i \in DOMAIN applied : Submitted(i, n)

\* Every block that was executed and whose event is still on the L1 chain is
\* stored.
ExecutedBlocksAreStored ==
  \A i \in DOMAIN applied :
    applied[i].inserted => /\ Stored(applied[i].event.sequence)
                           /\ Submitted(i, applied[i].event.sequence)

\* The last event that the ExEx passed over, being another rollup's or one
\* that failed to execute, is taken off the L1 chain again.
PassedOverReverted ==
  /\ Len(applied') < Len(applied)
  /\ IsSubmission(applied[Len(applied)].event)
  /\ ~applied[Len(applied)].inserted

\* No commit and no reorg loses a block: what is executed and canonical stays
\* stored through every step but the revert of a submission that was passed
\* over, which may take away a block that it never inserted.
ExecutedBlocksStayStored ==
  [][ExecutedBlocksAreStored /\ ~PassedOverReverted => ExecutedBlocksAreStored']_vars

\* The chain that ends in the block with the largest number of a table.
ChainOf(table) ==
  LET numbers == {n \in Seqs : table[n] # <<>>}
  IN  IF numbers = {} THEN <<>>
      ELSE table[CHOOSE n \in numbers : \A m \in numbers : m <= n]

TipChain == ChainOf(block)

Tip == INSTANCE RollupChain WITH chain <- TipChain

\* The database implements RollupChain: whatever the ExEx does, failing
\* included, its chain changes by one block at the end and nowhere else.
TipSpec == Tip!ChainSpec

-----------------------------------------------------------------------------
(***************************************************************************)
(* Safety of the account and storage tables.                               *)
(***************************************************************************)
Touched(entry) ==
  {a \in Addresses : entry.post.account[a] # entry.pre.account[a]}

Changed(entry) ==
  {s \in Slots : /\ s[1] \notin entry.post.wiped
                 /\ entry.post.slot[s] # entry.pre.slot[s]}

\* The revert tables hold the values from before the entry's block.
RowsExact(entry) ==
  /\ \A a \in Touched(entry) :
       account_revert[<<entry.event.sequence, a>>] = entry.pre.account[a]
  /\ \A s \in Changed(entry) :
       storage_revert[<<entry.event.sequence, s>>] = entry.pre.slot[s]

\* For every block in the database the revert tables hold, for each account
\* and each slot it changed (wiped storage apart), the value from before it:
\* no later block and no re-submission of a number disturbs these rows.
RevertRowsAreExact ==
  \A i \in DOMAIN applied :
    applied[i].inserted /\ Stored(applied[i].event.sequence) =>
      RowsExact(applied[i])

\* The step takes the last L1 event, which had inserted a block, off again.
BlockReverted ==
  /\ Len(applied') < Len(applied)
  /\ applied[Len(applied)].inserted

\* Reverting a block gives every account and every slot that it changed
\* (wiped storage apart) back the value from before the block.
RevertUndoesBlock ==
  [][BlockReverted =>
       LET entry == applied[Len(applied)]
       IN  /\ \A a \in Touched(entry) : account'[a] = entry.pre.account[a]
           /\ \A s \in Changed(entry) : View(storage')[s] = entry.pre.slot[s]
    ]_vars

\* The Ether that an L1 event deposits for a, and that the entries of an L1
\* chain have deposited.
DepositOf(e, a) == IF IsDeposit(e) /\ e.recipient = a THEN e.amount ELSE 0

DepositedIn(entries, a) ==
  LET sum[i \in 0..Len(entries)] ==
        IF i = 0 THEN 0 ELSE sum[i - 1] + DepositOf(entries[i].event, a)
  IN  sum[Len(entries)]

\* The Ether that the L1 chain, as processed, has deposited for a.
DepositedTo(a) == DepositedIn(applied, a)

\* An account that no block ever changed owns exactly the Ether deposited for
\* it on the current L1 chain: a reorg takes every deposit back once, and
\* neither foreign deposits nor other tokens are ever credited.
DepositsExact ==
  \A a \in Addresses :
    (\A n \in Seqs : account_revert[<<n, a>>] = NoRow) =>
      Balance(account[a]) = DepositedTo(a) % BalanceModulus

\* The code of every account can be found by code_by_hash, which otherwise
\* would silently run the account as one without code.
CodeAvailable ==
  \A a \in Addresses : Code(account[a]) \in bytecode \cup {NoCode}

-----------------------------------------------------------------------------
(***************************************************************************)
(* What the comments and the messages of the code say and the code does    *)
(* not do (checked in runs that expect a violation).                       *)
(***************************************************************************)

\* "Reverts the tip block from the database": reverting a block gives every
\* account back the balance and the code from before the block.
RevertRestoresAccounts ==
  [][BlockReverted =>
       \A a \in Addresses :
         LET before == applied[Len(applied)].pre.account[a]
         IN  /\ Balance(account'[a]) = Balance(before)
             /\ Code(account'[a]) = Code(before)]_vars

\* The same for storage: every slot has the value from before the block.
RevertRestoresStorage ==
  [][BlockReverted =>
       View(storage') = applied[Len(applied)].pre.slot]_vars

\* "Reverts can only be done from the tip": reverting the highest block in
\* the database is such a revert and does not fail.
TipIsHighestBlock ==
  [][RevertSubmissionFails /\ Stored(LastEvent.sequence) =>
       \E n \in StoredNumbers : n > LastEvent.sequence]_vars

\* "Invalid rollup chain ID", "Failed to execute block": an event that commit
\* passed over has inserted nothing, and its revert takes no block away.
UnexecutedRevertKeepsBlocks ==
  [][\A n \in Seqs :
       Stored(n) /\ block'[n] = <<>> => applied[Len(applied)].inserted]_vars
=============================================================================
