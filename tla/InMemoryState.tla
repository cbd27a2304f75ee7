--------------------------- MODULE InMemoryState ---------------------------
(***************************************************************************)
(* The ExEx that keeps the execution outcome of the chain in memory        *)
(* (in-memory-state/src/main.rs); the ExEx of the oracle                   *)
(* (oracle/src/exex.rs) is the same code.                                  *)
(*                                                                         *)
(* External: the node notifies of a canonical chain that starts at the     *)
(* block the ExEx is launched at; and ExecutionOutcome, abstracted to the  *)
(* list of the blocks it has entries for, in order.  Its first_block is 0  *)
(* in the default outcome the ExEx starts with, and extend does not change *)
(* it, so revert_to(n) counts n + 1 entries whatever block came first.     *)
(***************************************************************************)
EXTENDS Integers, Sequences

CONSTANTS
  Starts,             \* numbers the first notified block may have
  Forks,              \* what tells blocks of one number apart
  MaxLength,          \* BOUND: blocks of a chain in a notification
  MaxChain,           \* BOUND: canonical blocks since the start
  MaxNotifications    \* BOUND: notifications of the node

ASSUME InMemoryConstants ==
  /\ Starts \subseteq Nat
  /\ MaxLength \in Nat /\ MaxChain \in Nat /\ MaxNotifications \in Nat

VARIABLES
  start,           \* number of the first block the ExEx is notified of
  notified,        \* notifications of the node so far
  notification,    \* the one in the channel to the ExEx, or NoNotification
  outcome,         \* execution_outcome, as the blocks it has entries for
  processed        \* history: the canonical chain after the handled ones

nodeVars == <<start, notified>>
exexVars == <<start, notified, notification, outcome, processed>>

Blocks == [number : Nat, fork : Forks]

\* A committed chain has no old blocks, a reverted one no new ones.
Notifications == [old : Seq(Blocks), new : Seq(Blocks)]

NoNotification == [old |-> <<>>, new |-> <<>>]

StateTypeOK ==
  /\ start \in Starts
  /\ notified \in 0 .. MaxNotifications
  /\ notification \in Notifications
  /\ outcome \in Seq(Blocks)
  /\ processed \in Seq(Blocks)

StateInit ==
  /\ start \in Starts
  /\ notified = 0
  /\ notification = NoNotification
  /\ outcome = <<>>
  /\ processed = <<>>

-----------------------------------------------------------------------------
(***************************************************************************)
(* External: the node.                                                     *)
(***************************************************************************)

\* The canonical chain once m is known: m.old is its end.
After(c, m) == SubSeq(c, 1, Len(c) - Len(m.old)) \o m.new

\* The last d blocks of a chain, and n blocks of fork f after its first k.
LastBlocks(c, d) == SubSeq(c, Len(c) - d + 1, Len(c))
Extension(k, n, f) == [i \in 1 .. n |-> [number |-> start + k + i - 1, fork |-> f]]

\* A depth of 0 is a commit, a length of 0 a revert; the genesis block is
\* never reverted, and the new blocks differ from the old ones.  The channel
\* holds one notification; the others wait in the node.
NodeNotifies(d, n, f) ==
  LET k   == Len(processed) - d
      old == LastBlocks(processed, d)
  IN  /\ notification = NoNotification
      /\ notified < MaxNotifications
      /\ d + n > 0
      /\ k + n <= MaxChain
      /\ d > 0 => start + k > 0
      /\ d > 0 /\ n > 0 => old[1].fork # f
      /\ notified' = notified + 1
      /\ notification' = [old |-> old, new |-> Extension(k, n, f)]
      /\ UNCHANGED <<start, outcome, processed>>

NodeChanges ==
  \E d \in 0 .. Len(processed), n \in 0 .. MaxLength, f \in Forks :
    NodeNotifies(d, n, f)

-----------------------------------------------------------------------------
(***************************************************************************)
(* The ExEx.                                                               *)
(***************************************************************************)

\* ExecutionOutcome::revert_to: keeps the entries up to block n of an outcome
\* whose first block is 0, or all of them when there are no more.
RevertTo(out, n) == IF n < Len(out) THEN SubSeq(out, 1, n + 1) ELSE out

\* The block that is reverted first: of the new chain if there is one.
FirstNumber(m) == IF m.new # <<>> THEN m.new[1].number ELSE m.old[1].number

\* Mutant of Handled: one block less is kept.
HandledOffByOne(out, m) ==
  (IF m.old # <<>> /\ FirstNumber(m) > 1 THEN RevertTo(out, FirstNumber(m) - 2) ELSE out)
    \o m.new

\* revert_to the block before the first one, then extend.
Handled(out, m) ==
  (IF m.old # <<>> THEN RevertTo(out, FirstNumber(m) - 1) ELSE out) \o m.new

\* One turn of the loop of poll.
HandleNotification ==
  /\ notification # NoNotification
  /\ notification' = NoNotification
  /\ outcome' = Handled(outcome, notification)
  /\ processed' = After(processed, notification)
  /\ UNCHANGED nodeVars

StateNext == NodeChanges \/ HandleNotification

\* The ExEx alone; a step of an error only stops it.
StateSpec == StateInit /\ [][StateNext]_exexVars

-----------------------------------------------------------------------------
(***************************************************************************)
(* Properties.                                                             *)
(***************************************************************************)

\* No reorg takes an entry of a canonical block away: the block of number n
\* has one among the first n + 1.
CanonicalBlocksKept ==
  \A k \in DOMAIN processed :
    \E p \in DOMAIN outcome : p <= start + k /\ outcome[p] = processed[k]

\* Through every reorg the outcome keeps the canonical blocks since the start;
\* an ExEx that is notified of the chain from block 0 holds exactly the chain.
OutcomeHoldsChain ==
  /\ CanonicalBlocksKept
  /\ start = 0 => outcome = processed

\* "revert to block before the reorg": no entry of a reverted block is left
\* once its notification is handled.  Violated when the first block notified
\* is not block 0, because revert_to counts entries from block 0.
RevertedBlocksGone ==
  \A p \in DOMAIN outcome : \E k \in DOMAIN processed : outcome[p] = processed[k]
=============================================================================
