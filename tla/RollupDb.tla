------------------------------ MODULE RollupDb ------------------------------
(***************************************************************************)
(* The SQLite database of the rollup ExEx (rollup/src/db.rs): its six      *)
(* tables and the operations that change them.  Each operation runs in one *)
(* SQLite transaction, or is one statement, behind the connection's mutex, *)
(* so it is one step; an error leaves every table as it was.               *)
(*                                                                         *)
(* A table is a total function; None, NoRow and the empty sequence stand   *)
(* for rows that do not exist.  An AccountInfo is reduced to its balance   *)
(* and its code.  The hash of a rollup block commits to its header and to  *)
(* its parent's hash only (construct_header leaves the transactions root   *)
(* at its default), so a stored block is represented by what its hash      *)
(* commits to: the sequence of the headers from block 0 up to it.          *)
(***************************************************************************)
EXTENDS Integers, Sequences

CONSTANTS
  Addresses,        \* rollup accounts
  Keys,             \* storage keys
  Codes,            \* contract codes, NoCode among them
  NoCode,           \* the code of an account without code
  Headers,          \* header contents chosen by the sequencer
  MaxSequence,      \* BOUND: largest rollup block number
  BalanceModulus,   \* a U256 balance wraps at this modulus
  MaxValue,         \* BOUND: largest value of a storage slot
  None,             \* no such row / the JSON null of an absent account
  NoRow,            \* no such row in a revert table
  Destroyed         \* the text "destroyed" in storage_revert.data

Seqs     == 0..MaxSequence
Balances == 0..(BalanceModulus - 1)
Values   == 0..MaxValue
Info     == [balance : Balances, code : Codes]
Slots    == Addresses \X Keys

ASSUME DbConstants ==
  /\ MaxSequence \in Nat
  /\ BalanceModulus \in Nat \ {0}
  /\ MaxValue \in Nat
  /\ NoCode \in Codes
  /\ None \notin Info
  /\ None \notin Values
  /\ NoRow \notin Info \cup {None}
  /\ NoRow \notin Values \cup {Destroyed}
  /\ Destroyed \notin Values

VARIABLES block, account, storage, account_revert, storage_revert, bytecode

dbVars == <<block, account, storage, account_revert, storage_revert, bytecode>>

AccountTable == [Addresses -> Info \cup {None}]
StorageView  == [Slots -> Values]

DbTypeOK ==
  /\ block \in [Seqs -> Seq(Headers)]
  /\ account \in AccountTable
  /\ storage \in [Slots -> Values \cup {None}]
  /\ account_revert \in [Seqs \X Addresses -> Info \cup {None, NoRow}]
  /\ storage_revert \in [Seqs \X Slots -> Values \cup {Destroyed, NoRow}]
  /\ bytecode \subseteq Codes

(***************************************************************************)
(* create_tables: every table starts empty.                                *)
(***************************************************************************)
DbInit ==
  /\ block = [n \in Seqs |-> <<>>]
  /\ account = [a \in Addresses |-> None]
  /\ storage = [s \in Slots |-> None]
  /\ account_revert = [r \in Seqs \X Addresses |-> NoRow]
  /\ storage_revert = [r \in Seqs \X Slots |-> NoRow]
  /\ bytecode = {}

-----------------------------------------------------------------------------
(***************************************************************************)
(* Reads.                                                                  *)
(***************************************************************************)

\* get_block(n) finds a row.
Stored(n) == block[n] # <<>>

StoredNumbers == {n \in Seqs : Stored(n)}

\* Database::basic seen by the EVM: an absent account is an empty one.
Balance(info) == IF info = None THEN 0 ELSE info.balance
Code(info)    == IF info = None THEN NoCode ELSE info.code

\* Database::storage: `unwrap_or_default` reads an absent slot as zero.
View(st) == [s \in Slots |-> IF st[s] = None THEN 0 ELSE st[s]]

\* `ORDER BY number` compares a TEXT column: "10" sorts before "2".  For
\* numbers below 100, TextKey is order-isomorphic to their decimal text.
TextKey(n) == IF n < 10 THEN 11 * n ELSE 11 * (n \div 10) + 1 + (n % 10)

\* Mutant of IsTip: the check against the tip is missing.
AnyStored(n) == Stored(n)

\* "SELECT number FROM block ORDER BY number DESC LIMIT 1" returns n.
IsTip(n) ==
  /\ Stored(n)
  /\ \A m \in Seqs : Stored(m) => TextKey(m) <= TextKey(n)

-----------------------------------------------------------------------------
(***************************************************************************)
(* insert_block_with_bundle.  `post` is what the execution of the block    *)
(* left behind: every account, the value of every slot, and the addresses  *)
(* whose storage was wiped (self-destructed in this block).  revm's bundle *)
(* lists the accounts that differ from the database, the slots that differ *)
(* and, for a wiped address, its nonzero slots.                            *)
(***************************************************************************)
ChangedAccounts(post) == {a \in Addresses : post.account[a] # account[a]}

ChangedSlots(post) ==
  {s \in Slots : IF s[1] \in post.wiped THEN post.slot[s] # 0
                                        ELSE post.slot[s] # View(storage)[s]}

\* Mutant of NewContracts: only an account that did not exist brings code.
NewContractsOfNewAccounts(post) ==
  {Code(post.account[a]) : a \in {b \in ChangedAccounts(post) :
       account[b] = None /\ Code(post.account[b]) # NoCode}}

NewContracts(post) ==
  {Code(post.account[a]) : a \in {b \in ChangedAccounts(post) :
       Code(post.account[b]) \notin {NoCode, Code(account[b])}}}

\* DELETE for a wiped address, then an upsert of every changed slot.
StorageAfterInsert(post) ==
  [s \in Slots |-> IF s \in ChangedSlots(post) THEN post.slot[s]
                   ELSE IF s[1] \in post.wiped THEN None
                   ELSE storage[s]]

\* The reverts that the bundle itself carries.
BundleRevert(post, s) ==
  IF s[1] \in post.wiped THEN Destroyed ELSE View(storage)[s]

\* Mutant of StorageRevertRow: the row is read after the slot was written.
StorageRevertRowLate(post, s) == StorageAfterInsert(post)[s]

\* For a wiped address get_storages runs inside the transaction, after the
\* storage table was rewritten, and its rows override the bundle's.
StorageRevertRow(post, s) ==
  LET rewritten == StorageAfterInsert(post)[s]
  IN  IF s[1] \in post.wiped /\ rewritten # None THEN rewritten
      ELSE BundleRevert(post, s)

HasStorageRevert(post, s) ==
  \/ s \in ChangedSlots(post)
  \/ s[1] \in post.wiped /\ StorageAfterInsert(post)[s] # None

\* Mutant of AccountRevertsAfterInsert: ON CONFLICT DO NOTHING.
AccountRevertsKept(n, post) ==
  [r \in Seqs \X Addresses |->
     IF /\ r[1] = n /\ r[2] \in ChangedAccounts(post)
        /\ account_revert[r] = NoRow
     THEN account[r[2]] ELSE account_revert[r]]

\* One row per changed account, replacing a row left by an earlier block n.
AccountRevertsAfterInsert(n, post) ==
  [r \in Seqs \X Addresses |->
     IF r[1] = n /\ r[2] \in ChangedAccounts(post)
     THEN account[r[2]] ELSE account_revert[r]]

\* Mutant of ParentHash: block n is looked up instead of block n - 1.
ParentHashOffByOne(n) == block[n]

\* construct_header: the hash of block n - 1, the default hash for block 0.
ParentHash(n) == IF n = 0 THEN <<>> ELSE block[n - 1]

InsertBlockWithBundle(n, header, post) ==
  /\ block' = [block EXCEPT ![n] = Append(ParentHash(n), header)]
  /\ account' = post.account
  /\ account_revert' = AccountRevertsAfterInsert(n, post)
  /\ storage' = StorageAfterInsert(post)
  /\ storage_revert' =
       [r \in Seqs \X Slots |->
          IF r[1] = n /\ HasStorageRevert(post, r[2])
          THEN StorageRevertRow(post, r[2]) ELSE storage_revert[r]]
  /\ bytecode' = bytecode \cup NewContracts(post)

-----------------------------------------------------------------------------
(***************************************************************************)
(* revert_tip_block, the transaction that succeeds (IsTip(n) holds).  The  *)
(* rows of the two revert tables stay where they are.                      *)
(***************************************************************************)
RevertedSlot(row) == IF row \in {Destroyed, 0} THEN None ELSE row

\* The tables after the rows of block n were applied.
AccountsBefore(n) ==
  [a \in Addresses |-> IF account_revert[<<n, a>>] = NoRow THEN account[a]
                       ELSE account_revert[<<n, a>>]]

StorageBefore(n) ==
  [s \in Slots |-> IF storage_revert[<<n, s>>] = NoRow THEN storage[s]
                   ELSE RevertedSlot(storage_revert[<<n, s>>])]

\* Mutant of RevertTipBlock: the DELETE from the block table is missing.
RevertTipKeepsBlock(n) ==
  /\ account' = AccountsBefore(n)
  /\ storage' = StorageBefore(n)
  /\ UNCHANGED <<block, account_revert, storage_revert, bytecode>>

\* Mutant of RevertTipBlock: the DELETE has no WHERE clause.
RevertTipDeletesAll(n) ==
  /\ block' = [m \in Seqs |-> <<>>]
  /\ account' = AccountsBefore(n)
  /\ storage' = StorageBefore(n)
  /\ UNCHANGED <<account_revert, storage_revert, bytecode>>

RevertTipBlock(n) ==
  /\ block' = [block EXCEPT ![n] = <<>>]
  /\ account' = AccountsBefore(n)
  /\ storage' = StorageBefore(n)
  /\ UNCHANGED <<account_revert, storage_revert, bytecode>>

(***************************************************************************)
(* upsert_account with a closure that returned `info`.                     *)
(***************************************************************************)
UpsertAccount(a, info) ==
  /\ account' = [account EXCEPT ![a] = info]
  /\ UNCHANGED <<block, storage, account_revert, storage_revert, bytecode>>
=============================================================================
