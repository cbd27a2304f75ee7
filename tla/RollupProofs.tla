---------------------------- MODULE RollupProofs ----------------------------
(***************************************************************************)
(* Proofs about the rollup ExEx, for every value of its constants.         *)
(***************************************************************************)
EXTENDS Rollup, SequenceTheorems, TLAPS

-----------------------------------------------------------------------------
(***************************************************************************)
(* Types.                                                                  *)
(***************************************************************************)

\* A balance and a code can be read of every row of the account table, also
\* of one that does not exist.
LEMMA ReadTypes ==
  ASSUME NEW info \in Info \cup {None}
  PROVE  Balance(info) \in Balances /\ Code(info) \in Codes
  BY DbConstants DEF Balance, Code, Info, Balances

\* An AccountInfo is made of a balance and a code.
LEMMA InfoType ==
  ASSUME NEW b \in Balances, NEW c \in Codes
  PROVE  [balance |-> b, code |-> c] \in Info
  BY DEF Info

\* The storage table always reads as a value per slot.
LEMMA ViewType ==
  ASSUME NEW st \in [Slots -> Values \cup {None}]
  PROVE  View(st) \in StorageView
  BY DbConstants DEF View, StorageView, Values

\* What a deposit and its revert write is an AccountInfo, because both wrap.
LEMMA DepositTypes ==
  ASSUME NEW info \in Info \cup {None}, NEW amount \in Amounts
  PROVE  /\ Deposited(info, amount) \in Info
         /\ info # None => Withdrawn(info, amount) \in Info
  <1>1. amount \in Int
    BY RollupConstants DEF Balances
  <1>2. \A x \in Int : x % BalanceModulus \in Balances
    BY DbConstants DEF Balances
  <1>3. Balance(info) \in Int /\ Code(info) \in Codes
    BY ReadTypes DEF Balances
  <1>4. Deposited(info, amount) \in Info
    BY <1>1, <1>2, <1>3, InfoType DEF Deposited
  <1>5. ASSUME info # None
        PROVE  Withdrawn(info, amount) \in Info
    <2>1. info \in Info /\ info.balance \in Int
      BY <1>5 DEF Info, Balances
    <2>2. (info.balance - amount) % BalanceModulus \in Balances
      BY <1>1, <1>2, <2>1
    <2> QED
      BY <2>1, <2>2 DEF Withdrawn, Info
  <1> QED
    BY <1>4, <1>5

\* An execution yields accounts, slot values and wiped addresses.
LEMMA ExecuteType ==
  ASSUME DbTypeOK, NEW b \in Bodies
  PROVE  Execute(b) \in PostType
  <1>1. /\ b.op \in Ops /\ b.addr \in Addresses /\ b.peer \in Addresses
        /\ b.key \in Keys /\ b.value \in Values /\ b.code \in Codes
    BY BodiesAssumption DEF BodyType
  <1>2. account \in AccountTable /\ View(storage) \in StorageView
    BY ViewType DEF DbTypeOK
  <1>3. /\ Balance(account[b.addr]) \in Balances
        /\ Code(account[b.addr]) \in Codes
        /\ Balance(account[b.peer]) \in Balances
        /\ Code(account[b.peer]) \in Codes
    BY <1>1, <1>2, ReadTypes DEF AccountTable
  <1>4. ASSUME Runs(b)
        PROVE  AccountsAfter(b) \in AccountTable
    <2>1. /\ Paid(b) \in Nat
          /\ Balance(account[b.addr]) - Paid(b) \in Balances
          /\ Balance(account[b.peer]) + Paid(b) \in Balances
      BY <1>3, <1>4, DbConstants DEF Runs, Paid, Balances
    <2>2. Debited(b) \in Info \cup {None}
      BY <1>1, <1>3, <2>1, InfoType DEF Debited
    <2>3. Credited(b) \in Info \cup {None}
      BY <1>1, <1>2, <1>3, <2>1, InfoType DEF Credited, AccountTable
    <2> QED
      BY <1>1, <1>2, <2>2, <2>3 DEF AccountsAfter, AccountTable
  <1>5. SlotsAfter(b) \in StorageView
    BY <1>1, <1>2, DbConstants DEF SlotsAfter, StorageView, Values
  <1>6. Wiped(b) \subseteq Addresses
    BY <1>1 DEF Wiped
  <1> QED
    BY <1>2, <1>4, <1>5, <1>6 DEF Execute, Unchanged, PostType

\* insert_block_with_bundle keeps the tables well typed.
LEMMA InsertType ==
  ASSUME DbTypeOK, NEW n \in Seqs, NEW h \in Headers, NEW post \in PostType,
         InsertBlockWithBundle(n, h, post)
  PROVE  DbTypeOK'
  <1>1. View(storage) \in StorageView
    BY ViewType DEF DbTypeOK
  <1>2. post.account \in AccountTable /\ post.slot \in StorageView
    BY DEF PostType
  <1>3. block' \in [Seqs -> Seq(Headers)]
    <2>1. n # 0 => n - 1 \in Seqs
      BY DbConstants DEF Seqs
    <2>2. ParentHash(n) \in Seq(Headers)
      BY <2>1 DEF ParentHash, DbTypeOK
    <2> QED
      BY <2>2 DEF InsertBlockWithBundle, DbTypeOK
  <1>4. account' \in AccountTable
    BY <1>2 DEF InsertBlockWithBundle
  <1>5. StorageAfterInsert(post) \in [Slots -> Values \cup {None}]
    BY <1>2 DEF StorageAfterInsert, StorageView, DbTypeOK
  <1>6. storage' \in [Slots -> Values \cup {None}]
    BY <1>5 DEF InsertBlockWithBundle
  <1>7. account_revert' \in [Seqs \X Addresses -> Info \cup {None, NoRow}]
    <2>1. \A r \in Seqs \X Addresses : account[r[2]] \in Info \cup {None}
      BY DEF DbTypeOK, AccountTable
    <2> QED
      BY <2>1 DEF InsertBlockWithBundle, AccountRevertsAfterInsert, DbTypeOK
  <1>8. storage_revert' \in [Seqs \X Slots -> Values \cup {Destroyed, NoRow}]
    <2>1. \A s \in Slots : StorageRevertRow(post, s) \in Values \cup {Destroyed}
      BY <1>1, <1>5 DEF StorageRevertRow, BundleRevert, StorageView
    <2>2. \A r \in Seqs \X Slots :
            storage_revert'[r] \in Values \cup {Destroyed, NoRow}
      BY <2>1 DEF InsertBlockWithBundle, DbTypeOK
    <2> QED
      BY <2>2 DEF InsertBlockWithBundle
  <1>9. bytecode' \subseteq Codes
    <2>1. \A a \in Addresses : Code(post.account[a]) \in Codes
      BY <1>2, ReadTypes DEF AccountTable
    <2> QED
      BY <2>1 DEF InsertBlockWithBundle, NewContracts, ChangedAccounts, DbTypeOK
  <1> QED
    BY <1>3, <1>4, <1>6, <1>7, <1>8, <1>9 DEF DbTypeOK

\* revert_tip_block keeps the tables well typed.
LEMMA RevertType ==
  ASSUME DbTypeOK, NEW n \in Seqs, RevertTipBlock(n)
  PROVE  DbTypeOK'
  <1>1. block' \in [Seqs -> Seq(Headers)]
    BY DEF RevertTipBlock, DbTypeOK
  <1>2. account' \in AccountTable
    BY DEF RevertTipBlock, AccountsBefore, DbTypeOK, AccountTable
  <1>3. storage' \in [Slots -> Values \cup {None}]
    BY DEF RevertTipBlock, StorageBefore, RevertedSlot, DbTypeOK
  <1> QED
    BY <1>1, <1>2, <1>3 DEF RevertTipBlock, DbTypeOK

\* An entry that Record appends is an Entry.
LEMMA RecordType ==
  ASSUME TypeOK, NEW e \in Events, NEW ins \in BOOLEAN, NEW post \in PostType,
         Record(e, ins, post)
  PROVE  /\ applied' \in Seq(Entries)
         /\ to_revert' \in 0..Len(applied')
  <1>1. Now \in RollupState
    BY ViewType DEF TypeOK, DbTypeOK, Now, RollupState
  <1>2. [event |-> e, inserted |-> ins, pre |-> Now, post |-> post] \in Entries
    BY <1>1 DEF Entries
  <1> QED
    BY <1>2 DEF Record, TypeOK

\* The current state, as the outcome of an event that executed no block.
LEMMA UnchangedType ==
  ASSUME DbTypeOK
  PROVE  Unchanged \in PostType
  BY ViewType DEF Unchanged, PostType, DbTypeOK

\* The first m elements of a sequence.
LEMMA Prefix ==
  ASSUME NEW S, NEW q \in Seq(S), NEW m \in 0..Len(q)
  PROVE  LET p == SubSeq(q, 1, m)
         IN  /\ p \in Seq(S)
             /\ Len(p) = m
             /\ DOMAIN p = 1..m
             /\ \A i \in 1..m : p[i] = q[i]
  <1> DEFINE p == SubSeq(q, 1, m)
  <1>1. m \in Nat /\ m = (IF 1 <= m THEN m - 1 + 1 ELSE 0)
    OBVIOUS
  <1>2. \A i \in 1..m : q[i] \in S
    OBVIOUS
  <1>3. /\ p \in Seq(S)
        /\ Len(p) = m
        /\ \A i \in 1..(m - 1 + 1) : p[i] = q[1 + i - 1]
    BY <1>1, <1>2, SubSeqProperties
  <1>4. DOMAIN p = 1..m
    BY <1>3, LenProperties
  <1>5. \A i \in 1..m : p[i] = q[i]
    <2>1. m - 1 + 1 = m /\ \A i \in 1..m : 1 + i - 1 = i
      BY <1>1
    <2> HIDE DEF p
    <2> QED
      BY <1>3, <2>1
  <1> QED
    BY <1>3, <1>4, <1>5

\* What the arms of `revert` know of the event they process.
LEMMA LastEventType ==
  ASSUME TypeOK, Reverting
  PROVE  /\ Len(applied) \in DOMAIN applied
         /\ Len(applied) > 0
         /\ applied[Len(applied)] \in Entries
         /\ LastEvent \in Events
         /\ IsSubmission(LastEvent) => LastEvent \in Submissions
         /\ ~IsSubmission(LastEvent) => LastEvent \in Enters
  <1>1. Len(applied) > 0 /\ Len(applied) \in DOMAIN applied
    BY DEF TypeOK, Reverting
  <1>2. applied[Len(applied)] \in Entries
    BY <1>1 DEF TypeOK
  <1>3. LastEvent \in Events
    BY <1>2 DEF LastEvent, Entries
  <1>4. IsSubmission(LastEvent) <=> LastEvent \in Submissions
    BY <1>3 DEF Events, IsSubmission, Submissions, Enters
  <1> QED
    BY <1>1, <1>2, <1>3, <1>4 DEF Events

\* Taking the last event off keeps the rest.
LEMMA DropLastType ==
  ASSUME TypeOK, Reverting, DropLast
  PROVE  /\ applied' \in Seq(Entries)
         /\ Len(applied') = Len(applied) - 1
         /\ DOMAIN applied' = 1..(Len(applied) - 1)
         /\ \A i \in 1..(Len(applied) - 1) : applied'[i] = applied[i]
         /\ to_revert' \in 0..Len(applied')
  <1>1. applied \in Seq(Entries) /\ Len(applied) > 0
    BY LastEventType DEF TypeOK
  <1>2. applied' = SubSeq(applied, 1, Len(applied) - 1)
    BY DEF DropLast
  <1>3. to_revert \in 0..Len(applied) /\ to_revert > 0 /\ to_revert' = to_revert - 1
    BY DEF DropLast, TypeOK, Reverting
  <1>4. to_revert' \in 0..(Len(applied) - 1)
    BY <1>1, <1>3
  <1> DEFINE m == Len(applied) - 1
  <1>5. m \in 0..Len(applied)
    BY <1>1
  <1>6. /\ SubSeq(applied, 1, m) \in Seq(Entries)
        /\ Len(SubSeq(applied, 1, m)) = m
        /\ DOMAIN SubSeq(applied, 1, m) = 1..m
        /\ \A i \in 1..m : SubSeq(applied, 1, m)[i] = applied[i]
    <2> HIDE DEF m
    <2> QED
      BY <1>1, <1>5, Prefix
  <1> QED
    BY <1>2, <1>4, <1>6

\* The tables are well typed in the initial state.
LEMMA InitType == Init => TypeOK
  BY DbConstants DEF Init, DbInit, TypeOK, DbTypeOK, AccountTable

\* Every step keeps the types.
LEMMA NextType == TypeOK /\ [Next]_vars => TypeOK'
  <1> SUFFICES ASSUME TypeOK, [Next]_vars
               PROVE  TypeOK'
    OBVIOUS
  <1> USE DEF TypeOK
  <1>1. CASE Notify
    <2>1. PICK r \in 0..Len(applied), c \in 0..MaxBatch :
            to_revert' = r /\ to_commit' = c
      BY <1>1 DEF Notify
    <2> QED
      BY <1>1, <2>1, RollupConstants DEF Notify, dbVars, DbTypeOK
  <1>2. ASSUME Fail
        PROVE  TypeOK'
    BY <1>2 DEF Fail, dbVars, DbTypeOK
  <1>3. CASE RevertIgnored
    BY <1>3, DropLastType DEF RevertIgnored, DropLast, dbVars, DbTypeOK
  <1>4. CASE RevertSubmission
    <2>1. Reverting /\ DropLast /\ RevertTipBlock(LastEvent.sequence)
      BY <1>4 DEF RevertSubmission
    <2>2. LastEvent.sequence \in Seqs
      BY <1>4, LastEventType DEF RevertSubmission, Submissions
    <2>3. DbTypeOK'
      BY <2>1, <2>2, RevertType
    <2> QED
      BY <2>1, <2>3, DropLastType DEF DropLast
  <1>5. CASE RevertSubmissionFails
    BY <1>2, <1>5 DEF RevertSubmissionFails
  <1>6. CASE RevertDeposit
    <2>1. Reverting /\ DropLast
      BY <1>6 DEF RevertDeposit
    <2>2. LastEvent.recipient \in Addresses /\ LastEvent.amount \in Amounts
      BY <1>6, <2>1, LastEventType DEF RevertDeposit, IsDeposit, Enters
    <2>3. account[LastEvent.recipient] \in Info \cup {None}
      BY <2>2 DEF DbTypeOK, AccountTable
    <2>4. Withdrawn(account[LastEvent.recipient], LastEvent.amount) \in Info
      BY <1>6, <2>2, <2>3, DepositTypes DEF RevertDeposit
    <2>5. DbTypeOK'
      BY <1>6, <2>4 DEF RevertDeposit, UpsertAccount, DbTypeOK, AccountTable
    <2> QED
      BY <2>1, <2>5, DropLastType DEF DropLast
  <1>7. CASE RevertDepositFails
    BY <1>2, <1>7 DEF RevertDepositFails
  <1>8. CASE RevertDone
    BY <1>8 DEF RevertDone, dbVars, DbTypeOK
  <1>9. ASSUME NEW e \in Submissions, NEW body \in Bodies, CommitBlock(e, body)
        PROVE  TypeOK'
    <2>1. Execute(body) \in PostType
      BY ExecuteType
    <2>2. DbTypeOK'
      BY <1>9, <2>1, InsertType DEF CommitBlock, Submissions
    <2>3. applied' \in Seq(Entries) /\ to_revert' \in 0..Len(applied')
      BY <1>9, <2>1, RecordType DEF CommitBlock, Events
    <2> QED
      BY <1>9, <2>2, <2>3 DEF CommitBlock, Record, Committing
  <1>10. ASSUME NEW e \in Events, NEW ins \in BOOLEAN, Committing(e),
                Record(e, ins, Unchanged), DbTypeOK'
         PROVE  TypeOK'
    <2>1. applied' \in Seq(Entries) /\ to_revert' \in 0..Len(applied')
      BY <1>10, UnchangedType, RecordType
    <2> QED
      BY <1>10, <2>1 DEF Record, Committing
  <1>11. ASSUME NEW e \in Submissions, CommitUnexecuted(e)
         PROVE  TypeOK'
    <2>1. DbTypeOK'
      BY <1>11 DEF CommitUnexecuted, dbVars, DbTypeOK
    <2> QED
      BY <1>10, <1>11, <2>1 DEF CommitUnexecuted, Events
  <1>12. ASSUME NEW e \in Submissions, CommitFails(e)
         PROVE  TypeOK'
    BY <1>2, <1>12 DEF CommitFails
  <1>13. ASSUME NEW e \in Enters, CommitDeposit(e)
         PROVE  TypeOK'
    <2>1. e.recipient \in Addresses /\ e.amount \in Amounts
      BY DEF Enters
    <2>2. Deposited(account[e.recipient], e.amount) \in Info
      BY <2>1, DepositTypes DEF DbTypeOK, AccountTable
    <2>3. DbTypeOK'
      BY <1>13, <2>1, <2>2
      DEF CommitDeposit, UpsertAccount, DbTypeOK, AccountTable
    <2> QED
      BY <1>10, <1>13, <2>3 DEF CommitDeposit, Events
  <1>14. ASSUME NEW e \in Enters, CommitIgnoredDeposit(e)
         PROVE  TypeOK'
    <2>1. DbTypeOK'
      BY <1>14 DEF CommitIgnoredDeposit, dbVars, DbTypeOK
    <2> QED
      BY <1>10, <1>14, <2>1 DEF CommitIgnoredDeposit, Events
  <1>15. CASE NotificationDone
    BY <1>15 DEF NotificationDone, dbVars, DbTypeOK
  <1>16. CASE UNCHANGED vars
    BY <1>16 DEF vars, dbVars, DbTypeOK
  <1> QED
    BY <1>1, <1>3, <1>4, <1>5, <1>6, <1>7, <1>8, <1>9, <1>11, <1>12, <1>13,
       <1>14, <1>15, <1>16 DEF Next

\* The six tables and the state of the ExEx keep their types in every
\* behaviour of the ExEx: balances wrap, rows are never half written.
THEOREM TypeCorrect == Spec => []TypeOK
  BY InitType, NextType, PTL DEF Spec

-----------------------------------------------------------------------------
(***************************************************************************)
(* The block table.  Below ten blocks the text order of the numbers is     *)
(* their order, so revert_tip_block takes the highest block; the run       *)
(* text_tip shows that this hypothesis is needed.                          *)
(***************************************************************************)
BlockInv == BlocksContiguous /\ HashLinked

\* With single digits, the tip of the table is its highest block.
LEMMA TipIsHighest ==
  ASSUME MaxSequence < 10, NEW n \in Seqs, IsTip(n)
  PROVE  Stored(n) /\ \A m \in Seqs : Stored(m) => m <= n
  BY DbConstants DEF IsTip, TextKey, Seqs

\* Inserting block n on top of block n - 1.
LEMMA InsertBlock ==
  ASSUME DbTypeOK, BlockInv, NEW n \in Seqs, NEW h \in Headers, ~Stored(n),
         n # 0 => Stored(n - 1),
         block' = [block EXCEPT ![n] = Append(ParentHash(n), h)]
  PROVE  /\ BlockInv'
         /\ block'[n][n + 1] = h
         /\ \A m \in Seqs : Stored(m)' <=> Stored(m) \/ m = n
         /\ \A m \in Seqs : Stored(m)' => m <= n
  <1>1. n \in Nat /\ (n # 0 => n - 1 \in Seqs)
    BY DbConstants DEF Seqs
  <1>2. ParentHash(n) \in Seq(Headers) /\ Len(ParentHash(n)) = n
    BY <1>1 DEF ParentHash, DbTypeOK, BlockInv, HashLinked
  <1>3. /\ Len(block'[n]) = n + 1
        /\ block'[n] # <<>>
        /\ block'[n][n + 1] = h
        /\ block'[n] \in Seq(Headers)
        /\ \A i \in 1..n : block'[n][i] = ParentHash(n)[i]
    <2>1. block'[n] = Append(ParentHash(n), h)
      BY DEF DbTypeOK
    <2> QED
      BY <1>2, <2>1, AppendProperties
  <1>4. \A m \in Seqs : m # n => block'[m] = block[m]
    BY DEF DbTypeOK
  <1>5. \A m \in Seqs : Stored(m) => m < n
    BY <1>1, DbConstants DEF BlockInv, BlocksContiguous, Seqs
  <1>6. \A m \in Seqs : Stored(m)' <=> Stored(m) \/ m = n
    BY <1>3, <1>4 DEF Stored
  <1>7. BlocksContiguous'
    <2>1. \A m \in 0..n : m \in Seqs
      BY DbConstants DEF Seqs
    <2>2. \A m \in 0..n : m # n => Stored(m)
      <3> SUFFICES ASSUME NEW m \in 0..n, m # n
                   PROVE  Stored(m)
        OBVIOUS
      <3>1. n # 0 /\ m \in 0..(n - 1)
        BY <1>1
      <3> QED
        BY <1>1, <3>1 DEF BlockInv, BlocksContiguous
    <2>3. \A k \in Seqs : Stored(k) => \A m \in 0..k : m \in Seqs /\ Stored(m)
      BY DbConstants DEF BlockInv, BlocksContiguous, Seqs
    <2> QED
      BY <1>6, <2>1, <2>2, <2>3 DEF BlocksContiguous
  <1>8. SubSeq(block'[n], 1, n) = ParentHash(n)
    <2>1. n \in 0..Len(block'[n])
      BY <1>1, <1>3
    <2>2. /\ SubSeq(block'[n], 1, n) \in Seq(Headers)
          /\ Len(SubSeq(block'[n], 1, n)) = n
          /\ \A i \in 1..n : SubSeq(block'[n], 1, n)[i] = block'[n][i]
      BY <1>3, <2>1, Prefix
    <2> DEFINE q == SubSeq(block'[n], 1, n)
    <2>3. q \in Seq(Headers) /\ Len(q) = n
          /\ \A i \in 1..n : q[i] = ParentHash(n)[i]
      BY <1>3, <2>2
    <2> HIDE DEF q
    <2>4. q = ParentHash(n)
      BY <1>2, <2>3, SeqEqual
    <2> QED
      BY <2>4 DEF q
  <1>9. HashLinked'
    <2> SUFFICES ASSUME NEW m \in Seqs, Stored(m)'
                 PROVE  /\ Len(block'[m]) = m + 1
                        /\ m > 0 => SubSeq(block'[m], 1, m) = block'[m - 1]
      BY DEF HashLinked
    <2>1. CASE m = n
      <3>1. n > 0 => ParentHash(n) = block'[n - 1]
        BY <1>1, <1>4 DEF ParentHash
      <3> QED
        BY <1>3, <1>8, <2>1, <3>1
    <2>2. CASE m # n
      <3>1. Stored(m) /\ m < n /\ (m > 0 => m - 1 \in Seqs /\ m - 1 # n)
        BY <1>1, <1>5, <1>6, <2>2, DbConstants DEF Seqs
      <3> QED
        BY <1>4, <2>2, <3>1 DEF BlockInv, HashLinked
    <2> QED
      BY <2>1, <2>2
  <1> QED
    BY <1>1, <1>3, <1>5, <1>6, <1>7, <1>9 DEF BlockInv, Seqs

\* Taking the highest block n away.
LEMMA RemoveBlock ==
  ASSUME DbTypeOK, BlockInv, NEW n \in Seqs, Stored(n),
         \A m \in Seqs : Stored(m) => m <= n,
         block' = [block EXCEPT ![n] = <<>>]
  PROVE  /\ BlockInv'
         /\ \A m \in Seqs : Stored(m)' <=> Stored(m) /\ m # n
         /\ \A m \in Seqs : m # n => block'[m] = block[m]
  <1>1. block'[n] = <<>> /\ \A m \in Seqs : m # n => block'[m] = block[m]
    BY DEF DbTypeOK
  <1>2. \A m \in Seqs : Stored(m)' <=> Stored(m) /\ m # n
    BY <1>1 DEF Stored
  <1>3. BlocksContiguous'
    <2>1. \A k \in Seqs : Stored(k) => \A m \in 0..k : m \in Seqs /\ Stored(m)
      BY DbConstants DEF BlockInv, BlocksContiguous, Seqs
    <2>2. \A k \in Seqs : Stored(k) /\ k # n => \A m \in 0..k : m # n
      BY DbConstants DEF Seqs
    <2> QED
      BY <1>2, <2>1, <2>2 DEF BlocksContiguous
  <1>4. HashLinked'
    <2> SUFFICES ASSUME NEW m \in Seqs, Stored(m)'
                 PROVE  /\ Len(block'[m]) = m + 1
                        /\ m > 0 => SubSeq(block'[m], 1, m) = block'[m - 1]
      BY DEF HashLinked
    <2>1. Stored(m) /\ m # n /\ m <= n
      BY <1>2
    <2>2. m > 0 => m - 1 \in Seqs /\ m - 1 # n
      BY <2>1, DbConstants DEF Seqs
    <2> QED
      BY <1>1, <2>1, <2>2 DEF BlockInv, HashLinked
  <1> QED
    BY <1>1, <1>2, <1>3, <1>4 DEF BlockInv

\* The steps that change the block table, and what the others leave alone.
LEMMA BlockSteps ==
  ASSUME Next
  PROVE  \/ \E e \in Submissions, body \in Bodies : CommitBlock(e, body)
         \/ RevertSubmission
         \/ UNCHANGED block
  BY DEF Next, Notify, Fail, RevertIgnored, RevertSubmissionFails,
         RevertDeposit, RevertDepositFails, RevertDone, CommitUnexecuted,
         CommitFails, CommitDeposit, CommitIgnoredDeposit, NotificationDone,
         UpsertAccount, dbVars

\* What CommitBlock does to the block table.
LEMMA CommitBlockFacts ==
  ASSUME TypeOK, BlockInv, NEW e \in Submissions, NEW body \in Bodies,
         CommitBlock(e, body)
  PROVE  /\ BlockInv'
         /\ e.sequence \in Seqs
         /\ ~Stored(e.sequence)
         /\ e.sequence # 0 => Stored(e.sequence - 1)
         /\ e.header \in Headers
         /\ block' = [block EXCEPT ![e.sequence] =
                        Append(ParentHash(e.sequence), e.header)]
         /\ block'[e.sequence][e.sequence + 1] = e.header
         /\ \A m \in Seqs : Stored(m)' <=> Stored(m) \/ m = e.sequence
         /\ \A m \in Seqs : Stored(m)' => m <= e.sequence
  <1>1. e.sequence \in Seqs /\ e.header \in Headers
    BY DEF Submissions
  <1>2. /\ ~Stored(e.sequence)
        /\ e.sequence # 0 => Stored(e.sequence - 1)
        /\ block' = [block EXCEPT ![e.sequence] =
                       Append(ParentHash(e.sequence), e.header)]
    BY DEF CommitBlock, Executable, InsertBlockWithBundle
  <1> QED
    BY <1>1, <1>2, InsertBlock DEF TypeOK

\* What RevertSubmission does to the block table.
LEMMA RevertSubmissionFacts ==
  ASSUME MaxSequence < 10, TypeOK, BlockInv, RevertSubmission
  PROVE  LET n == LastEvent.sequence
         IN  /\ BlockInv'
             /\ n \in Seqs
             /\ Stored(n)
             /\ \A m \in Seqs : Stored(m) => m <= n
             /\ \A m \in Seqs : Stored(m)' <=> Stored(m) /\ m # n
             /\ \A m \in Seqs : m # n => block'[m] = block[m]
  <1> DEFINE n == LastEvent.sequence
  <1>1. n \in Seqs
    BY LastEventType DEF RevertSubmission, Submissions
  <1>2. IsTip(n) /\ block' = [block EXCEPT ![n] = <<>>]
    BY DEF RevertSubmission, RevertTipBlock
  <1> HIDE DEF n
  <1>3. Stored(n) /\ \A m \in Seqs : Stored(m) => m <= n
    BY <1>1, <1>2, TipIsHighest
  <1>4. /\ BlockInv'
        /\ \A m \in Seqs : Stored(m)' <=> Stored(m) /\ m # n
        /\ \A m \in Seqs : m # n => block'[m] = block[m]
    BY <1>1, <1>2, <1>3, RemoveBlock DEF TypeOK
  <1> QED
    BY <1>1, <1>3, <1>4 DEF n

\* BlockInv is inductive.
LEMMA BlockInvNext ==
  ASSUME MaxSequence < 10
  PROVE  TypeOK /\ BlockInv /\ [Next]_vars => BlockInv'
  <1> SUFFICES ASSUME TypeOK, BlockInv, [Next]_vars
               PROVE  BlockInv'
    OBVIOUS
  <1>1. ASSUME NEW e \in Submissions, NEW body \in Bodies, CommitBlock(e, body)
        PROVE  BlockInv'
    BY <1>1, CommitBlockFacts
  <1>2. CASE RevertSubmission
    BY <1>2, RevertSubmissionFacts
  <1>3. CASE UNCHANGED block
    BY <1>3 DEF BlockInv, BlocksContiguous, HashLinked, Stored
  <1> QED
    BY <1>1, <1>2, <1>3, BlockSteps DEF vars, dbVars

\* The empty block table satisfies it.
LEMMA BlockInvInit == Init => BlockInv
  BY DbConstants
  DEF Init, DbInit, BlockInv, BlocksContiguous, HashLinked, Stored, Seqs

\* In every behaviour with single-digit block numbers the stored blocks are
\* 0, 1, ..., tip without a gap, each hash-linked to the one below it, through
\* every reorg and every failure of the ExEx.
THEOREM BlockTableCorrect ==
  ASSUME MaxSequence < 10
  PROVE  Spec => [](BlocksContiguous /\ HashLinked)
  <1>1. Init => BlockInv
    BY BlockInvInit
  <1>2. TypeOK /\ BlockInv /\ [Next]_vars => BlockInv'
    BY BlockInvNext
  <1>3. BlockInv => BlocksContiguous /\ HashLinked
    BY DEF BlockInv
  <1> QED
    BY <1>1, <1>2, <1>3, TypeCorrect, PTL DEF Spec

\* In particular no number below the tip is missing.
THEOREM ContiguousCorrect ==
  ASSUME MaxSequence < 10
  PROVE  Spec => []BlocksContiguous
  BY BlockTableCorrect, PTL

-----------------------------------------------------------------------------
(***************************************************************************)
(* The processed L1 chain and the tables.                                  *)
(***************************************************************************)

\* Only a submission of this rollup, seen as a submitBlock call, inserts.
InsertedAreOurs ==
  \A i \in DOMAIN applied : applied[i].inserted =>
    /\ IsSubmission(applied[i].event)
    /\ applied[i].event.chain = Ours
    /\ applied[i].event.call = "submitBlock"

\* The steps of the ExEx, by what they do to the processed chain.
LEMMA ChainSteps ==
  ASSUME Next
  PROVE  \/ \E e \in Submissions, body \in Bodies : CommitBlock(e, body)
         \/ \E e \in Events : /\ Record(e, FALSE, Unchanged)
                              /\ UNCHANGED <<block, account_revert,
                                              storage_revert>>
         \/ RevertSubmission
         \/ /\ Reverting /\ DropLast
            /\ IsSubmission(LastEvent) => LastEvent.call # "submitBlock"
            /\ UNCHANGED <<block, account_revert, storage_revert>>
         \/ UNCHANGED <<applied, block, account_revert, storage_revert>>
  <1>1. CASE Notify \/ RevertSubmissionFails \/ RevertDepositFails \/ RevertDone
             \/ NotificationDone
    BY <1>1 DEF Notify, Fail, RevertSubmissionFails, RevertDepositFails,
                RevertDone, NotificationDone, dbVars
  <1>2. CASE RevertIgnored
    BY <1>2 DEF RevertIgnored, dbVars
  <1>3. CASE RevertDeposit
    BY <1>3 DEF RevertDeposit, UpsertAccount, IsDeposit
  <1>4. ASSUME NEW e \in Submissions, CommitUnexecuted(e) \/ CommitFails(e)
        PROVE  \/ /\ Record(e, FALSE, Unchanged)
                  /\ UNCHANGED <<block, account_revert, storage_revert>>
               \/ UNCHANGED <<applied, block, account_revert, storage_revert>>
    BY <1>4 DEF CommitUnexecuted, CommitFails, Fail, dbVars
  <1>5. ASSUME NEW e \in Enters, CommitDeposit(e) \/ CommitIgnoredDeposit(e)
        PROVE  /\ Record(e, FALSE, Unchanged)
               /\ UNCHANGED <<block, account_revert, storage_revert>>
    BY <1>5 DEF CommitDeposit, CommitIgnoredDeposit, UpsertAccount, dbVars
  <1> QED
    BY <1>1, <1>2, <1>3, <1>4, <1>5 DEF Next, Events

\* Appending one entry keeps the others.
LEMMA AppendFacts ==
  ASSUME TypeOK, NEW x \in Entries, applied' = Append(applied, x)
  PROVE  /\ applied'[Len(applied) + 1] = x
         /\ Len(applied) + 1 \in DOMAIN applied'
         /\ \A i \in DOMAIN applied :
              i \in DOMAIN applied' /\ applied'[i] = applied[i]
         /\ \A i \in DOMAIN applied' :
              i \in DOMAIN applied \/ i = Len(applied) + 1
  <1>1. applied \in Seq(Entries)
    BY DEF TypeOK
  <1>2. /\ applied' \in Seq(Entries)
        /\ Len(applied') = Len(applied) + 1
        /\ \A i \in 1..Len(applied) : applied'[i] = applied[i]
        /\ applied'[Len(applied) + 1] = x
    BY <1>1, AppendProperties
  <1>3. /\ Len(applied) \in Nat
        /\ DOMAIN applied = 1..Len(applied)
        /\ DOMAIN applied' = 1..(Len(applied) + 1)
    BY <1>1, <1>2, LenProperties
  <1> QED
    BY <1>2, <1>3

\* The entry of an executed block.
BlockEntry(e, body) ==
  [event |-> e, inserted |-> TRUE, pre |-> Now, post |-> Execute(body)]

\* The entry of any other event.
OtherEntry(e) ==
  [event |-> e, inserted |-> FALSE, pre |-> Now, post |-> Unchanged]

\* What the two kinds of entries are.
LEMMA EntryTypes ==
  ASSUME TypeOK, NEW e \in Events
  PROVE  /\ OtherEntry(e) \in Entries
         /\ \A body \in Bodies : BlockEntry(e, body) \in Entries
         /\ Record(e, FALSE, Unchanged) => applied' = Append(applied, OtherEntry(e))
         /\ \A body \in Bodies : Record(e, TRUE, Execute(body)) =>
              applied' = Append(applied, BlockEntry(e, body))
  <1>1. Now \in RollupState
    BY ViewType DEF TypeOK, DbTypeOK, Now, RollupState
  <1>2. Unchanged \in PostType /\ \A body \in Bodies : Execute(body) \in PostType
    BY UnchangedType, ExecuteType DEF TypeOK
  <1> QED
    BY <1>1, <1>2 DEF Entries, OtherEntry, BlockEntry, Record

\* InsertedAreOurs is inductive.
LEMMA InsertedNext == TypeOK /\ InsertedAreOurs /\ [Next]_vars => InsertedAreOurs'
  <1> SUFFICES ASSUME TypeOK, InsertedAreOurs, [Next]_vars
               PROVE  InsertedAreOurs'
    OBVIOUS
  <1>1. ASSUME NEW e \in Submissions, NEW body \in Bodies, CommitBlock(e, body)
        PROVE  InsertedAreOurs'
    <2>1. e \in Events /\ Record(e, TRUE, Execute(body))
      BY <1>1 DEF CommitBlock, Events
    <2>2. BlockEntry(e, body) \in Entries
          /\ applied' = Append(applied, BlockEntry(e, body))
      BY <2>1, EntryTypes
    <2>3. BlockEntry(e, body).event = e
      BY DEF BlockEntry
    <2>4. IsSubmission(e) /\ e.chain = Ours /\ e.call = "submitBlock"
      BY <1>1 DEF CommitBlock, Executable
    <2> QED
      BY <2>2, <2>3, <2>4, AppendFacts DEF InsertedAreOurs, IsSubmission
  <1>2. ASSUME NEW e \in Events, Record(e, FALSE, Unchanged)
        PROVE  InsertedAreOurs'
    <2>1. OtherEntry(e) \in Entries /\ applied' = Append(applied, OtherEntry(e))
      BY <1>2, EntryTypes
    <2>2. ~OtherEntry(e).inserted
      BY DEF OtherEntry
    <2> QED
      BY <2>1, <2>2, AppendFacts DEF InsertedAreOurs, IsSubmission
  <1>3. ASSUME Reverting, DropLast
        PROVE  InsertedAreOurs'
    <2>1. \A i \in DOMAIN applied' : i \in DOMAIN applied /\ applied'[i] = applied[i]
      BY <1>3, DropLastType DEF TypeOK
    <2> QED
      BY <2>1 DEF InsertedAreOurs, IsSubmission
  <1>4. CASE UNCHANGED applied
    BY <1>4 DEF InsertedAreOurs, IsSubmission
  <1> QED
    BY <1>1, <1>2, <1>3, <1>4, ChainSteps DEF RevertSubmission, vars

\* StoredBlocksAreCanonical is inductive relative to the other invariants.
LEMMA CanonicalNext ==
  ASSUME MaxSequence < 10
  PROVE  /\ TypeOK /\ BlockInv /\ InsertedAreOurs /\ StoredBlocksAreCanonical
         /\ [Next]_vars
         => StoredBlocksAreCanonical'
  <1> SUFFICES ASSUME TypeOK, BlockInv, InsertedAreOurs,
                      StoredBlocksAreCanonical, [Next]_vars
               PROVE  StoredBlocksAreCanonical'
    OBVIOUS
  <1>1. ASSUME NEW e \in Submissions, NEW body \in Bodies, CommitBlock(e, body)
        PROVE  StoredBlocksAreCanonical'
    <2>1. e \in Events /\ Record(e, TRUE, Execute(body)) /\ e.chain = Ours
      BY <1>1 DEF CommitBlock, Executable, Events
    <2>2. BlockEntry(e, body) \in Entries
          /\ applied' = Append(applied, BlockEntry(e, body))
      BY <2>1, EntryTypes
    <2>3. BlockEntry(e, body).event = e /\ BlockEntry(e, body).inserted
      BY DEF BlockEntry
    <2>4. /\ e.sequence \in Seqs
          /\ block' = [block EXCEPT ![e.sequence] =
                         Append(ParentHash(e.sequence), e.header)]
          /\ block'[e.sequence][e.sequence + 1] = e.header
          /\ \A m \in Seqs : Stored(m)' <=> Stored(m) \/ m = e.sequence
      BY <1>1, CommitBlockFacts
    <2>5. \A m \in Seqs : m # e.sequence => block'[m] = block[m]
      BY <2>4 DEF TypeOK, DbTypeOK
    <2> SUFFICES ASSUME NEW n \in Seqs, Stored(n)'
                 PROVE  \E i \in DOMAIN applied' : Submitted(i, n)'
      BY DEF StoredBlocksAreCanonical
    <2>6. CASE n = e.sequence
      <3>1. PICK last \in DOMAIN applied' : applied'[last] = BlockEntry(e, body)
        BY <2>2, AppendFacts
      <3>2. Submitted(last, n)'
        BY <2>1, <2>3, <2>4, <2>6, <3>1 DEF Submitted
      <3> QED
        BY <3>2
    <2>7. CASE n # e.sequence
      <3>1. PICK i \in DOMAIN applied : Submitted(i, n)
        BY <2>4, <2>7 DEF StoredBlocksAreCanonical
      <3>2. i \in DOMAIN applied' /\ applied'[i] = applied[i]
        BY <2>2, AppendFacts
      <3> QED
        BY <2>5, <2>7, <3>1, <3>2 DEF Submitted
    <2> QED
      BY <2>6, <2>7
  <1>2. ASSUME NEW e \in Events, Record(e, FALSE, Unchanged), UNCHANGED block
        PROVE  StoredBlocksAreCanonical'
    <2>1. OtherEntry(e) \in Entries /\ applied' = Append(applied, OtherEntry(e))
      BY <1>2, EntryTypes
    <2>2. \A i \in DOMAIN applied : i \in DOMAIN applied' /\ applied'[i] = applied[i]
      BY <2>1, AppendFacts
    <2> QED
      BY <1>2, <2>2 DEF StoredBlocksAreCanonical, Submitted, Stored
  <1>3. CASE RevertSubmission
    <2> DEFINE n == LastEvent.sequence
    <2>1. /\ n \in Seqs
          /\ \A m \in Seqs : Stored(m)' <=> Stored(m) /\ m # n
          /\ \A m \in Seqs : m # n => block'[m] = block[m]
      BY <1>3, RevertSubmissionFacts
    <2>2. \A i \in DOMAIN applied : i # Len(applied) =>
            i \in DOMAIN applied' /\ applied'[i] = applied[i]
      BY <1>3, DropLastType, LastEventType DEF RevertSubmission, TypeOK
    <2> SUFFICES ASSUME NEW m \in Seqs, Stored(m)'
                 PROVE  \E i \in DOMAIN applied' : Submitted(i, m)'
      BY DEF StoredBlocksAreCanonical
    <2>3. PICK i \in DOMAIN applied : Submitted(i, m)
      BY <2>1 DEF StoredBlocksAreCanonical
    <2>4. i # Len(applied)
      BY <2>1, <2>3 DEF Submitted, LastEvent
    <2> QED
      BY <2>1, <2>2, <2>3, <2>4 DEF Submitted
  <1>4. ASSUME Reverting, DropLast, UNCHANGED block,
               IsSubmission(LastEvent) => LastEvent.call # "submitBlock"
        PROVE  StoredBlocksAreCanonical'
    <2>1. \A i \in DOMAIN applied : i # Len(applied) =>
            i \in DOMAIN applied' /\ applied'[i] = applied[i]
      BY <1>4, DropLastType, LastEventType DEF TypeOK
    <2>2. ~applied[Len(applied)].inserted
      BY <1>4, LastEventType DEF InsertedAreOurs, LastEvent
    <2> QED
      BY <1>4, <2>1, <2>2 DEF StoredBlocksAreCanonical, Submitted, Stored
  <1>5. CASE UNCHANGED <<applied, block>>
    BY <1>5 DEF StoredBlocksAreCanonical, Submitted, Stored
  <1> QED
    BY <1>1, <1>2, <1>3, <1>4, <1>5, ChainSteps DEF vars, dbVars

\* With single-digit block numbers no reorg ever leaves a block behind: each
\* stored block comes, with its header, from a submission for this rollup that
\* is on the L1 chain as the ExEx has processed it.
THEOREM CanonicalBlocks ==
  ASSUME MaxSequence < 10
  PROVE  Spec => []StoredBlocksAreCanonical
  <1> DEFINE Inv == BlockInv /\ InsertedAreOurs /\ StoredBlocksAreCanonical
  <1>1. Init => Inv
    BY BlockInvInit
    DEF Init, DbInit, InsertedAreOurs, StoredBlocksAreCanonical, Stored
  <1>2. TypeOK /\ Inv /\ [Next]_vars => Inv'
    BY BlockInvNext, InsertedNext, CanonicalNext
  <1>3. Inv => StoredBlocksAreCanonical
    OBVIOUS
  <1> HIDE DEF Inv
  <1> QED
    BY <1>1, <1>2, <1>3, TypeCorrect, PTL DEF Spec

-----------------------------------------------------------------------------
(***************************************************************************)
(* Undoing a block.  No bound on the block numbers is needed here: a       *)
(* re-submitted number overwrites the rows of what it changes, and no      *)
(* other block ever writes them.                                           *)
(***************************************************************************)

\* The rows an insertion writes for what the block changes.
LEMMA InsertWritesRows ==
  ASSUME TypeOK, NEW e \in Submissions, NEW body \in Bodies,
         CommitBlock(e, body), NEW x, x = BlockEntry(e, body)
  PROVE  RowsExact(x)'
  <1> DEFINE n    == e.sequence
             post == Execute(body)
  <1>1. n \in Seqs /\ InsertBlockWithBundle(n, e.header, post)
    BY DEF Submissions, CommitBlock
  <1>2. /\ x.event = e /\ x.post = post
        /\ x.pre.account = account /\ x.pre.slot = View(storage)
    BY DEF BlockEntry, Now
  <1> HIDE DEF n, post
  <1>3. ASSUME NEW a \in Addresses, post.account[a] # account[a]
        PROVE  account_revert'[<<n, a>>] = account[a]
    BY <1>1, <1>3
    DEF InsertBlockWithBundle, AccountRevertsAfterInsert, ChangedAccounts
  <1>4. ASSUME NEW s \in Slots, s[1] \notin post.wiped,
               post.slot[s] # View(storage)[s]
        PROVE  storage_revert'[<<n, s>>] = View(storage)[s]
    <2>1. HasStorageRevert(post, s)
      BY <1>4 DEF HasStorageRevert, ChangedSlots
    <2>2. StorageRevertRow(post, s) = View(storage)[s]
      BY <1>4 DEF StorageRevertRow, BundleRevert
    <2> QED
      BY <1>1, <2>1, <2>2 DEF InsertBlockWithBundle
  <1> QED
    BY <1>2, <1>3, <1>4 DEF RowsExact, Touched, Changed, n

\* RevertRowsAreExact is inductive relative to the other invariants.
LEMMA RowsNext ==
  TypeOK /\ InsertedAreOurs /\ RevertRowsAreExact /\ [Next]_vars
    => RevertRowsAreExact'
  <1> SUFFICES ASSUME TypeOK, InsertedAreOurs, RevertRowsAreExact, [Next]_vars
               PROVE  RevertRowsAreExact'
    OBVIOUS
  <1>1. ASSUME NEW e \in Submissions, NEW body \in Bodies, CommitBlock(e, body)
        PROVE  RevertRowsAreExact'
    <2>1. e \in Events /\ e.sequence \in Seqs
          /\ Record(e, TRUE, Execute(body)) /\ e.chain = Ours
      BY <1>1 DEF CommitBlock, Executable, Events, Submissions
    <2>2. PICK x \in Entries : x = BlockEntry(e, body)
                             /\ applied' = Append(applied, x)
      BY <2>1, EntryTypes
    <2>3. RowsExact(x)'
      BY <1>1, <2>2, InsertWritesRows
    <2> SUFFICES ASSUME NEW i \in DOMAIN applied', applied'[i].inserted,
                        Stored(applied[i].event.sequence)'
                 PROVE  RowsExact(applied[i])'
      BY DEF RevertRowsAreExact
    <2>4. CASE i = Len(applied) + 1
      <3>1. applied'[i] = x
        BY <2>2, <2>4, AppendFacts
      <3> QED
        BY <2>3, <3>1 DEF RowsExact, Touched, Changed
    <2>5. CASE i # Len(applied) + 1
      <3>1. i \in DOMAIN applied /\ applied'[i] = applied[i]
        BY <2>2, <2>5, AppendFacts
      <3>2. /\ applied[i] \in Entries
            /\ IsSubmission(applied[i].event)
            /\ applied[i].event.chain = Ours
        BY <3>1 DEF TypeOK, InsertedAreOurs
      <3>3. applied[i].event \in Submissions
        BY <3>2 DEF Entries, Events, IsSubmission, Enters
      <3>4. /\ applied[i].event.sequence \in SubmittedOn(Ours)
            /\ applied[i].event.sequence \in Seqs
        BY <3>1, <3>2, <3>3 DEF SubmittedOn, Submissions
      <3>5. applied[i].event.sequence < e.sequence
        BY <1>1, <2>1, <3>4 DEF CommitBlock, Committing, IsNextSequence
      <3>6. applied[i].event.sequence # e.sequence
        BY <2>1, <3>4, <3>5, DbConstants DEF Seqs
      <3> DEFINE m == applied[i].event.sequence
      <3>7. block'[m] = block[m]
        BY <1>1, <3>4, <3>6
        DEF CommitBlock, InsertBlockWithBundle, TypeOK, DbTypeOK
      <3>8. \A a \in Addresses : account_revert'[<<m, a>>] = account_revert[<<m, a>>]
        BY <1>1, <3>4, <3>6
        DEF CommitBlock, InsertBlockWithBundle, AccountRevertsAfterInsert
      <3>9. \A s \in Slots : storage_revert'[<<m, s>>] = storage_revert[<<m, s>>]
        BY <1>1, <3>4, <3>6 DEF CommitBlock, InsertBlockWithBundle
      <3>10. RowsExact(applied[i])
        BY <3>1, <3>7 DEF RevertRowsAreExact, Stored
      <3> QED
        BY <3>1, <3>8, <3>9, <3>10 DEF RowsExact, Touched, Changed
    <2> QED
      BY <2>4, <2>5
  <1>2. ASSUME NEW e \in Events, Record(e, FALSE, Unchanged),
               UNCHANGED <<block, account_revert, storage_revert>>
        PROVE  RevertRowsAreExact'
    <2>1. OtherEntry(e) \in Entries /\ applied' = Append(applied, OtherEntry(e))
      BY <1>2, EntryTypes
    <2>2. ~OtherEntry(e).inserted
      BY DEF OtherEntry
    <2>3. \A i \in DOMAIN applied' : applied'[i].inserted =>
            i \in DOMAIN applied /\ applied'[i] = applied[i]
      BY <2>1, <2>2, AppendFacts
    <2> QED
      BY <1>2, <2>3 DEF RevertRowsAreExact, RowsExact, Touched, Changed, Stored
  <1>3. ASSUME Reverting, DropLast,
               UNCHANGED <<account_revert, storage_revert>>,
               \A n \in Seqs : Stored(n)' => Stored(n)
        PROVE  RevertRowsAreExact'
    <2>1. \A i \in DOMAIN applied' : i \in DOMAIN applied /\ applied'[i] = applied[i]
      BY <1>3, DropLastType DEF TypeOK
    <2>2. \A i \in DOMAIN applied : applied[i].inserted =>
            applied[i].event.sequence \in Seqs
      <3> SUFFICES ASSUME NEW i \in DOMAIN applied, applied[i].inserted
                   PROVE  applied[i].event.sequence \in Seqs
        OBVIOUS
      <3>1. applied[i] \in Entries /\ IsSubmission(applied[i].event)
        BY DEF TypeOK, InsertedAreOurs
      <3>2. applied[i].event \in Submissions
        BY <3>1 DEF Entries, Events, IsSubmission, Enters
      <3> QED
        BY <3>2 DEF Submissions
    <2> QED
      BY <1>3, <2>1, <2>2 DEF RevertRowsAreExact, RowsExact, Touched, Changed
  <1>4. CASE UNCHANGED <<applied, block, account_revert, storage_revert>>
    BY <1>4 DEF RevertRowsAreExact, RowsExact, Touched, Changed, Stored
  <1>5. CASE RevertSubmission
    <2>1. \A n \in Seqs : Stored(n)' => Stored(n)
      BY <1>5 DEF RevertSubmission, RevertTipBlock, Stored, TypeOK, DbTypeOK
    <2> QED
      BY <1>3, <1>5, <2>1 DEF RevertSubmission, RevertTipBlock
  <1>6. ASSUME Reverting, DropLast,
               UNCHANGED <<block, account_revert, storage_revert>>
        PROVE  RevertRowsAreExact'
    BY <1>3, <1>6 DEF Stored
  <1> QED
    BY <1>1, <1>2, <1>4, <1>5, <1>6, ChainSteps DEF vars, dbVars

\* A step that takes a block off restores what the block had changed.
LEMMA UndoStep ==
  ASSUME TypeOK, InsertedAreOurs, RevertRowsAreExact, Next, BlockReverted
  PROVE  LET entry == applied[Len(applied)]
         IN  /\ \A a \in Touched(entry) : account'[a] = entry.pre.account[a]
             /\ \A s \in Changed(entry) : View(storage')[s] = entry.pre.slot[s]
  <1> DEFINE entry == applied[Len(applied)]
             n     == entry.event.sequence
  <1>1. Len(applied') < Len(applied) /\ entry.inserted
    BY DEF BlockReverted
  <1>2. Len(applied) \in Nat /\ applied \in Seq(Entries)
    BY DEF TypeOK
  <1>3. ASSUME NEW e \in Events, Record(e, FALSE, Unchanged)
        PROVE  FALSE
    <2>1. OtherEntry(e) \in Entries /\ applied' = Append(applied, OtherEntry(e))
      BY <1>3, EntryTypes
    <2> QED
      BY <1>1, <1>2, <2>1, AppendProperties
  <1>4. ASSUME NEW e \in Submissions, NEW body \in Bodies, CommitBlock(e, body)
        PROVE  FALSE
    <2>1. e \in Events /\ Record(e, TRUE, Execute(body))
      BY <1>4 DEF CommitBlock, Events
    <2>2. PICK x \in Entries : applied' = Append(applied, x)
      BY <2>1, EntryTypes
    <2> QED
      BY <1>1, <1>2, <2>2, AppendProperties
  <1>5. applied' # applied
    BY <1>1, <1>2
  <1>6. ASSUME Reverting, IsSubmission(LastEvent) => LastEvent.call # "submitBlock"
        PROVE  FALSE
    BY <1>1, <1>6, LastEventType DEF InsertedAreOurs, LastEvent
  <1>7. RevertSubmission
    BY <1>3, <1>4, <1>5, <1>6, ChainSteps
  <1>8. /\ n \in Seqs /\ Stored(n) /\ RevertTipBlock(n) /\ entry \in Entries
        /\ Len(applied) \in DOMAIN applied
    BY <1>7, LastEventType
    DEF RevertSubmission, LastEvent, Submissions, IsTip
  <1>9. RowsExact(entry)
    BY <1>1, <1>8 DEF RevertRowsAreExact
  <1>10. entry.pre.account \in AccountTable /\ entry.pre.slot \in StorageView
    BY <1>8 DEF Entries, RollupState
  <1> HIDE DEF entry, n
  <1>11. ASSUME NEW a \in Touched(entry)
         PROVE  account'[a] = entry.pre.account[a]
    <2>1. a \in Addresses /\ account_revert[<<n, a>>] = entry.pre.account[a]
      BY <1>9 DEF RowsExact, Touched, n
    <2>2. account_revert[<<n, a>>] # NoRow
      BY <1>10, <2>1, DbConstants DEF AccountTable
    <2> QED
      BY <1>8, <2>1, <2>2 DEF RevertTipBlock, AccountsBefore
  <1>12. ASSUME NEW s \in Changed(entry)
         PROVE  View(storage')[s] = entry.pre.slot[s]
    <2>1. s \in Slots /\ storage_revert[<<n, s>>] = entry.pre.slot[s]
      BY <1>9 DEF RowsExact, Changed, n
    <2>2. entry.pre.slot[s] \in Values
      BY <1>10, <2>1 DEF StorageView
    <2>3. storage'[s] = RevertedSlot(entry.pre.slot[s])
      BY <1>8, <2>1, <2>2, DbConstants DEF RevertTipBlock, StorageBefore
    <2> QED
      BY <2>1, <2>2, <2>3, DbConstants DEF RevertedSlot, View
  <1> QED
    BY <1>11, <1>12 DEF entry

\* The rows that a revert would apply are exact for every stored block.
THEOREM RowsCorrect == Spec => []RevertRowsAreExact
  <1> DEFINE Inv == InsertedAreOurs /\ RevertRowsAreExact
  <1>1. Init => Inv
    BY DEF Init, InsertedAreOurs, RevertRowsAreExact
  <1>2. TypeOK /\ Inv /\ [Next]_vars => Inv'
    BY InsertedNext, RowsNext
  <1>3. Inv => RevertRowsAreExact
    OBVIOUS
  <1> HIDE DEF Inv
  <1> QED
    BY <1>1, <1>2, <1>3, TypeCorrect, PTL DEF Spec

\* Undo works: reverting a block gives every account and every slot that it
\* changed (wiped storage apart) the value from before it, however many blocks
\* and re-submissions of its number came before.
THEOREM UndoCorrect == Spec => RevertUndoesBlock
  <1> DEFINE Inv == InsertedAreOurs /\ RevertRowsAreExact
  <1>1. Init => Inv
    BY DEF Init, InsertedAreOurs, RevertRowsAreExact
  <1>2. TypeOK /\ Inv /\ [Next]_vars => Inv'
    BY InsertedNext, RowsNext
  <1>3. TypeOK /\ Inv /\ [Next]_vars =>
          [BlockReverted =>
             LET entry == applied[Len(applied)]
             IN  /\ \A a \in Touched(entry) : account'[a] = entry.pre.account[a]
                 /\ \A s \in Changed(entry) :
                      View(storage')[s] = entry.pre.slot[s]]_vars
    BY UndoStep
  <1> HIDE DEF Inv
  <1> QED
    BY <1>1, <1>2, <1>3, TypeCorrect, PTL DEF Spec, RevertUndoesBlock

-----------------------------------------------------------------------------
(***************************************************************************)
(* The block table implements RollupChain.                                 *)
(***************************************************************************)

\* The chain of a table ends in its highest block, if it has one.
LEMMA ChainOfHighest ==
  ASSUME NEW table, NEW n \in Seqs, table[n] # <<>>,
         \A m \in Seqs : table[m] # <<>> => m <= n
  PROVE  ChainOf(table) = table[n]
  <1> DEFINE numbers == {k \in Seqs : table[k] # <<>>}
  <1>1. n \in numbers /\ \A m \in numbers : m <= n /\ m \in Int
    BY DbConstants DEF Seqs
  <1>2. \A k \in numbers : (\A m \in numbers : m <= k) => k = n
    BY <1>1
  <1>3. (CHOOSE k \in numbers : \A m \in numbers : m <= k) = n
    BY <1>1, <1>2
  <1> QED
    BY <1>1, <1>3 DEF ChainOf

\* The chain of an empty table is empty.
LEMMA ChainOfEmpty ==
  ASSUME NEW table, \A m \in Seqs : table[m] = <<>>
  PROVE  ChainOf(table) = <<>>
  BY DEF ChainOf

\* Inserting a block extends the chain, reverting one retracts it, and every
\* other step leaves it alone.
LEMMA TipStep ==
  ASSUME MaxSequence < 10, TypeOK, BlockInv, [Next]_vars
  PROVE  [Tip!ChainNext]_TipChain
  <1>1. ASSUME NEW e \in Submissions, NEW body \in Bodies, CommitBlock(e, body)
        PROVE  Tip!Extend
    <2> DEFINE n == e.sequence
    <2>1. /\ n \in Seqs /\ ~Stored(n) /\ (n # 0 => Stored(n - 1))
          /\ e.header \in Headers
          /\ block' = [block EXCEPT ![n] = Append(ParentHash(n), e.header)]
          /\ \A m \in Seqs : Stored(m)' <=> Stored(m) \/ m = n
          /\ \A m \in Seqs : Stored(m)' => m <= n
      BY <1>1, CommitBlockFacts
    <2> HIDE DEF n
    <2>2. n \in Nat /\ (n # 0 => n - 1 \in Seqs) /\ \A m \in Seqs : m \in Nat
      BY <2>1, DbConstants DEF Seqs
    <2>3. \A m \in Seqs : Stored(m) => m <= n - 1
      BY <2>1, <2>2
    <2>4. TipChain = ParentHash(n)
      <3>1. CASE n = 0
        <4>1. \A m \in Seqs : block[m] = <<>>
          BY <2>2, <2>3, <3>1 DEF Stored
        <4> QED
          BY <3>1, <4>1, ChainOfEmpty DEF TipChain, ParentHash
      <3>2. CASE n # 0
        BY <2>1, <2>2, <2>3, <3>2, ChainOfHighest DEF TipChain, ParentHash, Stored
      <3> QED
        BY <3>1, <3>2
    <2>5. TipChain' = block'[n]
      BY <2>1, ChainOfHighest DEF TipChain, Stored
    <2>6. block'[n] = Append(ParentHash(n), e.header)
      BY <2>1 DEF TypeOK, DbTypeOK
    <2> QED
      BY <2>1, <2>4, <2>5, <2>6 DEF Tip!Extend
  <1>2. ASSUME RevertSubmission
        PROVE  Tip!Retract
    <2> DEFINE n == LastEvent.sequence
    <2>1. /\ n \in Seqs /\ Stored(n)
          /\ \A m \in Seqs : Stored(m) => m <= n
          /\ \A m \in Seqs : Stored(m)' <=> Stored(m) /\ m # n
          /\ \A m \in Seqs : m # n => block'[m] = block[m]
      BY <1>2, RevertSubmissionFacts
    <2> HIDE DEF n
    <2>2. n \in Nat /\ (n # 0 => n - 1 \in Seqs) /\ \A m \in Seqs : m \in Nat
      BY <2>1, DbConstants DEF Seqs
    <2>3. TipChain = block[n]
      BY <2>1, ChainOfHighest DEF TipChain, Stored
    <2>4. Len(block[n]) = n + 1 /\ block[n] # <<>>
      BY <2>1 DEF BlockInv, HashLinked, Stored
    <2>5. \A m \in Seqs : Stored(m)' => m <= n - 1
      BY <2>1, <2>2
    <2>6. CASE n = 0
      <3>1. \A m \in Seqs : block'[m] = <<>>
        BY <2>2, <2>5, <2>6 DEF Stored
      <3>2. TipChain' = <<>>
        BY <3>1, ChainOfEmpty DEF TipChain
      <3>3. SubSeq(block[n], 1, Len(block[n]) - 1) = <<>>
        BY <2>4, <2>6, SubSeqEmpty
      <3> QED
        BY <2>3, <2>4, <3>2, <3>3 DEF Tip!Retract
    <2>7. CASE n # 0
      <3>1. n - 1 \in Seqs /\ n - 1 # n /\ Stored(n - 1)
        BY <2>1, <2>2, <2>7 DEF BlockInv, BlocksContiguous
      <3>2. TipChain' = block'[n - 1]
        BY <2>1, <2>5, <3>1, ChainOfHighest DEF TipChain, Stored
      <3>3. block'[n - 1] = SubSeq(block[n], 1, n)
        BY <2>1, <2>2, <2>7, <3>1 DEF BlockInv, HashLinked
      <3>4. Len(block[n]) - 1 = n
        BY <2>2, <2>4
      <3> QED
        BY <2>3, <2>4, <3>2, <3>3, <3>4 DEF Tip!Retract
    <2> QED
      BY <2>6, <2>7
  <1>3. CASE UNCHANGED block
    BY <1>3 DEF TipChain
  <1> QED
    BY <1>1, <1>2, <1>3, BlockSteps DEF Tip!ChainNext, vars, dbVars

\* With single-digit block numbers the ExEx implements RollupChain: through
\* reorgs and failures its chain grows and shrinks at the end only, one block
\* at a time.
THEOREM TipRefinement ==
  ASSUME MaxSequence < 10
  PROVE  Spec => TipSpec
  <1>1. Init => BlockInv
    BY BlockInvInit
  <1>2. TypeOK /\ BlockInv /\ [Next]_vars => BlockInv'
    BY BlockInvNext
  <1>3. TypeOK /\ BlockInv /\ [Next]_vars => [Tip!ChainNext]_TipChain
    BY TipStep
  <1>4. Init => Tip!ChainInit
    BY ChainOfEmpty DEF Init, DbInit, TipChain, Tip!ChainInit
  <1> QED
    BY <1>1, <1>2, <1>3, <1>4, TypeCorrect, PTL DEF Spec, TipSpec, Tip!ChainSpec
=============================================================================
