-------------------------- MODULE RollupStateProofs --------------------------
(***************************************************************************)
(* More about the rollup ExEx, for every value of its constants: what it   *)
(* keeps of the blocks it executed, of the codes and of the deposits.      *)
(***************************************************************************)
EXTENDS RollupProofs, InductionFacts

-----------------------------------------------------------------------------
(***************************************************************************)
(* Codes.                                                                  *)
(***************************************************************************)

\* The codes that code_by_hash finds.
Known == bytecode \cup {NoCode}

\* The code of every account is known, and so is that of every account that a
\* revert may bring back: the bytecode table is never cleaned up.
CodeInv ==
  /\ CodeAvailable
  /\ \A r \in Seqs \X Addresses :
       account_revert[r] # NoRow => Code(account_revert[r]) \in Known

\* No code is needed of an account that does not exist.
LEMMA InitCode == Init => CodeInv
  BY DbConstants DEF Init, DbInit, CodeInv, CodeAvailable, Known, Code

\* A block inserts the code of each account whose code it changes.
LEMMA InsertCode ==
  ASSUME DbTypeOK, CodeInv, NEW n \in Seqs, NEW h \in Headers, NEW post \in PostType,
         InsertBlockWithBundle(n, h, post)
  PROVE  CodeInv'
  <1>1. Known' = Known \cup NewContracts(post)
    BY DEF InsertBlockWithBundle, Known
  <1>2. account' = post.account
    BY DEF InsertBlockWithBundle
  <1>3. ASSUME NEW a \in Addresses
        PROVE  Code(account'[a]) \in Known'
    <2>1. Code(account[a]) \in Known
      BY DEF CodeInv, CodeAvailable, Known
    <2>2. CASE post.account[a] = account[a]
      BY <2>1, <2>2, <1>1, <1>2
    <2>3. CASE Code(post.account[a]) \in {NoCode, Code(account[a])}
      BY <2>1, <2>3, <1>1, <1>2 DEF Known
    <2>4. CASE post.account[a] # account[a] /\ Code(post.account[a]) \notin {NoCode, Code(account[a])}
      <3>1. Code(post.account[a]) \in NewContracts(post)
        BY <2>4 DEF NewContracts, ChangedAccounts
      <3> QED
        BY <3>1, <1>1, <1>2
    <2> QED
      BY <2>2, <2>3, <2>4
  <1>4. ASSUME NEW r \in Seqs \X Addresses, account_revert'[r] # NoRow
        PROVE  Code(account_revert'[r]) \in Known'
    <2>1. r[2] \in Addresses
      OBVIOUS
    <2>2. account_revert'[r] \in {account_revert[r], account[r[2]]}
      BY DEF InsertBlockWithBundle, AccountRevertsAfterInsert
    <2>3. Code(account[r[2]]) \in Known
      BY <2>1 DEF CodeInv, CodeAvailable, Known
    <2>4. account_revert[r] # NoRow => Code(account_revert[r]) \in Known
      BY DEF CodeInv
    <2> QED
      BY <2>2, <2>3, <2>4, <1>4, <1>1
  <1> QED
    BY <1>3, <1>4 DEF CodeInv, CodeAvailable, Known

\* CodeInv is inductive.
LEMMA NextCode == TypeOK /\ CodeInv /\ [Next]_vars => CodeInv'
  <1> SUFFICES ASSUME TypeOK, CodeInv, [Next]_vars
               PROVE  CodeInv'
    OBVIOUS
  <1>1. CASE UNCHANGED <<account, account_revert, bytecode>>
    BY <1>1 DEF CodeInv, CodeAvailable, Known
  <1>2. ASSUME NEW e \in Submissions, NEW body \in Bodies, CommitBlock(e, body)
        PROVE  CodeInv'
    <2>1. /\ e.sequence \in Seqs /\ e.header \in Headers
          /\ InsertBlockWithBundle(e.sequence, e.header, Execute(body))
      BY <1>2 DEF CommitBlock, Submissions
    <2>2. DbTypeOK /\ Execute(body) \in PostType
      BY ExecuteType DEF TypeOK
    <2> QED
      BY <2>1, <2>2, InsertCode
  <1>3. CASE RevertSubmission
    <2>1. LastEvent.sequence \in Seqs /\ RevertTipBlock(LastEvent.sequence)
      BY <1>3, LastEventType DEF RevertSubmission, Submissions
    <2>2. PICK n \in Seqs : RevertTipBlock(n)
      BY <2>1
    <2>3. UNCHANGED <<account_revert, bytecode>> /\ account' = AccountsBefore(n)
      BY <2>2 DEF RevertTipBlock
    <2>4. ASSUME NEW a \in Addresses
          PROVE  Code(AccountsBefore(n)[a]) \in Known
      BY DEF AccountsBefore, CodeInv, CodeAvailable, Known
    <2> QED
      BY <2>3, <2>4 DEF CodeInv, CodeAvailable, Known
  <1>4. ASSUME NEW a \in Addresses, NEW info, Code(info) = Code(account[a]), UpsertAccount(a, info)
        PROVE  CodeInv'
    <2>1. \A b \in Addresses : Code(account'[b]) = Code(account[b])
      BY <1>4 DEF UpsertAccount, TypeOK, DbTypeOK, AccountTable
    <2> QED
      BY <2>1, <1>4 DEF UpsertAccount, CodeInv, CodeAvailable, Known
  <1>5. CASE RevertDeposit
    <2> DEFINE a == LastEvent.recipient
               info == Withdrawn(account[a], LastEvent.amount)
    <2>1. a \in Addresses /\ LastEvent.amount \in Amounts
      BY <1>5, LastEventType DEF RevertDeposit, IsDeposit, Enters
    <2>2. account[a] # None /\ UpsertAccount(a, info)
      BY <1>5 DEF RevertDeposit
    <2>3. account[a] \in Info
      BY <2>1, <2>2 DEF TypeOK, DbTypeOK, AccountTable
    <2>4. info \in Info
      BY <2>1, <2>3, <2>2, DepositTypes
    <2>5. info.code = account[a].code
      BY <2>3 DEF Withdrawn, Info
    <2>6. Code(info) = Code(account[a])
      BY <2>3, <2>4, <2>5, DbConstants DEF Code
    <2> QED
      BY <2>1, <2>2, <2>6, <1>4
  <1>6. ASSUME NEW e \in Enters, CommitDeposit(e)
        PROVE  CodeInv'
    <2> DEFINE a == e.recipient
               info == Deposited(account[a], e.amount)
    <2>1. a \in Addresses /\ e.amount \in Amounts /\ UpsertAccount(a, info)
      BY <1>6 DEF CommitDeposit, Enters
    <2>2. account[a] \in Info \cup {None}
      BY <2>1 DEF TypeOK, DbTypeOK, AccountTable
    <2>3. info \in Info /\ info.code = Code(account[a])
      BY <2>1, <2>2, DepositTypes DEF Deposited
    <2>4. Code(info) = Code(account[a])
      BY <2>3, DbConstants DEF Code
    <2> QED
      BY <2>1, <2>4, <1>4
  <1>7. CASE UNCHANGED dbVars
    BY <1>1, <1>7 DEF dbVars
  <1> QED
    BY <1>1, <1>2, <1>3, <1>5, <1>6, <1>7 DEF Next, Notify, Fail, RevertIgnored,
       RevertSubmissionFails, RevertDepositFails, RevertDone, CommitUnexecuted, CommitFails,
       CommitIgnoredDeposit, NotificationDone, vars

\* No account, reverted or not, ever has a code that the bytecode table does
\* not hold, so that code_by_hash never runs a contract as an empty account.
THEOREM CodeCorrect == Spec => []CodeAvailable
  <1>1. CodeInv => CodeAvailable
    BY DEF CodeInv
  <1> QED
    BY <1>1, InitCode, NextCode, TypeCorrect, PTL DEF Spec
-----------------------------------------------------------------------------
(***************************************************************************)
(* Executed blocks.  The numbers that the contract gives to the            *)
(* submissions of one rollup grow along the L1 chain, so no two of them    *)
(* are of the same block.  No bound on the numbers is needed.              *)
(***************************************************************************)

\* A stored block has as many headers behind it as its number says.
LengthInv == \A n \in Seqs : Stored(n) => Len(block[n]) = n + 1

IsOurs(e) == IsSubmission(e) /\ e.chain = Ours

OurNumbersGrow ==
  \A i, j \in DOMAIN applied :
    i < j /\ IsOurs(applied[i].event) /\ IsOurs(applied[j].event)
      => applied[i].event.sequence < applied[j].event.sequence

\* The block that a submission adds, on top of its parent.
LEMMA NewBlock ==
  ASSUME TypeOK, LengthInv, NEW e \in Submissions, NEW body \in Bodies, CommitBlock(e, body)
  PROVE  /\ e.sequence \in Seqs
         /\ ~Stored(e.sequence)
         /\ Len(block'[e.sequence]) = e.sequence + 1
         /\ block'[e.sequence] # <<>>
         /\ block'[e.sequence][e.sequence + 1] = e.header
         /\ \A m \in Seqs : m # e.sequence => block'[m] = block[m]
  <1> DEFINE n == e.sequence
  <1>1. /\ n \in Seqs /\ n \in Nat /\ e.header \in Headers /\ (n # 0 => n - 1 \in Seqs)
    BY DbConstants DEF Submissions, Seqs
  <1>2. /\ ~Stored(n) /\ (n # 0 => Stored(n - 1))
        /\ block' = [block EXCEPT ![n] = Append(ParentHash(n), e.header)]
    BY DEF CommitBlock, Executable, InsertBlockWithBundle
  <1>3. block \in [Seqs -> Seq(Headers)]
    BY DEF TypeOK, DbTypeOK
  <1> HIDE DEF n
  <1>4. ParentHash(n) \in Seq(Headers) /\ Len(ParentHash(n)) = n
    <2>1. CASE n = 0
      BY <2>1 DEF ParentHash
    <2>2. CASE n # 0
      <3>1. Len(block[n - 1]) = (n - 1) + 1
        BY <1>1, <1>2, <2>2 DEF LengthInv
      <3> QED
        BY <1>1, <1>3, <2>2, <3>1 DEF ParentHash
    <2> QED
      BY <2>1, <2>2
  <1>5. block'[n] = Append(ParentHash(n), e.header) /\ \A m \in Seqs : m # n => block'[m] = block[m]
    BY <1>1, <1>2, <1>3
  <1>6. /\ Len(block'[n]) = n + 1
        /\ block'[n][n + 1] = e.header
        /\ block'[n] # <<>>
    BY <1>1, <1>4, <1>5, AppendProperties
  <1> QED
    BY <1>1, <1>2, <1>5, <1>6 DEF n

\* LengthInv is inductive.
LEMMA NextLength == TypeOK /\ LengthInv /\ [Next]_vars => LengthInv'
  <1> SUFFICES ASSUME TypeOK, LengthInv, [Next]_vars
               PROVE  LengthInv'
    OBVIOUS
  <1>1. ASSUME NEW e \in Submissions, NEW body \in Bodies, CommitBlock(e, body)
        PROVE  LengthInv'
    BY <1>1, NewBlock DEF LengthInv, Stored
  <1>2. CASE RevertSubmission
    <2>1. \A n \in Seqs : block'[n] = <<>> \/ block'[n] = block[n]
      BY <1>2 DEF RevertSubmission, RevertTipBlock, TypeOK, DbTypeOK
    <2> QED
      BY <2>1 DEF LengthInv, Stored
  <1>3. CASE UNCHANGED block
    BY <1>3 DEF LengthInv, Stored
  <1> QED
    BY <1>1, <1>2, <1>3, BlockSteps DEF vars, dbVars

\* The steps of the ExEx, by what they do to the processed chain.
LEMMA EventSteps ==
  ASSUME Next
  PROVE  \/ \E e \in Submissions, body \in Bodies :
              Committing(e) /\ Record(e, TRUE, Execute(body))
         \/ \E e \in Events : Committing(e) /\ Record(e, FALSE, Unchanged)
         \/ Reverting /\ DropLast
         \/ UNCHANGED applied
  <1>1. CASE Notify \/ RevertSubmissionFails \/ RevertDepositFails \/ RevertDone
             \/ NotificationDone
    BY <1>1 DEF Notify, Fail, RevertSubmissionFails, RevertDepositFails,
                RevertDone, NotificationDone
  <1>2. CASE RevertIgnored \/ RevertSubmission \/ RevertDeposit
    BY <1>2 DEF RevertIgnored, RevertSubmission, RevertDeposit
  <1>3. ASSUME NEW e \in Submissions, CommitUnexecuted(e) \/ CommitFails(e)
        PROVE  \/ Committing(e) /\ Record(e, FALSE, Unchanged)
               \/ UNCHANGED applied
    BY <1>3 DEF CommitUnexecuted, CommitFails, Fail
  <1>4. ASSUME NEW e \in Enters, CommitDeposit(e) \/ CommitIgnoredDeposit(e)
        PROVE  Committing(e) /\ Record(e, FALSE, Unchanged)
    BY <1>4 DEF CommitDeposit, CommitIgnoredDeposit
  <1>5. ASSUME NEW e \in Submissions, NEW body \in Bodies, CommitBlock(e, body)
        PROVE  Committing(e) /\ Record(e, TRUE, Execute(body))
    BY <1>5 DEF CommitBlock
  <1> QED
    BY <1>1, <1>2, <1>3, <1>4, <1>5 DEF Next, Events

\* OurNumbersGrow is inductive.
LEMMA NextNumbers == TypeOK /\ OurNumbersGrow /\ [Next]_vars => OurNumbersGrow'
  <1> SUFFICES ASSUME TypeOK, OurNumbersGrow, [Next]_vars
               PROVE  OurNumbersGrow'
    OBVIOUS
  <1>0. Len(applied) \in Nat /\ DOMAIN applied = 1 .. Len(applied)
    BY DEF TypeOK
  <1>1. ASSUME NEW e \in Events, NEW x \in Entries, x.event = e, Committing(e),
               applied' = Append(applied, x)
        PROVE  OurNumbersGrow'
    <2> SUFFICES ASSUME NEW i \in DOMAIN applied', NEW j \in DOMAIN applied', i < j,
                        IsOurs(applied'[i].event), IsOurs(applied'[j].event)
                 PROVE  applied'[i].event.sequence < applied'[j].event.sequence
      BY DEF OurNumbersGrow, IsOurs, IsSubmission
    <2>1. i \in DOMAIN applied /\ applied'[i] = applied[i]
          /\ \/ j \in DOMAIN applied /\ applied'[j] = applied[j]
             \/ j = Len(applied) + 1 /\ applied'[j] = x
      BY <1>0, <1>1, AppendFacts
    <2>2. CASE j \in DOMAIN applied /\ applied'[j] = applied[j]
      BY <2>1, <2>2 DEF OurNumbersGrow
    <2>3. CASE j = Len(applied) + 1 /\ applied'[j] = x
      <3>1. applied[i].event.sequence \in SubmittedOn(Ours)
        BY <2>1 DEF SubmittedOn, IsOurs
      <3>2. IsNextSequence(Ours, e.sequence)
        BY <1>1, <2>3 DEF Committing, IsOurs
      <3> QED
        BY <1>1, <2>1, <2>3, <3>1, <3>2 DEF IsNextSequence
    <2> QED
      BY <2>1, <2>2, <2>3
  <1>2. ASSUME NEW e \in Submissions, NEW body \in Bodies, Committing(e),
               Record(e, TRUE, Execute(body))
        PROVE  OurNumbersGrow'
    <2>1. e \in Events
      BY DEF Events
    <2>2. BlockEntry(e, body) \in Entries /\ applied' = Append(applied, BlockEntry(e, body))
          /\ BlockEntry(e, body).event = e
      BY <1>2, <2>1, EntryTypes DEF BlockEntry
    <2> QED
      BY <1>1, <1>2, <2>1, <2>2
  <1>3. ASSUME NEW e \in Events, Committing(e), Record(e, FALSE, Unchanged)
        PROVE  OurNumbersGrow'
    <2>1. OtherEntry(e) \in Entries /\ applied' = Append(applied, OtherEntry(e))
          /\ OtherEntry(e).event = e
      BY <1>3, EntryTypes DEF OtherEntry
    <2> QED
      BY <1>1, <1>3, <2>1
  <1>4. CASE Reverting /\ DropLast
    <2>1. \A i \in DOMAIN applied' : i \in DOMAIN applied /\ applied'[i] = applied[i]
      BY <1>4, <1>0, DropLastType
    <2> QED
      BY <2>1 DEF OurNumbersGrow, IsOurs, IsSubmission
  <1>5. CASE UNCHANGED applied
    BY <1>5 DEF OurNumbersGrow, IsOurs, IsSubmission
  <1> QED
    BY <1>2, <1>3, <1>4, <1>5, EventSteps DEF vars

\* No step but the revert of a passed over submission loses an executed block.
LEMMA ExecutedStep ==
  ASSUME TypeOK, InsertedAreOurs, LengthInv, OurNumbersGrow, Next,
         ExecutedBlocksAreStored, ~PassedOverReverted
  PROVE  ExecutedBlocksAreStored'
  <1> SUFFICES ASSUME NEW i \in DOMAIN applied', applied'[i].inserted
               PROVE  /\ Stored(applied[i].event.sequence)'
                      /\ Submitted(i, applied[i].event.sequence)'
    BY DEF ExecutedBlocksAreStored
  <1>0. Len(applied) \in Nat /\ DOMAIN applied = 1 .. Len(applied)
    BY DEF TypeOK
  <1>1. ASSUME i \in DOMAIN applied, applied'[i] = applied[i],
               block'[applied[i].event.sequence] = block[applied[i].event.sequence]
        PROVE  /\ Stored(applied[i].event.sequence)'
               /\ Submitted(i, applied[i].event.sequence)'
    BY <1>1 DEF ExecutedBlocksAreStored, Submitted, Stored
  <1>2. ASSUME NEW j \in DOMAIN applied, applied[j].inserted
        PROVE  /\ applied[j].event.sequence \in Seqs
               /\ IsOurs(applied[j].event)
               /\ Stored(applied[j].event.sequence)
    <2>1. applied[j] \in Entries /\ IsOurs(applied[j].event)
      BY <1>2 DEF TypeOK, InsertedAreOurs, IsOurs
    <2>2. applied[j].event \in Submissions
      BY <2>1 DEF Entries, Events, IsSubmission, IsOurs, Enters
    <2> QED
      BY <2>1, <2>2, <1>2 DEF Submissions, ExecutedBlocksAreStored
  <1>3. ASSUME NEW e \in Submissions, NEW body \in Bodies, CommitBlock(e, body)
        PROVE  /\ Stored(applied[i].event.sequence)'
               /\ Submitted(i, applied[i].event.sequence)'
    <2>1. e \in Events /\ Record(e, TRUE, Execute(body)) /\ e.chain = Ours
      BY <1>3 DEF CommitBlock, Executable, Events
    <2>2. /\ BlockEntry(e, body) \in Entries /\ BlockEntry(e, body).event = e
          /\ BlockEntry(e, body).inserted
          /\ applied' = Append(applied, BlockEntry(e, body))
      BY <2>1, EntryTypes DEF BlockEntry
    <2>3. /\ e.sequence \in Seqs /\ ~Stored(e.sequence)
          /\ block'[e.sequence] # <<>>
          /\ block'[e.sequence][e.sequence + 1] = e.header
          /\ \A m \in Seqs : m # e.sequence => block'[m] = block[m]
      BY <1>3, NewBlock
    <2>4. CASE i = Len(applied) + 1
      <3>1. applied'[i].event = e
        BY <2>2, <2>4, AppendFacts
      <3> QED
        BY <2>1, <2>2, <2>3, <3>1 DEF Stored, Submitted
    <2>5. CASE i # Len(applied) + 1
      <3>1. i \in DOMAIN applied /\ applied'[i] = applied[i]
        BY <2>2, <2>5, AppendFacts
      <3>2. Stored(applied[i].event.sequence) /\ applied[i].event.sequence \in Seqs
        BY <1>2, <3>1
      <3> QED
        BY <1>1, <2>3, <3>1, <3>2
    <2> QED
      BY <2>4, <2>5
  <1>4. ASSUME NEW e \in Events, Record(e, FALSE, Unchanged), UNCHANGED block
        PROVE  /\ Stored(applied[i].event.sequence)'
               /\ Submitted(i, applied[i].event.sequence)'
    <2>1. OtherEntry(e) \in Entries /\ applied' = Append(applied, OtherEntry(e))
          /\ ~OtherEntry(e).inserted
      BY <1>4, EntryTypes DEF OtherEntry
    <2>2. i \in DOMAIN applied /\ applied'[i] = applied[i]
      BY <2>1, AppendFacts
    <2> QED
      BY <1>1, <1>4, <2>2
  <1>5. ASSUME Reverting, DropLast
        PROVE  i \in DOMAIN applied /\ i < Len(applied) /\ applied'[i] = applied[i]
    BY <1>0, <1>5, DropLastType
  <1>6. CASE RevertSubmission
    <2> DEFINE n == LastEvent.sequence
    <2>1. Reverting /\ DropLast /\ IsSubmission(LastEvent)
          /\ block' = [block EXCEPT ![n] = <<>>]
      BY <1>6 DEF RevertSubmission, RevertTipBlock
    <2>2. i \in DOMAIN applied /\ i < Len(applied) /\ applied'[i] = applied[i]
          /\ Len(applied) \in DOMAIN applied
      BY <2>1, <1>5, LastEventType
    <2>3. applied[Len(applied)].inserted
      BY <2>1, <1>0, DropLastType DEF PassedOverReverted, LastEvent
    <2>4. applied[i].event.sequence < n /\ n \in Seqs
      BY <1>2, <2>2, <2>3 DEF OurNumbersGrow, LastEvent
    <2>5. applied[i].event.sequence \in Seqs /\ applied[i].event.sequence # n
      BY <1>2, <2>2, <2>4, DbConstants DEF Seqs
    <2>6. block'[applied[i].event.sequence] = block[applied[i].event.sequence]
      BY <2>1, <2>5 DEF TypeOK, DbTypeOK
    <2> QED
      BY <1>1, <2>2, <2>6
  <1>7. ASSUME Reverting, DropLast, UNCHANGED block
        PROVE  /\ Stored(applied[i].event.sequence)'
               /\ Submitted(i, applied[i].event.sequence)'
    BY <1>1, <1>5, <1>7
  <1>8. CASE UNCHANGED <<applied, block>>
    BY <1>1, <1>8
  <1> QED
    BY <1>3, <1>4, <1>6, <1>7, <1>8, ChainSteps

\* Once every executed block on the L1 chain is stored, every step keeps it so,
\* except that the revert of a submission that was passed over may take a
\* block away.  This holds for block numbers of any size.
THEOREM ExecutedCorrect == Spec => ExecutedBlocksStayStored
  <1> DEFINE Inv == InsertedAreOurs /\ LengthInv /\ OurNumbersGrow
  <1>1. Init => Inv
    BY DEF Init, DbInit, InsertedAreOurs, LengthInv, Stored, OurNumbersGrow
  <1>2. TypeOK /\ Inv /\ [Next]_vars => Inv'
    BY InsertedNext, NextLength, NextNumbers
  <1>3. TypeOK /\ Inv /\ [Next]_vars
          => [ExecutedBlocksAreStored /\ ~PassedOverReverted => ExecutedBlocksAreStored']_vars
    BY ExecutedStep
  <1> HIDE DEF Inv
  <1> QED
    BY <1>1, <1>2, <1>3, TypeCorrect, PTL DEF Spec, ExecutedBlocksStayStored
-----------------------------------------------------------------------------
(***************************************************************************)
(* Deposits.                                                               *)
(***************************************************************************)

\* Division with remainder.
LEMMA Division ==
  ASSUME NEW m \in Nat \ {0}, NEW x \in Int
  PROVE  /\ x % m \in 0 .. m - 1
         /\ x \div m \in Int
         /\ x = m * (x \div m) + (x % m)
  OBVIOUS

\* Two remainders that differ by a multiple of the modulus are equal.
LEMMA EqualRemainders ==
  ASSUME NEW m \in Nat \ {0}, NEW k \in Int, NEW r \in 0 .. m - 1, NEW s \in 0 .. m - 1,
         r = m * k + s
  PROVE  r = s
  <1>1. CASE k >= 1
    <2>1. m * k >= m
      BY <1>1
    <2> QED
      BY <2>1
  <1>2. CASE k <= -1
    <2>1. m * k <= -m
      BY <1>2
    <2> QED
      BY <2>1
  <1>3. CASE k = 0
    BY <1>3
  <1> QED
    BY <1>1, <1>2, <1>3

\* Wrapping before an addition makes no difference after it.
LEMMA WrappedSum ==
  ASSUME NEW m \in Nat \ {0}, NEW x \in Int, NEW y \in Int
  PROVE  ((x % m) + y) % m = (x + y) % m
  <1> DEFINE a == x \div m
             b == ((x % m) + y) \div m
             c == (x + y) \div m
             r == x % m
             s == ((x % m) + y) % m
             t == (x + y) % m
  <1>1. /\ r \in 0 .. m - 1 /\ a \in Int /\ x = m * a + r
    BY Division
  <1>2. /\ s \in 0 .. m - 1 /\ b \in Int /\ r + y = m * b + s
    <2> HIDE DEF r
    <2>1. r + y \in Int
      BY <1>1
    <2> QED
      BY <2>1, Division DEF r
  <1>3. /\ t \in 0 .. m - 1 /\ c \in Int /\ x + y = m * c + t
    <2>1. x + y \in Int
      OBVIOUS
    <2> QED
      BY <2>1, Division
  <1> HIDE DEF a, b, c, r, s, t
  <1>4. s = m * (c - (a + b)) + t
    <2>1. m * (c - (a + b)) = m * c - (m * a + m * b)
      BY <1>1, <1>2, <1>3
    <2> QED
      BY <1>1, <1>2, <1>3, <2>1
  <1>5. c - (a + b) \in Int
    BY <1>1, <1>2, <1>3
  <1>6. s = t
    BY <1>2, <1>3, <1>4, <1>5, EqualRemainders
  <1> QED
    BY <1>6 DEF s, t

\* What an event deposits is an amount of Ether.
LEMMA DepositOfType ==
  ASSUME NEW e \in Events, NEW a
  PROVE  DepositOf(e, a) \in Int
  <1>1. CASE IsDeposit(e)
    <2>1. e \in Enters
      BY <1>1 DEF IsDeposit, IsSubmission, Events, Submissions
    <2>2. e.amount \in Amounts
      BY <2>1 DEF Enters
    <2>3. Balances \subseteq Int
      BY DbConstants DEF Balances
    <2>4. e.amount \in Int
      BY <2>2, <2>3, RollupConstants
    <2> QED
      BY <2>4 DEF DepositOf
  <1>2. CASE ~IsDeposit(e)
    BY <1>2 DEF DepositOf
  <1> QED
    BY <1>1, <1>2

\* The deposits are summed up entry by entry.
LEMMA DepositedUnfolds ==
  ASSUME NEW s \in Seq(Entries), NEW a
  PROVE  \E f : /\ f \in [0 .. Len(s) -> Int]
                /\ f[0] = 0
                /\ \A i \in 1 .. Len(s) : f[i] = f[i - 1] + DepositOf(s[i].event, a)
                /\ DepositedIn(s, a) = f[Len(s)]
  <1> DEFINE n == Len(s)
             d(i) == DepositOf(s[i].event, a)
             Is(f) == f = [i \in 0 .. n |-> IF i = 0 THEN 0 ELSE f[i - 1] + DepositOf(s[i].event, a)]
             g == [i \in 1 .. n |-> [x \in Int |-> x + d(i)]]
  <1>1. n \in Nat /\ \A i \in 1 .. n : d(i) \in Int
    <2>1. \A i \in 1 .. n : s[i] \in Entries
      OBVIOUS
    <2> QED
      BY <2>1, DepositOfType DEF Entries
  <1> HIDE DEF d
  <1>2. g \in Steps(n, Int) /\ \A i \in 1 .. n, x \in Int : g[i][x] = x + d(i)
    <2> HIDE DEF n
    <2> QED
      BY <1>1 DEF Steps
  <1> HIDE DEF g
  <1>3. PICK r : /\ r \in [0 .. n -> Int]
                 /\ r[0] = 0
                 /\ \A i \in 1 .. n : r[i] = g[i][r[i - 1]]
    <2> HIDE DEF n
    <2>1. \A A, z : z \in A /\ g \in Steps(n, A) => \E r : Computes(r, n, A, z, g)
      BY <1>1, Recursion
    <2>2. 0 \in Int
      OBVIOUS
    <2>3. \E r : Computes(r, n, Int, 0, g)
      BY <1>2, <2>1, <2>2
    <2> QED
      BY <2>3 DEF Computes
  <1>4. \A i \in 1 .. n : i \in 0 .. n /\ i # 0 /\ i - 1 \in 0 .. n
    BY <1>1
  <1>5. 0 \in 0 .. n /\ \A i \in 0 .. n : i = 0 \/ i \in 1 .. n
    BY <1>1
  <1>6. \A i \in 1 .. n : r[i] = r[i - 1] + d(i)
    <2> HIDE DEF n
    <2> QED
      BY <1>2, <1>3, <1>4
  <1>7. Is(r)
    <2>1. \A i \in 0 .. n : r[i] = IF i = 0 THEN 0 ELSE r[i - 1] + DepositOf(s[i].event, a)
      <3> HIDE DEF n
      <3> QED
        BY <1>3, <1>5, <1>6 DEF d
    <2> HIDE DEF n
    <2> QED
      BY <2>1, <1>3
  <1>8. Is(CHOOSE f : Is(f))
    <2> HIDE DEF Is
    <2> QED
      BY <1>7, Zenon
  <1> DEFINE F == CHOOSE f : Is(f)
  <1>9. DepositedIn(s, a) = F[n]
    BY DEF DepositedIn
  <1> HIDE DEF F
  <1>10. F = [i \in 0 .. n |-> IF i = 0 THEN 0 ELSE F[i - 1] + DepositOf(s[i].event, a)]
    BY <1>8 DEF F
  <1>11. F[0] = 0 /\ \A i \in 1 .. n : F[i] = F[i - 1] + d(i)
    <2> HIDE DEF n
    <2> QED
      BY <1>4, <1>5, <1>10 DEF d
  <1> DEFINE T == {i \in 0 .. n : F[i] \in Int}
  <1>12. ASSUME NEW i \in 1 .. n, i - 1 \in T
         PROVE  i \in T
    <2>1. F[i - 1] \in Int /\ d(i) \in Int /\ F[i] = F[i - 1] + d(i)
      BY <1>1, <1>11, <1>12
    <2>2. F[i] \in Int
      BY <2>1
    <2> QED
      BY <2>2, <1>4
  <1>13. 0 .. n \subseteq T
    <2>1. 0 \in T
      BY <1>5, <1>11
    <2> HIDE DEF T, n
    <2> QED
      BY <1>1, <1>12, <2>1, Induction
  <1>14. F \in [0 .. n -> Int]
    <2> HIDE DEF n
    <2> QED
      BY <1>10, <1>13
  <1> HIDE DEF n
  <1>15. \A i \in 1 .. n : F[i] = F[i - 1] + DepositOf(s[i].event, a)
    BY <1>11 DEF d
  <1> QED
    BY <1>9, <1>11, <1>14, <1>15 DEF n

\* One entry more adds what its event deposits.
LEMMA DepositedAppend ==
  ASSUME NEW s \in Seq(Entries), NEW x \in Entries, NEW a
  PROVE  /\ DepositedIn(s, a) \in Int
         /\ DepositedIn(Append(s, x), a) = DepositedIn(s, a) + DepositOf(x.event, a)
  <1> DEFINE t == Append(s, x)
             n == Len(s)
  <1>1. /\ n \in Nat /\ t \in Seq(Entries) /\ Len(t) = n + 1
        /\ \A i \in 1 .. n : t[i] = s[i]
        /\ t[n + 1] = x
    BY AppendProperties
  <1> HIDE DEF t
  <1>2. PICK f : /\ f \in [0 .. n -> Int]
                 /\ f[0] = 0
                 /\ \A i \in 1 .. n : f[i] = f[i - 1] + DepositOf(s[i].event, a)
                 /\ DepositedIn(s, a) = f[n]
    BY DepositedUnfolds
  <1>3. PICK g : /\ g \in [0 .. n + 1 -> Int]
                 /\ g[0] = 0
                 /\ \A i \in 1 .. n + 1 : g[i] = g[i - 1] + DepositOf(t[i].event, a)
                 /\ DepositedIn(t, a) = g[n + 1]
    <2>1. \E h : /\ h \in [0 .. Len(t) -> Int]
                 /\ h[0] = 0
                 /\ \A i \in 1 .. Len(t) : h[i] = h[i - 1] + DepositOf(t[i].event, a)
                 /\ DepositedIn(t, a) = h[Len(t)]
      BY <1>1, DepositedUnfolds
    <2> HIDE DEF n
    <2> QED
      BY <1>1, <2>1
  <1> HIDE DEF n
  <1> DEFINE T == {i \in 0 .. n : g[i] = f[i]}
  <1>4. ASSUME NEW i \in 1 .. n, i - 1 \in T
        PROVE  i \in T
    <2>1. i \in 1 .. n + 1 /\ i \in 0 .. n /\ t[i] = s[i] /\ g[i - 1] = f[i - 1]
      BY <1>1, <1>4
    <2> QED
      BY <2>1, <1>2, <1>3
  <1>5. 0 \in T
    BY <1>1, <1>2, <1>3
  <1>6. 0 .. n \subseteq T
    <2> HIDE DEF T
    <2> QED
      BY <1>1, <1>4, <1>5, Induction
  <1>7. n \in 0 .. n /\ n + 1 \in 1 .. n + 1 /\ (n + 1) - 1 = n
    BY <1>1
  <1>8. g[n] = f[n] /\ f[n] \in Int
    BY <1>2, <1>6, <1>7
  <1>9. g[n + 1] = g[(n + 1) - 1] + DepositOf(t[n + 1].event, a)
    BY <1>3, <1>7
  <1>10. g[n + 1] = f[n] + DepositOf(x.event, a)
    BY <1>1, <1>7, <1>8, <1>9
  <1> QED
    BY <1>2, <1>3, <1>8, <1>10 DEF t

\* No event, no deposit.
LEMMA DepositedEmpty ==
  ASSUME NEW a
  PROVE  DepositedIn(<<>>, a) = 0
  <1>1. <<>> \in Seq(Entries) /\ Len(<<>>) = 0
    OBVIOUS
  <1> QED
    BY <1>1, DepositedUnfolds

\* Taking the last event off takes off what it deposited.
LEMMA DepositedDropLast ==
  ASSUME TypeOK, Reverting, DropLast, NEW a
  PROVE  /\ DepositedTo(a)' \in Int
         /\ DepositedTo(a) = DepositedTo(a)' + DepositOf(LastEvent, a)
  <1> DEFINE last == applied[Len(applied)]
  <1>1. /\ applied \in Seq(Entries) /\ Len(applied) \in Nat /\ Len(applied) > 0 /\ last \in Entries
        /\ applied' \in Seq(Entries) /\ Len(applied') = Len(applied) - 1
        /\ \A i \in 1 .. Len(applied) - 1 : applied'[i] = applied[i]
    BY LastEventType, DropLastType DEF TypeOK
  <1> DEFINE t == Append(applied', last)
  <1>2. /\ t \in Seq(Entries) /\ Len(t) = Len(applied)
        /\ \A i \in 1 .. Len(applied) - 1 : t[i] = applied[i]
        /\ t[Len(applied)] = last
    <2> HIDE DEF last
    <2> QED
      BY <1>1, AppendProperties
  <1>3. t = applied
    <2> HIDE DEF t
    <2>1. \A i \in 1 .. Len(applied) : t[i] = applied[i]
      BY <1>1, <1>2
    <2> QED
      BY <1>1, <1>2, <2>1, SeqEqual
  <1>4. /\ DepositedIn(applied', a) \in Int
        /\ DepositedIn(t, a) = DepositedIn(applied', a) + DepositOf(last.event, a)
    <2> HIDE DEF last
    <2> QED
      BY <1>1, DepositedAppend
  <1> QED
    BY <1>3, <1>4 DEF DepositedTo, LastEvent

\* The account that a deposit or its revert is about, and the others.
LEMMA UpsertFacts ==
  ASSUME TypeOK, NEW b \in Addresses, NEW info \in Info, UpsertAccount(b, info)
  PROVE  /\ account'[b] = info
         /\ \A a \in Addresses : a # b => account'[a] = account[a]
         /\ account_revert' = account_revert
  BY DEF UpsertAccount, TypeOK, DbTypeOK, AccountTable

\* DepositsExact is inductive.
LEMMA NextDeposits == TypeOK /\ DepositsExact /\ [Next]_vars => DepositsExact'
  <1> SUFFICES ASSUME TypeOK, DepositsExact, [Next]_vars, NEW a \in Addresses,
                      \A n \in Seqs : account_revert'[<<n, a>>] = NoRow
               PROVE  Balance(account'[a]) = DepositedTo(a)' % BalanceModulus
    BY DEF DepositsExact
  <1> DEFINE Untouched == \A n \in Seqs : account_revert[<<n, a>>] = NoRow
  <1>0. /\ applied \in Seq(Entries)
        /\ account[a] \in Info \cup {None}
        /\ Untouched => Balance(account[a]) = DepositedTo(a) % BalanceModulus
    BY DEF TypeOK, DbTypeOK, AccountTable, DepositsExact
  <1>1. ASSUME NEW e \in Events, NEW x \in Entries, x.event = e, applied' = Append(applied, x)
        PROVE  /\ DepositedTo(a) \in Int
               /\ DepositedTo(a)' = DepositedTo(a) + DepositOf(e, a)
    BY <1>0, <1>1, DepositedAppend DEF DepositedTo
  <1>2. ASSUME NEW e \in Events, Record(e, FALSE, Unchanged)
        PROVE  /\ DepositedTo(a) \in Int
               /\ DepositedTo(a)' = DepositedTo(a) + DepositOf(e, a)
    <2>1. OtherEntry(e) \in Entries /\ applied' = Append(applied, OtherEntry(e))
          /\ OtherEntry(e).event = e
      BY <1>2, EntryTypes DEF OtherEntry
    <2> QED
      BY <1>1, <2>1
  <1>3. ASSUME Untouched, Balance(account'[a]) = Balance(account[a]),
               DepositedTo(a)' = DepositedTo(a)
        PROVE  Balance(account'[a]) = DepositedTo(a)' % BalanceModulus
    BY <1>0, <1>3
  <1>4. ASSUME NEW e \in Events, Record(e, FALSE, Unchanged), ~IsDeposit(e), UNCHANGED dbVars
        PROVE  Balance(account'[a]) = DepositedTo(a)' % BalanceModulus
    <2>1. DepositOf(e, a) = 0
      BY <1>4 DEF DepositOf
    <2>2. DepositedTo(a) \in Int /\ DepositedTo(a)' = DepositedTo(a) + DepositOf(e, a)
      BY <1>2, <1>4
    <2>3. DepositedTo(a)' = DepositedTo(a)
      BY <2>1, <2>2
    <2> QED
      BY <1>3, <1>4, <2>3 DEF dbVars
  <1>5. ASSUME Reverting, DropLast, ~IsDeposit(LastEvent)
        PROVE  DepositedTo(a)' = DepositedTo(a)
    <2>1. DepositOf(LastEvent, a) = 0
      BY <1>5 DEF DepositOf
    <2>2. DepositedTo(a)' \in Int /\ DepositedTo(a) = DepositedTo(a)' + DepositOf(LastEvent, a)
      BY <1>5, DepositedDropLast
    <2> QED
      BY <2>1, <2>2
  <1>6. ASSUME NEW e \in Submissions, NEW body \in Bodies, CommitBlock(e, body)
        PROVE  Balance(account'[a]) = DepositedTo(a)' % BalanceModulus
    <2> DEFINE post == Execute(body)
    <2>1. e \in Events /\ e.sequence \in Seqs /\ ~IsDeposit(e)
          /\ Record(e, TRUE, Execute(body))
          /\ account' = post.account
          /\ account_revert' = AccountRevertsAfterInsert(e.sequence, post)
      BY <1>6 DEF CommitBlock, Events, Submissions, IsDeposit, IsSubmission, InsertBlockWithBundle
    <2>2. BlockEntry(e, body) \in Entries /\ applied' = Append(applied, BlockEntry(e, body))
          /\ BlockEntry(e, body).event = e
      BY <2>1, EntryTypes DEF BlockEntry
    <2>3. DepositedTo(a) \in Int /\ DepositedTo(a)' = DepositedTo(a) + DepositOf(e, a)
      BY <1>1, <2>1, <2>2
    <2>4. DepositOf(e, a) = 0
      BY <2>1 DEF DepositOf
    <2>5. account[a] # NoRow
      BY <1>0, DbConstants
    <2> HIDE DEF post
    <2>6. \A n \in Seqs : account_revert'[<<n, a>>] =
            IF n = e.sequence /\ a \in ChangedAccounts(post) THEN account[a]
            ELSE account_revert[<<n, a>>]
      BY <2>1 DEF AccountRevertsAfterInsert
    <2>7. a \notin ChangedAccounts(post) /\ Untouched
      BY <2>1, <2>5, <2>6
    <2>8. account'[a] = account[a]
      BY <2>1, <2>7 DEF ChangedAccounts
    <2> QED
      BY <1>3, <2>3, <2>4, <2>7, <2>8
  <1>7. CASE RevertSubmission
    <2>1. Reverting /\ DropLast /\ ~IsDeposit(LastEvent)
      BY <1>7 DEF RevertSubmission, IsDeposit
    <2>2. LastEvent.sequence \in Seqs /\ RevertTipBlock(LastEvent.sequence)
      BY <1>7, LastEventType DEF RevertSubmission, Submissions
    <2>3. PICK n \in Seqs : RevertTipBlock(n)
      BY <2>2
    <2>4. Untouched /\ account'[a] = account[a]
      BY <2>3 DEF RevertTipBlock, AccountsBefore
    <2> QED
      BY <1>3, <1>5, <2>1, <2>4
  <1>8. CASE RevertIgnored
    <2>1. Reverting /\ DropLast /\ ~IsDeposit(LastEvent) /\ UNCHANGED dbVars
      BY <1>8 DEF RevertIgnored, IsDeposit
    <2> QED
      BY <1>3, <1>5, <2>1 DEF dbVars
  <1>9. CASE RevertDeposit
    <2> DEFINE b == LastEvent.recipient
               y == LastEvent.amount
               info == Withdrawn(account[b], y)
    <2>1. /\ Reverting /\ DropLast /\ IsDeposit(LastEvent) /\ account[b] # None
          /\ UpsertAccount(b, info)
      BY <1>9 DEF RevertDeposit
    <2>2. b \in Addresses /\ y \in Amounts /\ y \in Int
      BY <2>1, LastEventType, RollupConstants DEF IsDeposit, Enters, Balances
    <2>3. account[b] \in Info /\ account[b].balance \in Int
      BY <2>1, <2>2 DEF TypeOK, DbTypeOK, AccountTable, Info, Balances
    <2>4. info \in Info /\ info.balance = (account[b].balance - y) % BalanceModulus
      BY <2>1, <2>2, <2>3, DepositTypes DEF Withdrawn, Info
    <2> HIDE DEF info
    <2>5. /\ account'[b] = info
          /\ a # b => account'[a] = account[a]
          /\ Untouched
      BY <2>1, <2>2, <2>4, UpsertFacts
    <2>6. DepositedTo(a)' \in Int /\ DepositedTo(a) = DepositedTo(a)' + DepositOf(LastEvent, a)
      BY <2>1, DepositedDropLast
    <2>7. CASE a # b
      <3>1. DepositedTo(a)' = DepositedTo(a)
        BY <2>6, <2>7 DEF DepositOf
      <3> QED
        BY <1>3, <2>5, <2>7, <3>1
    <2>8. CASE a = b
      <3> DEFINE x == DepositedTo(a)
                 z == DepositedTo(a)'
      <3>1. DepositOf(LastEvent, a) = y
        BY <2>1, <2>8 DEF DepositOf
      <3>2. x \in Int /\ -y \in Int /\ x + (-y) = z
        BY <2>2, <2>6, <3>1
      <3>3. account[b].balance = x % BalanceModulus
        BY <1>0, <2>3, <2>5, <2>8, DbConstants DEF Balance
      <3>4. Balance(account'[a]) = info.balance
        BY <2>4, <2>5, <2>8, DbConstants DEF Balance
      <3>5. account[b].balance - y = account[b].balance + (-y)
        BY <2>2, <2>3
      <3> HIDE DEF x, y, z
      <3>6. ((x % BalanceModulus) + (-y)) % BalanceModulus = (x + (-y)) % BalanceModulus
        BY <3>2, WrappedSum, DbConstants
      <3> QED
        BY <2>4, <3>2, <3>3, <3>4, <3>5, <3>6 DEF z
    <2> QED
      BY <2>7, <2>8
  <1>10. ASSUME NEW e \in Enters, CommitDeposit(e)
         PROVE  Balance(account'[a]) = DepositedTo(a)' % BalanceModulus
    <2> DEFINE b == e.recipient
               y == e.amount
               info == Deposited(account[b], y)
    <2>1. /\ e \in Events /\ Record(e, FALSE, Unchanged) /\ IsDeposit(e)
          /\ UpsertAccount(b, info)
      BY <1>10 DEF CommitDeposit, Events
    <2>2. b \in Addresses /\ y \in Amounts /\ y \in Int
      <3>1. b \in Addresses /\ y \in Amounts
        BY DEF Enters
      <3>2. Balances \subseteq Int
        BY DbConstants DEF Balances
      <3> QED
        BY <3>1, <3>2, RollupConstants
    <2>3. account[b] \in Info \cup {None}
      BY <2>2 DEF TypeOK, DbTypeOK, AccountTable
    <2>4. info \in Info /\ info.balance = (Balance(account[b]) + y) % BalanceModulus
      BY <2>2, <2>3, DepositTypes DEF Deposited
    <2> HIDE DEF info
    <2>5. /\ account'[b] = info
          /\ a # b => account'[a] = account[a]
          /\ Untouched
      BY <2>1, <2>2, <2>4, UpsertFacts
    <2>6. DepositedTo(a) \in Int /\ DepositedTo(a)' = DepositedTo(a) + DepositOf(e, a)
      BY <1>2, <2>1
    <2>7. CASE a # b
      <3>1. DepositedTo(a)' = DepositedTo(a)
        BY <2>6, <2>7 DEF DepositOf
      <3> QED
        BY <1>3, <2>5, <2>7, <3>1
    <2>8. CASE a = b
      <3> DEFINE x == DepositedTo(a)
                 z == DepositedTo(a)'
      <3>1. DepositOf(e, a) = y
        BY <2>1, <2>8 DEF DepositOf
      <3>2. x \in Int /\ y \in Int /\ x + y = z
        BY <2>2, <2>6, <3>1
      <3>3. Balance(account[b]) = x % BalanceModulus
        BY <1>0, <2>5, <2>8
      <3>4. Balance(account'[a]) = info.balance
        BY <2>4, <2>5, <2>8, DbConstants DEF Balance
      <3> HIDE DEF x, y, z
      <3>5. ((x % BalanceModulus) + y) % BalanceModulus = (x + y) % BalanceModulus
        BY <3>2, WrappedSum, DbConstants
      <3> QED
        BY <2>4, <3>2, <3>3, <3>4, <3>5 DEF z
    <2> QED
      BY <2>7, <2>8
  <1>11. ASSUME NEW e \in Submissions, CommitUnexecuted(e)
         PROVE  Balance(account'[a]) = DepositedTo(a)' % BalanceModulus
    <2>1. e \in Events /\ ~IsDeposit(e) /\ Record(e, FALSE, Unchanged) /\ UNCHANGED dbVars
      BY <1>11 DEF CommitUnexecuted, Events, IsDeposit
    <2> QED
      BY <1>4, <2>1
  <1>12. ASSUME NEW e \in Enters, CommitIgnoredDeposit(e)
         PROVE  Balance(account'[a]) = DepositedTo(a)' % BalanceModulus
    <2>1. e \in Events /\ ~IsDeposit(e) /\ Record(e, FALSE, Unchanged) /\ UNCHANGED dbVars
      BY <1>12 DEF CommitIgnoredDeposit, Events
    <2> QED
      BY <1>4, <2>1
  <1>13. CASE UNCHANGED <<dbVars, applied>>
    <2>1. DepositedTo(a)' = DepositedTo(a)
      BY <1>13 DEF DepositedTo
    <2> QED
      BY <1>3, <1>13, <2>1 DEF dbVars
  <1> QED
    BY <1>6, <1>7, <1>8, <1>9, <1>10, <1>11, <1>12, <1>13
    DEF Next, Notify, Fail, RevertSubmissionFails, RevertDepositFails, RevertDone,
        CommitFails, NotificationDone, vars

\* An account that no block ever changed owns what the current L1 chain has
\* deposited for it, for any amounts, wrapping included, and after any reorg.
THEOREM DepositsCorrect == Spec => []DepositsExact
  <1>1. Init => DepositsExact
    <2> SUFFICES ASSUME Init, NEW a \in Addresses
                 PROVE  Balance(account[a]) = DepositedTo(a) % BalanceModulus
      BY DEF DepositsExact
    <2>1. Balance(account[a]) = 0
      BY DEF Init, DbInit, Balance
    <2>2. DepositedTo(a) = 0
      BY DepositedEmpty DEF Init, DepositedTo
    <2>3. 0 % BalanceModulus = 0
      BY DbConstants
    <2> QED
      BY <2>1, <2>2, <2>3
  <1> QED
    BY <1>1, NextDeposits, TypeCorrect, PTL DEF Spec
=============================================================================
