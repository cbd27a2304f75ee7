---------------------------- MODULE OracleProofs ----------------------------
(***************************************************************************)
(* Proofs about the oracle node and the in-memory state it contains, for   *)
(* every value of the constants.                                           *)
(***************************************************************************)
EXTENDS OracleNode, SequenceTheorems, TLAPS

-----------------------------------------------------------------------------
(***************************************************************************)
(* The in-memory state.                                                    *)
(***************************************************************************)

\* The processed chain has consecutive numbers from `start`.
Numbered == \A k \in 1 .. Len(processed) : processed[k].number = start + k - 1

\* What waits in the channel takes d blocks off the end of the processed chain
\* and puts n there; block 0 is never taken.
Replaces(m, d, n) ==
  \E f \in Forks :
    /\ m.old = LastBlocks(processed, d)
    /\ m.new = Extension(Len(processed) - d, n, f)
    /\ d > 0 => start + Len(processed) - d > 0

NotificationFits ==
  notification # NoNotification =>
    \E d \in 0 .. Len(processed), n \in Nat : Replaces(notification, d, n)

\* Entries of reverted blocks are never more than the blocks before the start:
\* a commit appends to at most start + Len(processed) entries, so that each
\* canonical block has its entry where revert_to does not reach.
StaleEntriesBounded == Len(outcome) <= Len(processed) + start

StateInv ==
  /\ StateTypeOK
  /\ Numbered
  /\ NotificationFits
  /\ StaleEntriesBounded
  /\ OutcomeHoldsChain

\* A prefix of a chain is a chain.
LEMMA PrefixType ==
  ASSUME NEW c \in Seq(Blocks), NEW n \in 0 .. Len(c)
  PROVE  /\ SubSeq(c, 1, n) \in Seq(Blocks)
         /\ Len(SubSeq(c, 1, n)) = n
         /\ \A i \in 1 .. n : SubSeq(c, 1, n)[i] = c[i]
  <1>1. Len(c) \in Nat /\ \A i \in 1 .. Len(c) : c[i] \in Blocks
    BY ElementOfSeq, LenProperties
  <1>2. n \in Int /\ \A i \in 1 .. n : c[i] \in Blocks
    BY <1>1
  <1>3. /\ SubSeq(c, 1, n) \in Seq(Blocks)
        /\ Len(SubSeq(c, 1, n)) = IF 1 <= n THEN n - 1 + 1 ELSE 0
        /\ \A i \in 1 .. n - 1 + 1 : SubSeq(c, 1, n)[i] = c[1 + i - 1]
    BY <1>2, SubSeqProperties
  <1> QED
    BY <1>1, <1>3

\* The end of a chain is a chain.
LEMMA LastBlocksType ==
  ASSUME NEW c \in Seq(Blocks), NEW d \in 0 .. Len(c)
  PROVE  /\ LastBlocks(c, d) \in Seq(Blocks)
         /\ Len(LastBlocks(c, d)) = d
         /\ d > 0 => LastBlocks(c, d)[1] = c[Len(c) - d + 1]
  <1>1. Len(c) \in Nat /\ \A i \in 1 .. Len(c) : c[i] \in Blocks
    BY ElementOfSeq, LenProperties
  <1>2. \A i \in Len(c) - d + 1 .. Len(c) : c[i] \in Blocks
    BY <1>1
  <1> QED
    BY <1>1, <1>2, SubSeqProperties DEF LastBlocks

\* An extension is a chain that goes on with the next numbers.
LEMMA ExtensionType ==
  ASSUME StateTypeOK, NEW k \in Nat, NEW n \in Nat, NEW f \in Forks
  PROVE  /\ Extension(k, n, f) \in Seq(Blocks)
         /\ Len(Extension(k, n, f)) = n
         /\ \A i \in 1 .. n : Extension(k, n, f)[i].number = start + k + i - 1
  <1>1. start \in Nat
    BY InMemoryConstants DEF StateTypeOK
  <1>2. \A i \in 1 .. n : [number |-> start + k + i - 1, fork |-> f] \in Blocks
    BY <1>1 DEF Blocks
  <1>3. Extension(k, n, f) \in [1 .. n -> Blocks]
    BY <1>2 DEF Extension
  <1>4. Extension(k, n, f) \in Seq(Blocks)
    BY <1>3, SeqDef
  <1>5. Len(Extension(k, n, f)) \in Nat /\ 1 .. Len(Extension(k, n, f)) = 1 .. n
    BY <1>3, <1>4, LenProperties
  <1>6. Len(Extension(k, n, f)) = n
    BY <1>5
  <1>7. \A i \in 1 .. n : Extension(k, n, f)[i].number = start + k + i - 1
    BY DEF Extension
  <1> QED
    BY <1>4, <1>6, <1>7

\* revert_to keeps the entries before a bound, as many as there are.
LEMMA RevertToType ==
  ASSUME NEW out \in Seq(Blocks), NEW n \in Nat
  PROVE  /\ RevertTo(out, n) \in Seq(Blocks)
         /\ Len(RevertTo(out, n)) <= Len(out)
         /\ Len(RevertTo(out, n)) <= n + 1
         /\ \A p \in 1 .. Len(out) :
              p <= n + 1 => p <= Len(RevertTo(out, n)) /\ RevertTo(out, n)[p] = out[p]
  <1>1. Len(out) \in Nat /\ \A i \in 1 .. Len(out) : out[i] \in Blocks
    BY ElementOfSeq, LenProperties
  <1>2. CASE n < Len(out)
    <2>1. \A i \in 1 .. n + 1 : out[i] \in Blocks
      BY <1>1, <1>2
    <2>2. /\ SubSeq(out, 1, n + 1) \in Seq(Blocks)
          /\ Len(SubSeq(out, 1, n + 1)) = n + 1
          /\ \A i \in 1 .. n + 1 : SubSeq(out, 1, n + 1)[i] = out[i]
      BY <2>1, SubSeqProperties
    <2> QED
      BY <1>1, <1>2, <2>2 DEF RevertTo
  <1>3. CASE ~(n < Len(out))
    BY <1>1, <1>3 DEF RevertTo
  <1> QED
    BY <1>2, <1>3

\* A chain after the notification: what stays of it, then the new blocks.
LEMMA AfterType ==
  ASSUME NEW c \in Seq(Blocks), NEW m \in Notifications, Len(m.old) <= Len(c)
  PROVE  /\ After(c, m) \in Seq(Blocks)
         /\ Len(After(c, m)) = Len(c) - Len(m.old) + Len(m.new)
         /\ \A k \in 1 .. Len(After(c, m)) :
              After(c, m)[k] = IF k <= Len(c) - Len(m.old) THEN c[k]
                               ELSE m.new[k - (Len(c) - Len(m.old))]
  <1> DEFINE rest == SubSeq(c, 1, Len(c) - Len(m.old))
  <1>1. /\ Len(c) \in Nat /\ \A i \in 1 .. Len(c) : c[i] \in Blocks
        /\ m.old \in Seq(Blocks) /\ m.new \in Seq(Blocks)
        /\ Len(m.old) \in Nat /\ Len(m.new) \in Nat
    BY ElementOfSeq, LenProperties DEF Notifications
  <1>2. Len(c) - Len(m.old) \in 0 .. Len(c)
    BY <1>1
  <1>3. /\ rest \in Seq(Blocks)
        /\ Len(rest) = Len(c) - Len(m.old)
        /\ \A i \in 1 .. Len(c) - Len(m.old) : rest[i] = c[i]
    BY <1>2, PrefixType
  <1>4. After(c, m) = rest \o m.new
    BY DEF After
  <1> HIDE DEF rest
  <1>5. /\ rest \o m.new \in Seq(Blocks)
        /\ Len(rest \o m.new) = Len(rest) + Len(m.new)
        /\ \A k \in 1 .. Len(rest) + Len(m.new) :
             (rest \o m.new)[k] = IF k <= Len(rest) THEN rest[k] ELSE m.new[k - Len(rest)]
    BY <1>1, <1>3, ConcatProperties
  <1> QED
    BY <1>1, <1>3, <1>4, <1>5

\* A notification of the node fits the processed chain.
LEMMA NotifiesFits ==
  ASSUME StateInv, NEW d \in 0 .. Len(processed), NEW n \in 0 .. MaxLength, NEW f \in Forks,
         NodeNotifies(d, n, f)
  PROVE  StateInv'
  <1> DEFINE k == Len(processed) - d
  <1>1. /\ start \in Nat /\ Len(processed) \in Nat /\ k \in Nat /\ n \in Nat
        /\ processed \in Seq(Blocks)
    BY InMemoryConstants, LenProperties DEF StateInv, StateTypeOK
  <1>2. /\ notification'.old = LastBlocks(processed, d)
        /\ notification'.new = Extension(k, n, f)
        /\ notification' = [old |-> notification'.old, new |-> notification'.new]
        /\ d > 0 => start + k > 0
        /\ UNCHANGED <<start, outcome, processed>>
        /\ notified' = notified + 1 /\ notified < MaxNotifications
    BY DEF NodeNotifies
  <1>3. LastBlocks(processed, d) \in Seq(Blocks) /\ Extension(k, n, f) \in Seq(Blocks)
    BY <1>1, LastBlocksType, ExtensionType DEF StateInv
  <1>4. notification' \in Notifications
    BY <1>2, <1>3 DEF Notifications
  <1>5. StateTypeOK'
    BY <1>2, <1>4, InMemoryConstants DEF StateInv, StateTypeOK
  <1>6. Numbered' /\ StaleEntriesBounded' /\ OutcomeHoldsChain'
    BY <1>2 DEF StateInv, Numbered, OutcomeHoldsChain, CanonicalBlocksKept, StaleEntriesBounded
  <1>7. Replaces(notification, d, n)'
    BY <1>2 DEF Replaces, LastBlocks, Extension
  <1>8. NotificationFits'
    BY <1>1, <1>2, <1>7 DEF NotificationFits
  <1> QED
    BY <1>5, <1>6, <1>8 DEF StateInv

\* Handling it keeps the entries of the blocks that stay, because their
\* numbers are below the one that revert_to counts to.
LEMMA HandlePreserves ==
  ASSUME StateInv, HandleNotification
  PROVE  StateInv'
  <1> DEFINE m == notification
             N == Len(processed)
  <1>1. PICK d \in 0 .. N, n \in Nat : Replaces(m, d, n)
    BY DEF StateInv, NotificationFits, HandleNotification
  <1>2. PICK f \in Forks : /\ m.old = LastBlocks(processed, d)
                           /\ m.new = Extension(N - d, n, f)
                           /\ d > 0 => start + N - d > 0
    BY <1>1 DEF Replaces
  <1> DEFINE k == N - d
             kept == IF m.old # <<>> THEN RevertTo(outcome, FirstNumber(m) - 1) ELSE outcome
  <1>3. /\ start \in Nat /\ N \in Nat /\ d \in Nat /\ n \in Nat /\ k \in Nat
        /\ processed \in Seq(Blocks) /\ outcome \in Seq(Blocks) /\ m \in Notifications
        /\ Len(outcome) \in Nat
    BY <1>1, InMemoryConstants, LenProperties DEF StateInv, StateTypeOK
  <1>4. /\ m.old \in Seq(Blocks) /\ Len(m.old) = d
        /\ d > 0 => m.old[1] = processed[k + 1]
    BY <1>2, <1>3, LastBlocksType
  <1>5. /\ m.new \in Seq(Blocks) /\ Len(m.new) = n
        /\ \A i \in 1 .. n : m.new[i].number = start + k + i - 1
    <2>0. StateTypeOK /\ k \in Nat /\ m.new = Extension(k, n, f)
      BY <1>2, <1>3 DEF StateInv
    <2> HIDE DEF k
    <2>1. /\ Extension(k, n, f) \in Seq(Blocks)
          /\ Len(Extension(k, n, f)) = n
          /\ \A i \in 1 .. n : Extension(k, n, f)[i].number = start + k + i - 1
      BY <2>0, ExtensionType
    <2> QED
      BY <2>0, <2>1
  <1>6. d > 0 => FirstNumber(m) = start + k
    <2>1. m.new # <<>> => n > 0
      BY <1>3, <1>5, EmptySeq
    <2>2. d > 0 => k + 1 \in 1 .. N
      BY <1>3
    <2>3. d > 0 => processed[k + 1].number = start + k
      BY <2>2, <1>3 DEF StateInv, Numbered
    <2> QED
      BY <1>3, <1>4, <1>5, <2>1, <2>3 DEF FirstNumber
  <1>7. /\ kept \in Seq(Blocks)
        /\ Len(kept) <= start + k
        /\ \A p \in 1 .. Len(outcome) :
             p <= start + k => p <= Len(kept) /\ kept[p] = outcome[p]
    <2>1. CASE d = 0
      <3>1. kept = outcome
        BY <1>4, <2>1, EmptySeq
      <3>2. Len(outcome) <= start + k
        BY <1>3, <2>1 DEF StateInv, StaleEntriesBounded
      <3> QED
        BY <1>3, <3>1, <3>2
    <2>2. CASE d > 0
      <3>1. m.old # <<>>
        BY <1>4, <2>2, EmptySeq
      <3>2. kept = RevertTo(outcome, start + k - 1)
        <4>1. FirstNumber(m) = start + k
          BY <1>6, <2>2
        <4>2. FirstNumber(m) - 1 = start + k - 1
          BY <1>3, <4>1
        <4>3. kept = RevertTo(outcome, FirstNumber(m) - 1)
          BY <3>1
        <4> QED
          BY <4>2, <4>3
      <3>3. start + k - 1 \in Nat
        BY <1>2, <1>3, <2>2
      <3>4. /\ RevertTo(outcome, start + k - 1) \in Seq(Blocks)
            /\ Len(RevertTo(outcome, start + k - 1)) <= (start + k - 1) + 1
            /\ \A p \in 1 .. Len(outcome) :
                 p <= (start + k - 1) + 1 =>
                   /\ p <= Len(RevertTo(outcome, start + k - 1))
                   /\ RevertTo(outcome, start + k - 1)[p] = outcome[p]
        BY <1>3, <3>3, RevertToType
      <3>5. (start + k - 1) + 1 = start + k
        BY <1>3
      <3> HIDE DEF kept
      <3> QED
        BY <3>2, <3>4, <3>5
    <2> QED
      BY <1>3, <2>1, <2>2
  <1>8. /\ start' = start /\ notified' = notified /\ notification' = NoNotification
        /\ outcome' = kept \o m.new /\ processed' = After(processed, m)
    BY DEF HandleNotification, Handled, nodeVars
  <1> HIDE DEF kept, m
  <1>9. /\ processed' \in Seq(Blocks)
        /\ Len(processed') = k + n
        /\ \A i \in 1 .. k + n :
             processed'[i] = IF i <= k THEN processed[i] ELSE m.new[i - k]
    <2>1. /\ After(processed, m) \in Seq(Blocks)
          /\ Len(After(processed, m)) = N - Len(m.old) + Len(m.new)
          /\ \A i \in 1 .. Len(After(processed, m)) :
               After(processed, m)[i] = IF i <= N - Len(m.old) THEN processed[i]
                                        ELSE m.new[i - (N - Len(m.old))]
      <3>1. processed \in Seq(Blocks) /\ m \in Notifications /\ Len(m.old) <= Len(processed)
        BY <1>3, <1>4
      <3> QED
        BY <3>1, AfterType
    <2> QED
      BY <1>3, <1>4, <1>5, <1>8, <2>1
  <1>10. /\ outcome' \in Seq(Blocks)
         /\ Len(outcome') = Len(kept) + n
         /\ Len(kept) \in Nat
         /\ \A p \in 1 .. Len(kept) + n :
              outcome'[p] = IF p <= Len(kept) THEN kept[p] ELSE m.new[p - Len(kept)]
    BY <1>5, <1>7, <1>8, ConcatProperties, LenProperties
  <1>11. StateTypeOK'
    <2>1. NoNotification \in Notifications
      BY EmptySeq DEF NoNotification, Notifications
    <2> QED
      BY <1>8, <1>9, <1>10, <2>1 DEF StateInv, StateTypeOK
  <1>12. Numbered'
    <2>1. \A i \in 1 .. k : processed[i].number = start + i - 1
      <3>1. Numbered /\ 1 .. k \subseteq 1 .. N
        BY <1>3 DEF StateInv
      <3> QED
        BY <3>1 DEF Numbered
    <2>2. \A i \in 1 .. k + n : i > k => m.new[i - k].number = start + i - 1
      BY <1>3, <1>5
    <2> QED
      <3>1. \A i \in 1 .. k + n : processed'[i].number = start + i - 1
        <4> SUFFICES ASSUME NEW i \in 1 .. k + n
                     PROVE  processed'[i].number = start + i - 1
          OBVIOUS
        <4>0. processed'[i] = IF i <= k THEN processed[i] ELSE m.new[i - k]
          BY <1>9
        <4> HIDE DEF k
        <4>1. CASE i <= k
          <5>1. i \in 1 .. k
            BY <1>3, <4>1
          <5>2. processed[i].number = start + i - 1
            BY <2>1, <5>1
          <5> QED
            BY <4>0, <4>1, <5>2
        <4>2. CASE ~(i <= k)
          <5>1. m.new[i - k].number = start + i - 1
            BY <1>3, <2>2, <4>2
          <5> QED
            BY <4>0, <4>2, <5>1
        <4> QED
          BY <4>1, <4>2
      <3> QED
        BY <1>8, <1>9, <3>1 DEF Numbered
  <1>13. CanonicalBlocksKept'
    <2>1. SUFFICES ASSUME NEW i \in 1 .. k + n
                   PROVE  \E p \in 1 .. Len(outcome') :
                            p <= start + i /\ outcome'[p] = processed'[i]
      BY <1>8, <1>9, <1>10, LenProperties DEF CanonicalBlocksKept
    <2>2. CASE i <= k
      <3>1. i \in DOMAIN processed
        BY <1>3, <2>2, LenProperties
      <3>2. PICK p \in DOMAIN outcome : p <= start + i /\ outcome[p] = processed[i]
        BY <3>1 DEF StateInv, OutcomeHoldsChain, CanonicalBlocksKept
      <3>3. p \in 1 .. Len(outcome) /\ p <= start + k
        BY <1>3, <2>2, <3>2, LenProperties
      <3>4. p <= Len(kept) /\ kept[p] = outcome[p]
        BY <1>7, <3>3
      <3>5. p \in 1 .. Len(outcome') /\ outcome'[p] = kept[p]
        BY <1>3, <1>10, <3>3, <3>4
      <3> QED
        BY <1>9, <2>2, <3>2, <3>4, <3>5
    <2>3. CASE i > k
      <3> DEFINE p == Len(kept) + (i - k)
      <3>1. p \in 1 .. Len(outcome') /\ p <= start + i
        BY <1>3, <1>7, <1>10, <2>3
      <3>2. outcome'[p] = m.new[i - k]
        BY <1>3, <1>10, <2>3, <3>1
      <3>3. processed'[i] = m.new[i - k]
        BY <1>3, <1>9, <2>3
      <3> QED
        BY <3>1, <3>2, <3>3
    <2> QED
      BY <1>3, <2>2, <2>3
  <1>14. StaleEntriesBounded'
    BY <1>3, <1>7, <1>8, <1>9, <1>10 DEF StaleEntriesBounded
  <1>15. NotificationFits'
    BY <1>8 DEF NotificationFits
  <1>16. start = 0 => outcome' = processed'
    <2>1. SUFFICES ASSUME start = 0
                   PROVE  outcome' = processed'
      OBVIOUS
    <2>2. outcome = processed
      BY <2>1 DEF StateInv, OutcomeHoldsChain
    <2>3. \A i \in 1 .. k : i <= Len(kept) /\ kept[i] = processed[i]
      BY <1>3, <1>7, <2>1, <2>2
    <2>4. Len(kept) = k
      <3>1. k \in Nat /\ Len(kept) \in Nat /\ Len(kept) <= k
        BY <1>3, <1>7, <1>10, <2>1
      <3> HIDE DEF k
      <3>2. k > 0 => k \in 1 .. k
        BY <3>1
      <3>3. k > 0 => k <= Len(kept)
        BY <2>3, <3>2
      <3> QED
        BY <3>1, <3>3
    <2>5. Len(outcome') = Len(processed')
      BY <1>9, <1>10, <2>4
    <2>6. \A i \in 1 .. k + n : outcome'[i] = processed'[i]
      BY <1>3, <1>9, <1>10, <2>3, <2>4
    <2> QED
      BY <1>9, <1>10, <2>5, <2>6, SeqEqual
  <1> QED
    BY <1>8, <1>11, <1>12, <1>13, <1>14, <1>15, <1>16 DEF StateInv, OutcomeHoldsChain

\* The invariant holds before the first notification.
LEMMA StateStarts ==
  ASSUME StateInit
  PROVE  StateInv
  <1>1. NoNotification \in Notifications /\ <<>> \in Seq(Blocks) /\ Len(<<>>) = 0
    BY EmptySeq DEF NoNotification, Notifications
  <1>2. StateTypeOK
    BY <1>1, InMemoryConstants DEF StateInit, StateTypeOK
  <1>3. Numbered /\ NotificationFits
    BY <1>1 DEF StateInit, Numbered, NotificationFits
  <1>4. StaleEntriesBounded /\ OutcomeHoldsChain
    BY <1>1, InMemoryConstants
       DEF StateInit, OutcomeHoldsChain, CanonicalBlocksKept, StaleEntriesBounded
  <1> QED
    BY <1>2, <1>3, <1>4 DEF StateInv

\* Every step of the node and of the ExEx keeps it.
LEMMA StateSteps ==
  ASSUME StateInv, [StateNext]_exexVars
  PROVE  StateInv'
  <1>1. CASE NodeChanges
    BY <1>1, NotifiesFits DEF NodeChanges
  <1>2. CASE HandleNotification
    BY <1>2, HandlePreserves
  <1>3. CASE UNCHANGED exexVars
    <2>1. StateTypeOK' /\ Numbered' /\ StaleEntriesBounded' /\ OutcomeHoldsChain'
      BY <1>3 DEF exexVars, StateInv, StateTypeOK, Numbered, OutcomeHoldsChain,
                  CanonicalBlocksKept, StaleEntriesBounded
    <2>2. \A d \in 0 .. Len(processed), n \in Nat :
            Replaces(notification, d, n) => Replaces(notification, d, n)'
      BY <1>3 DEF exexVars, Replaces, LastBlocks, Extension
    <2>3. NotificationFits'
      BY <1>3, <2>2 DEF exexVars, StateInv, NotificationFits
    <2> QED
      BY <2>1, <2>3 DEF StateInv
  <1> QED
    BY <1>1, <1>2, <1>3 DEF StateNext

\* Whatever reorgs the node notifies of, the outcome keeps every canonical
\* block since the start at or before its place, and when the start is block 0
\* it is the canonical chain (revert_to and extend of poll,
\* in-memory-state/src/main.rs).
THEOREM OutcomeCorrect == StateSpec => []OutcomeHoldsChain
  <1>1. StateInit => StateInv
    BY StateStarts
  <1>2. StateInv /\ [StateNext]_exexVars => StateInv'
    BY StateSteps
  <1>3. StateInv => OutcomeHoldsChain
    BY DEF StateInv
  <1> QED
    BY <1>1, <1>2, <1>3, PTL DEF StateSpec

-----------------------------------------------------------------------------
(***************************************************************************)
(* The oracle node.                                                        *)
(***************************************************************************)

\* A step of the node is a step of its ExEx or leaves it alone.
LEMMA NodeStepIsStateStep ==
  ASSUME [Next]_vars
  PROVE  [StateNext]_exexVars
  <1> USE DEF exexVars
  <1>1. CASE Notify
    BY <1>1 DEF Notify, StateNext
  <1>2. CASE NodeDiscovered \/ DiscoveryCloses \/ MessageArrives \/ SocketCloses
               \/ ConnectReturns \/ SleepEnds \/ NotificationsEnd
    BY <1>2 DEF NodeDiscovered, DiscoveryCloses, MessageArrives, SocketCloses,
                ConnectReturns, SleepEnds, NotificationsEnd
  <1>3. CASE StartPoll \/ AddNode \/ DiscoverySpins \/ NetworkPending
    BY <1>3 DEF StartPoll, AddNode, DiscoverySpins, NetworkPending
  <1>4. CASE Reconnected \/ ReconnectRefused \/ ReconnectGivesUp \/ ReconnectPending
    BY <1>4 DEF Reconnected, ReconnectRefused, ReconnectGivesUp, ReconnectPending,
                ReconnectStep
  <1>5. CASE SignTicker \/ SkipMessage \/ SocketError \/ FeedEnded \/ FeedPending
    BY <1>5 DEF SignTicker, SkipMessage, SocketError, FeedEnded, FeedPending, ReadSocket
  <1>6. CASE ExExHandles
    BY <1>6 DEF ExExHandles, StateNext
  <1>7. CASE ExExPending \/ ExExFails \/ ExExEnded
    BY <1>7 DEF ExExPending, ExExFails, ExExEnded, ExExStep
  <1>8. CASE UNCHANGED vars
    BY <1>8 DEF vars
  <1> QED
    BY <1>1, <1>2, <1>3, <1>4, <1>5, <1>6, <1>7, <1>8 DEF Next, Poll

\* The oracle runs the in-memory state ExEx and does nothing else to it: its
\* wakeups, its feed and its ways to stop only choose when the ExEx steps.
THEOREM NodeRunsState == Spec => StateSpec
  <1>1. Init => StateInit
    BY DEF Init
  <1>2. [Next]_vars => [StateNext]_exexVars
    BY NodeStepIsStateStep
  <1> QED
    BY <1>1, <1>2, PTL DEF Spec, StateSpec

\* The outcome of the oracle holds the chain in that sense under every order in
\* which it is polled (poll of oracle/src/exex.rs inside poll of oracle/src/oracle.rs).
THEOREM NodeOutcomeCorrect == Spec => []OutcomeHoldsChain
  BY NodeRunsState, OutcomeCorrect, PTL

\* Between two polls the count of attempts agrees with the refusals seen.
RetriesCounted ==
  /\ at = "gave_up" => refusals = MaxRetries
  /\ at # "gave_up" /\ retry = "none" => refusals = 0
  /\ retry \in {"ready", "connecting", "sleeping"} => attempts = refusals
  /\ retry = "refused" => refusals = attempts + 1

NodeInv == StateInv /\ TypeOK /\ RetriesCounted

\* Events of discovery are never more than the nodes there are.
DiscoveryType ==
  /\ discovery \in [nodes : 0 .. MaxDiscovered, left : 0 .. MaxDiscovered, open : BOOLEAN]
  /\ discovery.nodes + discovery.left <= MaxDiscovered

LEMMA DiscoverySteps ==
  ASSUME DiscoveryType, NodeDiscovered \/ AddNode
  PROVE  DiscoveryType'
  <1>1. /\ discovery.nodes \in Int /\ discovery.left \in Int /\ discovery.open \in BOOLEAN
        /\ discovery = [nodes |-> discovery.nodes, left |-> discovery.left,
                        open |-> discovery.open]
    BY NodeConstants DEF DiscoveryType
  <1>2. CASE NodeDiscovered
    <2>1. discovery' = [nodes |-> discovery.nodes + 1, left |-> discovery.left - 1,
                        open |-> discovery.open]
      BY <1>1, <1>2 DEF NodeDiscovered
    <2>2. discovery.left > 0
      BY <1>2 DEF NodeDiscovered
    <2> QED
      BY <1>1, <2>1, <2>2, NodeConstants DEF DiscoveryType
  <1>3. CASE AddNode
    <2>1. discovery' = [nodes |-> discovery.nodes - 1, left |-> discovery.left,
                        open |-> discovery.open]
      BY <1>1, <1>3 DEF AddNode
    <2>2. discovery.nodes > 0
      BY <1>3 DEF AddNode
    <2> QED
      BY <1>1, <2>1, <2>2, NodeConstants DEF DiscoveryType
  <1> QED
    BY <1>2, <1>3

\* What the environment does keeps the types and the count.
LEMMA EnvironmentSteps ==
  ASSUME NodeInv, StateInv',
         \/ NodeDiscovered \/ DiscoveryCloses \/ MessageArrives \/ SocketCloses
         \/ ConnectReturns \/ SleepEnds \/ Notify \/ NotificationsEnd
  PROVE  TypeOK' /\ RetriesCounted'
  <1> USE DEF NodeInv, StateInv, TypeOK, RetriesCounted, Wake, feedVars, feedEnvVars, netVars
  <1> USE NodeConstants
  <1>1. CASE NodeDiscovered
    <2>1. DiscoveryType'
      BY <1>1, DiscoverySteps DEF DiscoveryType
    <2>2. UNCHANGED <<exexVars, feedVars, feedEnvVars, stream>> /\ Wake("discovery")
      BY <1>1 DEF NodeDiscovered
    <2> QED
      BY <2>1, <2>2 DEF DiscoveryType
  <1>2. CASE DiscoveryCloses
    <2>1. DiscoveryType'
      BY <1>2 DEF DiscoveryCloses, DiscoveryType
    <2>2. UNCHANGED <<exexVars, feedVars, feedEnvVars, stream>> /\ Wake("discovery")
      BY <1>2 DEF DiscoveryCloses
    <2> QED
      BY <2>1, <2>2 DEF DiscoveryType
  <1>3. CASE MessageArrives
    BY <1>3 DEF MessageArrives
  <1>4. CASE SocketCloses
    BY <1>4 DEF SocketCloses
  <1>5. CASE ConnectReturns
    BY <1>5 DEF ConnectReturns
  <1>6. CASE SleepEnds
    BY <1>6 DEF SleepEnds
  <1>7. CASE Notify
    BY <1>7 DEF Notify
  <1>8. CASE NotificationsEnd
    BY <1>8 DEF NotificationsEnd
  <1> QED
    BY <1>1, <1>2, <1>3, <1>4, <1>5, <1>6, <1>7, <1>8
\* So does every step of a poll: a future that is refused counts on until its
\* last attempt, and a new one starts where no refusal is pending.
LEMMA PollSteps ==
  ASSUME NodeInv, StateInv', Poll
  PROVE  TypeOK' /\ RetriesCounted'
  <1> USE DEF NodeInv, StateInv, TypeOK, RetriesCounted, taskVars, feedVars, feedEnvVars,
              netVars
  <1> USE NodeConstants
  <1>1. CASE StartPoll
    BY <1>1 DEF StartPoll
  <1>2. CASE AddNode
    <2>1. DiscoveryType'
      BY <1>2, DiscoverySteps DEF DiscoveryType
    <2>2. /\ at = "network" /\ at' \in {"network", "failed"}
          /\ UNCHANGED <<exexVars, scheduled, registered, feedVars, feedEnvVars, stream>>
      BY <1>2 DEF AddNode
    <2> QED
      BY <2>1, <2>2 DEF DiscoveryType
  <1>3. CASE DiscoverySpins
    BY <1>3 DEF DiscoverySpins
  <1>4. CASE NetworkPending
    BY <1>4 DEF NetworkPending, Sources
  <1>5. CASE Reconnected
    BY <1>5, EmptySeq DEF Reconnected, ReconnectStep
  <1>6. CASE ReconnectRefused
    BY <1>6 DEF ReconnectRefused, ReconnectStep, Sources
  <1>7. CASE ReconnectGivesUp
    BY <1>7 DEF ReconnectGivesUp, ReconnectStep
  <1>8. CASE ReconnectPending
    BY <1>8 DEF ReconnectPending, ReconnectStep, Sources
  <1>9. CASE SignTicker \/ SkipMessage
    <2>1. inbox # <<>> /\ inbox' = Tail(inbox)
      BY <1>9 DEF SignTicker, SkipMessage
    <2>2. inbox \in Seq({"ticker", "junk"}) /\ Len(inbox) \in Nat
      BY LenProperties
    <2>3. inbox' \in Seq({"ticker", "junk"}) /\ Len(inbox') = Len(inbox) - 1
      BY <2>1, <2>2, HeadTailProperties
    <2>4. /\ at = "feed" /\ at' \in {"feed", "exex"} /\ scheduled' \in BOOLEAN
          /\ retry = "none"
          /\ UNCHANGED <<exexVars, netVars, socket, feedEnvVars, refusals, stream,
                         registered, retry, attempts>>
      BY <1>9 DEF SignTicker, SkipMessage, ReadSocket
    <2>5. Len(inbox') <= feed_inputs'
      BY <2>2, <2>3, <2>4
    <2> QED
      BY <2>3, <2>4, <2>5
  <1>10. CASE SocketError \/ FeedEnded \/ FeedPending
    <2>1. CASE SocketError
      BY <2>1 DEF SocketError, ReadSocket
    <2>2. CASE FeedEnded
      BY <2>2 DEF FeedEnded, ReadSocket
    <2>3. CASE FeedPending
      BY <2>3 DEF FeedPending, ReadSocket, Sources
    <2> QED
      BY <1>10, <2>1, <2>2, <2>3
  <1>11. CASE ExExHandles
    BY <1>11 DEF ExExHandles
  <1>12. CASE ExExPending \/ ExExFails \/ ExExEnded
    BY <1>12 DEF ExExPending, ExExFails, ExExEnded, ExExStep, Sources
  <1> QED
    BY <1>1, <1>2, <1>3, <1>4, <1>5, <1>6, <1>7, <1>8, <1>9, <1>10, <1>11, <1>12 DEF Poll

\* The invariant of the whole oracle.
LEMMA NodeInvariant == Spec => []NodeInv
  <1>1. Init => NodeInv
    <2> SUFFICES ASSUME Init PROVE NodeInv
      OBVIOUS
    <2>1. StateInv
      BY StateStarts DEF Init
    <2>2. TypeOK
      BY <2>1, NodeConstants, EmptySeq DEF Init, StateInv, TypeOK
    <2> QED
      BY <2>1, <2>2 DEF Init, NodeInv, RetriesCounted
  <1>2. NodeInv /\ [Next]_vars => NodeInv'
    <2> SUFFICES ASSUME NodeInv, [Next]_vars PROVE NodeInv'
      OBVIOUS
    <2>1. StateInv'
      BY NodeStepIsStateStep, StateSteps DEF NodeInv
    <2>2. CASE Poll
      BY <2>1, <2>2, PollSteps DEF NodeInv
    <2>3. CASE UNCHANGED vars
      BY <2>1, <2>3 DEF vars, taskVars, netVars, feedVars, feedEnvVars, NodeInv, StateInv,
                        TypeOK, RetriesCounted
    <2>4. CASE Next /\ ~Poll
      BY <2>1, <2>4, EnvironmentSteps DEF Next, NodeInv
    <2> QED
      BY <2>2, <2>3, <2>4
  <1> QED
    BY <1>1, <1>2, PTL DEF Spec

\* Every reachable state of the oracle is well typed; `attempts` stays below
\* max_retries (connect_with_retries).
THEOREM NodeTypeCorrect == Spec => []TypeOK
  <1>1. NodeInv => TypeOK
    BY DEF NodeInv
  <1> QED
    BY <1>1, NodeInvariant, PTL

\* For every max_retries the oracle ends with MaxRetriesExceeded only after
\* that many refusals in a row, also when the connection came back in between.
THEOREM RetriesCorrect == Spec => []GivesUpAfterRetries
  <1>1. NodeInv => GivesUpAfterRetries
    BY DEF NodeInv, RetriesCounted, GivesUpAfterRetries
  <1> QED
    BY <1>1, NodeInvariant, PTL
=============================================================================
