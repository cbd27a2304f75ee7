---------------------------- MODULE OpBridgeProofs ---------------------------
(***************************************************************************)
(* What holds of the OP bridge ExEx for every chain and every reorg: its   *)
(* tables are exact at every step of a notification, an insertion fails    *)
(* only on a transaction that repeats an event, and a height is reported   *)
(* when its events are stored.                                             *)
(***************************************************************************)
EXTENDS OpBridge, InductionFacts

\* The bridge events of `blocks`, when they follow block `parent`.
EventsOf(parent, blocks) ==
  {e \in Entry : /\ e.number - parent \in DOMAIN blocks
                 /\ e.index \in DOMAIN blocks[e.number - parent]
                 /\ e.log = blocks[e.number - parent][e.index]
                 /\ IsBridgeEvent(e.log)}

\* The events whose rows the tables hold.
Stored == (BridgeEvents \ ToSet(committed)) \cup ToSet(reverted)

\* A notification is handled to its end before the next one is taken, and its
\* reverted chain before its committed one.
PhaseInv ==
  /\ phase = "waiting" => reverted = <<>> /\ committed = <<>>
  /\ phase \in {"committing", "failed"} => reverted = <<>>
  /\ phase = "failed" => committed # <<>>
  /\ tip = 0 => committed = <<>>

\* What is still to be inserted is in the chain and not yet in the tables; what
\* is still to be deleted is not among what stays.
PendingInv ==
  /\ Distinct(committed)
  /\ ToSet(committed) \subseteq BridgeEvents
  /\ Distinct(reverted)
  /\ ToSet(reverted) \cap (BridgeEvents \ ToSet(committed)) = {}

\* Two events in one table are of different transactions, so that a deletion
\* by transaction deletes one row.
OneEventPerTx ==
  \A e, f \in Stored :
    IsStored(e) /\ e.log.event = f.log.event /\ e.log.tx = f.log.tx => e = f

BridgeInv ==
  /\ TypeOK
  /\ ValidChain(chain)
  /\ PhaseInv
  /\ PendingInv
  /\ OneEventPerTx
  /\ TablesExact
  /\ FailsOnRepeatedEventOnly
-----------------------------------------------------------------------------
(***************************************************************************)
(* What decode_chain_into_events returns.                                  *)
(***************************************************************************)

\* The logs of a chain of blocks: every log of every block once, with the
\* number of its block and its place in it.
LEMMA LogsOfFacts ==
  ASSUME NEW parent \in Nat, NEW blocks \in Seq(Blocks),
         parent + Len(blocks) <= MaxHeight
  PROVE  /\ LogsOf(parent, blocks) \in Seq(Entry)
         /\ ToSet(LogsOf(parent, blocks)) =
              {e \in Entry : /\ e.number - parent \in DOMAIN blocks
                             /\ e.index \in DOMAIN blocks[e.number - parent]
                             /\ e.log = blocks[e.number - parent][e.index]}
         /\ Distinct(LogsOf(parent, blocks))
  <1> DEFINE E(i, k) == [number |-> parent + i, index |-> k, log |-> blocks[i][k]]
             part(i) == [k \in DOMAIN blocks[i] |-> E(i, k)]
             parts == [i \in DOMAIN blocks |-> part(i)]
             all == {e \in Entry : /\ e.number - parent \in DOMAIN blocks
                                   /\ e.index \in DOMAIN blocks[e.number - parent]
                                   /\ e.log = blocks[e.number - parent][e.index]}
  <1>1. /\ Len(blocks) \in Nat /\ DOMAIN blocks = 1 .. Len(blocks)
        /\ MaxHeight \in Nat
        /\ \A i \in DOMAIN blocks : blocks[i] \in Seq(Log)
    BY OpBridgeConstants
  <1>2. ASSUME NEW i \in DOMAIN blocks
        PROVE  /\ Len(blocks[i]) \in Nat /\ DOMAIN blocks[i] = 1 .. Len(blocks[i])
               /\ \A k \in DOMAIN blocks[i] : blocks[i][k] \in Log /\ E(i, k) \in Entry
    <2>1. /\ Len(blocks[i]) \in Nat /\ DOMAIN blocks[i] = 1 .. Len(blocks[i])
          /\ \A k \in DOMAIN blocks[i] : blocks[i][k] \in Log
      BY <1>1
    <2>2. parent + i \in 1 .. MaxHeight
      BY <1>1
    <2>3. \A k \in DOMAIN blocks[i] : k \in Nat \ {0}
      BY <2>1
    <2> QED
      BY <2>1, <2>2, <2>3 DEF Entry
  <1>3. ASSUME NEW i \in DOMAIN blocks
        PROVE  part(i) \in Seq(Entry) /\ DOMAIN part(i) = DOMAIN blocks[i]
    <2> HIDE DEF E
    <2> QED
      BY <1>2
  <1>4. parts \in Seq(Seq(Entry)) /\ DOMAIN parts = DOMAIN blocks
    <2> HIDE DEF part
    <2> QED
      BY <1>1, <1>3
  <1>5. \A i \in DOMAIN blocks : parts[i] = part(i)
    OBVIOUS
  <1>6. ASSUME NEW i \in DOMAIN blocks
        PROVE  /\ Distinct(parts[i])
               /\ ToSet(parts[i]) = {E(i, k) : k \in DOMAIN blocks[i]}
    <2>1. \A k \in DOMAIN blocks[i] : part(i)[k] = E(i, k) /\ E(i, k).index = k
      OBVIOUS
    <2> HIDE DEF E, part
    <2> QED
      BY <2>1, <1>3, <1>5 DEF Distinct, ToSet
  <1>7. ASSUME NEW i \in DOMAIN blocks, NEW j \in DOMAIN blocks, i # j
        PROVE  ToSet(parts[i]) \cap ToSet(parts[j]) = {}
    <2>1. parent + i # parent + j
      BY <1>1, <1>7
    <2>2. \A k, l : E(i, k) # E(j, l)
      BY <2>1
    <2> HIDE DEF E
    <2> QED
      BY <2>2, <1>6
  <1>8. UNION {ToSet(parts[i]) : i \in DOMAIN parts} = all
    <2>1. ASSUME NEW i \in DOMAIN blocks, NEW k \in DOMAIN blocks[i]
          PROVE  E(i, k) \in all
      <3>1. (parent + i) - parent = i
        BY <1>1
      <3> QED
        BY <3>1, <1>2
    <2>2. ASSUME NEW e \in all
          PROVE  \E i \in DOMAIN blocks : \E k \in DOMAIN blocks[i] : e = E(i, k)
      <3>1. e \in Entry /\ e.number \in Nat /\ parent + (e.number - parent) = e.number
        BY <1>1 DEF Entry
      <3>2. e = E(e.number - parent, e.index)
        BY <3>1 DEF Entry
      <3> QED
        BY <3>2
    <2> HIDE DEF E, all, part
    <2>3. ASSUME NEW e
          PROVE  e \in UNION {ToSet(parts[i]) : i \in DOMAIN parts} <=> e \in all
      BY <2>1, <2>2, <1>4, <1>6
    <2> QED
      BY <2>3
  <1>9. LogsOf(parent, blocks) = FlattenSeq(parts)
    BY DEF LogsOf
  <1> HIDE DEF parts, all
  <1>10. /\ FlattenSeq(parts) \in Seq(Entry)
         /\ ToSet(FlattenSeq(parts)) = UNION {ToSet(parts[i]) : i \in DOMAIN parts}
         /\ Distinct(FlattenSeq(parts))
    BY <1>4, <1>6, <1>7, FlattenFacts
  <1> QED
    BY <1>8, <1>9, <1>10 DEF all

\* Of a sequence of logs, the events are those of the bridges that decode.
LEMMA EventsInFacts ==
  ASSUME NEW logs \in Seq(Entry), Distinct(logs)
  PROVE  /\ EventsIn(logs) \in Seq(Entry)
         /\ ToSet(EventsIn(logs)) = {e \in ToSet(logs) : IsBridgeEvent(e.log)}
         /\ Distinct(EventsIn(logs))
  <1> DEFINE n == Len(logs)
             Step(i, s) == IF IsBridgeEvent(logs[i].log) THEN Append(s, logs[i]) ELSE s
             Is(f) == f = [i \in 0 .. n |-> IF i = 0 THEN <<>>
                                             ELSE IF IsBridgeEvent(logs[i].log)
                                                  THEN Append(f[i - 1], logs[i])
                                             ELSE f[i - 1]]
             g == [i \in 1 .. n |-> [s \in Seq(Entry) |-> Step(i, s)]]
  <1>1. n \in Nat /\ DOMAIN logs = 1 .. n /\ <<>> \in Seq(Entry)
        /\ \A i \in 1 .. n : logs[i] \in Entry
    OBVIOUS
  <1>2. \A i \in 1 .. n, s \in Seq(Entry) : Step(i, s) \in Seq(Entry)
    BY <1>1
  <1>3. g \in Steps(n, Seq(Entry)) /\ \A i \in 1 .. n, s \in Seq(Entry) : g[i][s] = Step(i, s)
    <2> HIDE DEF Step, n
    <2> QED
      BY <1>2 DEF Steps
  <1> HIDE DEF g
  <1>4. PICK r : /\ r \in [0 .. n -> Seq(Entry)]
                 /\ r[0] = <<>>
                 /\ \A i \in 1 .. n : r[i] = g[i][r[i - 1]]
    <2> HIDE DEF n
    <2>1. \E r : Computes(r, n, Seq(Entry), <<>>, g)
      BY <1>1, <1>3, Recursion
    <2> QED
      BY <2>1 DEF Computes
  <1>5. \A i \in 1 .. n : i \in 0 .. n /\ i # 0 /\ i - 1 \in 0 .. n
    BY <1>1
  <1>6. \A i \in 1 .. n : r[i] = Step(i, r[i - 1])
    <2> HIDE DEF n, Step
    <2> QED
      BY <1>3, <1>4, <1>5
  <1>7. Is(r)
    <2>1. ASSUME NEW i \in 0 .. n
          PROVE  r[i] = IF i = 0 THEN <<>>
                        ELSE IF IsBridgeEvent(logs[i].log) THEN Append(r[i - 1], logs[i])
                        ELSE r[i - 1]
      <3>1. i = 0 \/ i \in 1 .. n
        BY <1>1
      <3> HIDE DEF n
      <3> QED
        BY <3>1, <1>4, <1>5, <1>6
    <2> HIDE DEF n
    <2> QED
      BY <2>1, <1>4
  <1>8. Is(CHOOSE f : Is(f))
    <2> HIDE DEF Is
    <2> QED
      BY <1>7, Zenon
  <1> DEFINE F == CHOOSE f : Is(f)
  <1>9. EventsIn(logs) = F[n]
    BY DEF EventsIn
  <1> HIDE DEF F
  <1>10. F = [i \in 0 .. n |-> IF i = 0 THEN <<>>
                               ELSE IF IsBridgeEvent(logs[i].log) THEN Append(F[i - 1], logs[i])
                               ELSE F[i - 1]]
    BY <1>8 DEF F
  <1>11. F[0] = <<>> /\ \A i \in 1 .. n : F[i] = Step(i, F[i - 1])
    <2>1. 0 \in 0 .. n
      BY <1>1
    <2> HIDE DEF n
    <2> QED
      BY <2>1, <1>5, <1>10
  <1> DEFINE Kept(i) == {e \in {logs[j] : j \in 1 .. i} : IsBridgeEvent(e.log)}
             T == {i \in 0 .. n : /\ F[i] \in Seq(Entry)
                                  /\ ToSet(F[i]) = Kept(i)
                                  /\ Distinct(F[i])}
  <1>12. 0 \in T
    <2>1. F[0] \in Seq(Entry) /\ ToSet(F[0]) = {} /\ Distinct(F[0]) /\ 1 .. 0 = {}
      BY <1>1, <1>11 DEF ToSet, Distinct
    <2>2. Kept(0) = {}
      BY <2>1
    <2>3. 0 \in 0 .. n
      BY <1>1
    <2> QED
      BY <2>1, <2>2, <2>3
  <1>13. ASSUME NEW i \in 1 .. n, i - 1 \in T
         PROVE  i \in T
    <2>1. /\ F[i - 1] \in Seq(Entry) /\ ToSet(F[i - 1]) = Kept(i - 1) /\ Distinct(F[i - 1])
      BY <1>13
    <2>2. 1 .. i = (1 .. i - 1) \cup {i} /\ 1 .. i \subseteq DOMAIN logs /\ i \notin 1 .. i - 1
      BY <1>1
    <2>3. logs[i] \in Entry /\ F[i] = Step(i, F[i - 1])
      BY <1>1, <1>11
    <2>4. CASE ~IsBridgeEvent(logs[i].log)
      <3>1. F[i] = F[i - 1]
        BY <2>3, <2>4
      <3>2. Kept(i) = Kept(i - 1)
        BY <2>2, <2>4
      <3> QED
        BY <2>1, <3>1, <3>2, <1>5
    <2>5. CASE IsBridgeEvent(logs[i].log)
      <3>1. F[i] = Append(F[i - 1], logs[i])
        BY <2>3, <2>5
      <3>2. F[i] = F[i - 1] \o <<logs[i]>>
        BY <2>1, <2>3, <3>1
      <3>3. <<logs[i]>> \in Seq(Entry) /\ ToSet(<<logs[i]>>) = {logs[i]} /\ Distinct(<<logs[i]>>)
        BY <2>3 DEF ToSet, Distinct
      <3>4. logs[i] \notin Kept(i - 1)
        BY <2>2 DEF Distinct
      <3>5. Kept(i) = Kept(i - 1) \cup {logs[i]}
        BY <2>2, <2>5
      <3>6. Kept(i - 1) \cap {logs[i]} = {}
        BY <3>4
      <3> DEFINE s == F[i - 1]
                 t == <<logs[i]>>
      <3>7. s \in Seq(Entry) /\ t \in Seq(Entry)
        BY <2>1, <3>3
      <3> HIDE DEF Kept, s, t
      <3>8. /\ s \o t \in Seq(Entry)
            /\ ToSet(s \o t) = ToSet(s) \cup ToSet(t)
            /\ Distinct(s) /\ Distinct(t) /\ ToSet(s) \cap ToSet(t) = {} => Distinct(s \o t)
        BY <3>7, ConcatFacts
      <3>9. F[i] \in Seq(Entry) /\ ToSet(F[i]) = Kept(i) /\ Distinct(F[i])
        BY <2>1, <3>2, <3>3, <3>5, <3>6, <3>8 DEF s, t
      <3> QED
        BY <3>9, <1>5
    <2> QED
      BY <2>4, <2>5
  <1>14. 0 .. n \subseteq T
    <2> HIDE DEF T, n
    <2> QED
      BY <1>1, <1>12, <1>13, Induction
  <1>15. F[n] \in Seq(Entry) /\ ToSet(F[n]) = Kept(n) /\ Distinct(F[n])
    <2>1. n \in 0 .. n
      BY <1>1
    <2> QED
      BY <2>1, <1>14
  <1>16. Kept(n) = {e \in ToSet(logs) : IsBridgeEvent(e.log)}
    BY <1>1 DEF ToSet
  <1> QED
    BY <1>9, <1>15, <1>16

\* Every bridge event of the blocks, each once.
LEMMA DecodeFacts ==
  ASSUME NEW parent \in Nat, NEW blocks \in Seq(Blocks),
         parent + Len(blocks) <= MaxHeight
  PROVE  /\ DecodeChainIntoEvents(parent, blocks) \in Seq(Entry)
         /\ ToSet(DecodeChainIntoEvents(parent, blocks)) = EventsOf(parent, blocks)
         /\ Distinct(DecodeChainIntoEvents(parent, blocks))
  <1> DEFINE logs == LogsOf(parent, blocks)
  <1>1. /\ logs \in Seq(Entry) /\ Distinct(logs)
        /\ ToSet(logs) = {e \in Entry : /\ e.number - parent \in DOMAIN blocks
                                        /\ e.index \in DOMAIN blocks[e.number - parent]
                                        /\ e.log = blocks[e.number - parent][e.index]}
    BY LogsOfFacts
  <1> HIDE DEF logs
  <1>2. {e \in ToSet(logs) : IsBridgeEvent(e.log)} = EventsOf(parent, blocks)
    BY <1>1 DEF EventsOf
  <1>3. /\ EventsIn(logs) \in Seq(Entry)
        /\ ToSet(EventsIn(logs)) = {e \in ToSet(logs) : IsBridgeEvent(e.log)}
        /\ Distinct(EventsIn(logs))
    BY <1>1, EventsInFacts
  <1> QED
    BY <1>2, <1>3 DEF DecodeChainIntoEvents, logs
\* The events of a chain are those of its first blocks and those of the others.
LEMMA EventsOfConcat ==
  ASSUME NEW s \in Seq(Blocks), NEW t \in Seq(Blocks)
  PROVE  /\ EventsOf(0, s \o t) = EventsOf(0, s) \cup EventsOf(Len(s), t)
         /\ EventsOf(0, s) \cap EventsOf(Len(s), t) = {}
  <1>1. /\ Len(s) \in Nat /\ Len(t) \in Nat /\ MaxHeight \in Nat
        /\ DOMAIN s = 1 .. Len(s) /\ DOMAIN t = 1 .. Len(t)
        /\ DOMAIN (s \o t) = 1 .. (Len(s) + Len(t))
        /\ \A i \in 1 .. Len(s) : (s \o t)[i] = s[i]
        /\ \A i \in 1 .. Len(s) + Len(t) : i > Len(s) => (s \o t)[i] = t[i - Len(s)]
    BY OpBridgeConstants
  <1>2. ASSUME NEW e \in Entry
        PROVE  /\ e.number \in Nat /\ e.number > 0 /\ e.number - 0 = e.number
               /\ e.number <= Len(s) => e.number \in DOMAIN s /\ e.number \in DOMAIN (s \o t)
                                        /\ (s \o t)[e.number] = s[e.number]
                                        /\ e.number - Len(s) \notin DOMAIN t
               /\ e.number > Len(s) /\ e.number - Len(s) \in DOMAIN t
                    => e.number \in DOMAIN (s \o t) /\ e.number \notin DOMAIN s
                       /\ (s \o t)[e.number] = t[e.number - Len(s)]
               /\ e.number > Len(s) /\ e.number - Len(s) \notin DOMAIN t
                    => e.number \notin DOMAIN (s \o t) /\ e.number \notin DOMAIN s
    <2>1. e.number \in Nat /\ e.number > 0
      BY <1>1 DEF Entry
    <2> QED
      BY <2>1, <1>1
  <1>3. ASSUME NEW e \in Entry
        PROVE  /\ e \in EventsOf(0, s \o t) <=> e \in EventsOf(0, s) \/ e \in EventsOf(Len(s), t)
               /\ ~(e \in EventsOf(0, s) /\ e \in EventsOf(Len(s), t))
    <2>1. CASE e.number <= Len(s)
      BY <2>1, <1>2 DEF EventsOf
    <2>2. CASE e.number > Len(s) /\ e.number - Len(s) \in DOMAIN t
      BY <2>2, <1>2 DEF EventsOf
    <2>3. CASE e.number > Len(s) /\ e.number - Len(s) \notin DOMAIN t
      BY <2>3, <1>2 DEF EventsOf
    <2> QED
      BY <2>1, <2>2, <2>3, <1>1, <1>2
  <1> QED
    BY <1>3 DEF EventsOf

-----------------------------------------------------------------------------
(***************************************************************************)
(* BridgeInv is inductive.                                                 *)
(***************************************************************************)

\* A new database has no rows, and no chain has an event.
LEMMA InitBridge == Init => BridgeInv
  <1> SUFFICES ASSUME Init PROVE BridgeInv
    OBVIOUS
  <1> USE DEF Init
  <1>1. TypeOK
    BY OpBridgeConstants DEF TypeOK
  <1>2. BridgeEvents = {}
    <2>1. ToSet(DecodeChainIntoEvents(0, chain)) = EventsOf(0, chain)
      <3>1. chain \in Seq(Blocks) /\ 0 + Len(chain) <= MaxHeight /\ 0 \in Nat
        BY OpBridgeConstants
      <3> QED
        BY <3>1, DecodeFacts
    <2>2. EventsOf(0, chain) = {}
      BY DEF EventsOf
    <2> QED
      BY <2>1, <2>2 DEF BridgeEvents
  <1>3. ToSet(reverted) = {} /\ ToSet(committed) = {} /\ Distinct(reverted) /\ Distinct(committed)
    BY DEF ToSet, Distinct
  <1>4. Stored = {}
    BY <1>2, <1>3 DEF Stored
  <1>5. TablesExact
    BY <1>2, <1>3 DEF TablesExact, RowsFor
  <1>6. ValidChain(chain) /\ PhaseInv /\ PendingInv /\ OneEventPerTx /\ FailsOnRepeatedEventOnly
    BY <1>2, <1>3, <1>4 DEF ValidChain, PhaseInv, PendingInv, OneEventPerTx, FailsOnRepeatedEventOnly
  <1> QED
    BY <1>1, <1>5, <1>6 DEF BridgeInv

\* The events of the canonical chain, in terms of its blocks.
LEMMA BridgeEventsFacts ==
  ASSUME TypeOK
  PROVE  /\ BridgeEvents = EventsOf(0, chain)
         /\ \A e \in BridgeEvents : e \in Entry /\ IsBridgeEvent(e.log) /\ RowOf(e) \in Row
  <1>1. chain \in Seq(Blocks) /\ 0 + Len(chain) <= MaxHeight /\ 0 \in Nat
    BY DEF TypeOK
  <1>2. BridgeEvents = EventsOf(0, chain)
    BY <1>1, DecodeFacts DEF BridgeEvents
  <1>3. ASSUME NEW e \in Entry, IsBridgeEvent(e.log)
        PROVE  RowOf(e) \in Row
    BY <1>3 DEF Entry, Log, Row, RowOf, IsBridgeEvent
  <1> QED
    BY <1>2, <1>3 DEF EventsOf

\* A notification changes which events are pending, not which are stored.
LEMMA NotifyBridge ==
  ASSUME BridgeInv, NEW parent \in 0 .. Len(chain),
         NEW blocks \in BoundedSeq(Blocks, MaxCommit), Notify(parent, blocks)
  PROVE  BridgeInv'
  <1> DEFINE kept == SubSeq(chain, 1, parent)
             old == SubSeq(chain, parent + 1, Len(chain))
  <1>0. TypeOK /\ PhaseInv /\ OneEventPerTx /\ TablesExact
    BY DEF BridgeInv
  <1>1. /\ chain \in Seq(Blocks) /\ Len(chain) \in Nat /\ Len(chain) <= MaxHeight /\ MaxHeight \in Nat
        /\ parent \in Nat /\ parent <= Len(chain)
    BY <1>0, OpBridgeConstants DEF TypeOK
  <1>2. blocks \in Seq(Blocks) /\ Len(blocks) \in Nat
    <2>1. PICK m \in 0 .. MaxCommit : blocks \in [1 .. m -> Blocks]
      BY DEF BoundedSeq, SeqOf
    <2> QED
      BY <2>1, OpBridgeConstants
  <1>3. /\ kept \in Seq(Blocks) /\ Len(kept) = parent
        /\ old \in Seq(Blocks) /\ Len(old) = Len(chain) - parent
        /\ chain = kept \o old
    <2>1. kept \in Seq(Blocks) /\ Len(kept) = parent
      BY <1>1
    <2>2. old \in Seq(Blocks) /\ Len(old) = Len(chain) - parent
      BY <1>1
    <2>3. kept \o old = SubSeq(chain, 1, Len(chain))
      <3>1. /\ 1 \in 1 .. Len(chain) + 1
            /\ parent \in 1 - 1 .. Len(chain)
            /\ Len(chain) \in parent .. Len(chain)
        BY <1>1
      <3> QED
        BY <3>1, <1>1, ConcatAdjacentSubSeq DEF kept, old
    <2>4. SubSeq(chain, 1, Len(chain)) = chain
      BY <1>1, SubSeqFull
    <2> QED
      BY <2>1, <2>2, <2>3, <2>4
  <1>4. /\ phase = "waiting" /\ phase' = "reverting"
        /\ parent + Len(blocks) <= MaxHeight
        /\ ValidChain(kept \o blocks)
        /\ chain' = kept \o blocks
        /\ reverted' = DecodeChainIntoEvents(parent, old)
        /\ committed' = DecodeChainIntoEvents(parent, blocks)
        /\ tip' = IF blocks = <<>> THEN 0 ELSE parent + Len(blocks)
        /\ UNCHANGED <<table, finished>>
    BY DEF Notify
  <1> HIDE DEF kept, old
  <1>5. /\ reverted' \in Seq(Entry) /\ Distinct(reverted') /\ ToSet(reverted') = EventsOf(parent, old)
        /\ committed' \in Seq(Entry) /\ Distinct(committed')
        /\ ToSet(committed') = EventsOf(parent, blocks)
    <2>1. parent + Len(old) <= MaxHeight
      BY <1>1, <1>3
    <2> QED
      BY <2>1, <1>1, <1>2, <1>3, <1>4, DecodeFacts
  <1>6. TypeOK'
    <2>1. chain' \in Seq(Blocks) /\ Len(chain') = parent + Len(blocks)
      <3>1. kept \o blocks \in Seq(Blocks) /\ Len(kept \o blocks) = parent + Len(blocks)
        BY <1>2, <1>3, ConcatProperties
      <3> QED
        BY <3>1, <1>4
    <2>2. tip' \in 0 .. MaxHeight
      BY <1>1, <1>2, <1>4
    <2> QED
      BY <2>1, <2>2, <1>0, <1>4, <1>5 DEF TypeOK
  <1>7. BridgeEvents = EventsOf(0, kept) \cup EventsOf(parent, old)
        /\ BridgeEvents' = EventsOf(0, kept) \cup EventsOf(parent, blocks)
    <2>1. BridgeEvents = EventsOf(0, kept \o old)
      BY <1>0, <1>3, BridgeEventsFacts
    <2>2. 0 + Len(kept \o blocks) <= MaxHeight /\ kept \o blocks \in Seq(Blocks)
      BY <1>1, <1>2, <1>3, <1>4
    <2>3. BridgeEvents' = EventsOf(0, kept \o blocks)
      BY <2>2, <1>4, DecodeFacts DEF BridgeEvents
    <2> QED
      BY <2>1, <2>3, <1>2, <1>3, EventsOfConcat
  <1>8. /\ EventsOf(0, kept) \cap EventsOf(parent, old) = {}
        /\ EventsOf(0, kept) \cap EventsOf(parent, blocks) = {}
    BY <1>2, <1>3, EventsOfConcat
  <1>9. ToSet(committed) = {} /\ ToSet(reverted) = {}
    <2>1. committed = <<>> /\ reverted = <<>>
      BY <1>0, <1>4 DEF PhaseInv
    <2> QED
      BY <2>1 DEF ToSet
  <1>10. (BridgeEvents' \ ToSet(committed')) \cup ToSet(reverted')
           = (BridgeEvents \ ToSet(committed)) \cup ToSet(reverted)
    BY <1>5, <1>7, <1>8, <1>9
  <1>11. PhaseInv'
    <2>1. ASSUME tip' = 0
          PROVE  committed' = <<>>
      <3>1. blocks = <<>>
        BY <2>1, <1>1, <1>2, <1>4
      <3>2. ToSet(committed') = {}
        BY <3>1, <1>5 DEF EventsOf
      <3>3. DOMAIN committed' = {}
        BY <3>2 DEF ToSet
      <3> QED
        BY <3>3, <1>5
    <2> QED
      BY <2>1, <1>4 DEF PhaseInv
  <1>12. PendingInv'
    BY <1>5, <1>7, <1>8 DEF PendingInv
  <1>13. OneEventPerTx'
    BY <1>0, <1>10 DEF OneEventPerTx, Stored
  <1>14. TablesExact'
    BY <1>0, <1>4, <1>10 DEF TablesExact
  <1>15. ValidChain(chain)' /\ FailsOnRepeatedEventOnly'
    BY <1>4 DEF FailsOnRepeatedEventOnly
  <1> QED
    BY <1>6, <1>11, <1>12, <1>13, <1>14, <1>15 DEF BridgeInv
\* Each stored event has a table, and only one kind of event goes to a table.
LEMMA TableOfFacts ==
  /\ \A e : IsStored(e) => TableOf[e.log.event] \in Tables
  /\ \A e, f : IsStored(e) /\ IsStored(f) /\ TableOf[e.log.event] = TableOf[f.log.event]
                 => e.log.event = f.log.event
  BY DEF IsStored, TableOf, Tables

\* The rows of a set of events, one event less or more.
LEMMA RowsForFacts ==
  ASSUME NEW S, NEW e, NEW t
  PROVE  /\ RowsFor(t, S \cup {e}) =
              IF IsStored(e) /\ TableOf[e.log.event] = t
              THEN RowsFor(t, S) \cup {RowOf(e)} ELSE RowsFor(t, S)
         /\ ~(IsStored(e) /\ TableOf[e.log.event] = t) => RowsFor(t, S \ {e}) = RowsFor(t, S)
  BY DEF RowsFor

\* A deletion by transaction removes the row of the event and no other.
LEMMA DeleteFacts ==
  ASSUME BridgeInv, NEW e \in Stored, IsStored(e)
  PROVE  LET t == TableOf[e.log.event]
         IN  {row \in table[t] : row.tx_hash # e.log.tx} = RowsFor(t, Stored \ {e})
  <1> DEFINE t == TableOf[e.log.event]
  <1>1. t \in Tables
    BY TableOfFacts
  <1>2. table[t] = RowsFor(t, Stored)
    BY <1>1 DEF BridgeInv, TablesExact, Stored
  <1>3. \A f \in Stored : IsStored(f) /\ TableOf[f.log.event] = t /\ f.log.tx = e.log.tx => f = e
    BY TableOfFacts DEF BridgeInv, OneEventPerTx
  <1>4. \A f : RowOf(f).tx_hash = f.log.tx
    BY DEF RowOf
  <1> HIDE DEF t
  <1>5. {row \in RowsFor(t, Stored) : row.tx_hash # e.log.tx} = RowsFor(t, Stored \ {e})
    BY <1>3, <1>4 DEF RowsFor
  <1> QED
    BY <1>2, <1>5 DEF t

\* Deleting the row of a reverted event.
LEMMA RevertEventBridge ==
  ASSUME BridgeInv, RevertEvent
  PROVE  BridgeInv'
  <1> DEFINE e == Head(reverted)
             S == Stored
  <1>0. /\ TypeOK /\ ValidChain(chain) /\ PhaseInv /\ PendingInv /\ OneEventPerTx
        /\ \A t \in Tables : table[t] = RowsFor(t, Stored)
    BY DEF BridgeInv, TablesExact, Stored
  <1>1. /\ phase = "reverting" /\ reverted # <<>> /\ reverted' = Tail(reverted)
        /\ UNCHANGED <<chain, phase, committed, tip, finished>>
        /\ IF IsStored(e) THEN Delete(e) ELSE UNCHANGED table
    BY DEF RevertEvent
  <1>2. reverted \in Seq(Entry) /\ Distinct(reverted)
    BY <1>0 DEF TypeOK, PendingInv
  <1>3. /\ e \in Entry /\ e \in ToSet(reverted)
        /\ reverted' \in Seq(Entry) /\ Distinct(reverted')
        /\ ToSet(reverted') = ToSet(reverted) \ {e}
    BY <1>1, <1>2, HeadTailFacts
  <1> HIDE DEF e
  <1>4. BridgeEvents' = BridgeEvents /\ committed' = committed /\ ToSet(committed') = ToSet(committed)
    BY <1>1 DEF BridgeEvents
  <1>5. e \in S /\ Stored' = S \ {e}
    <2>1. e \notin BridgeEvents \ ToSet(committed)
      BY <1>0, <1>3 DEF PendingInv
    <2> QED
      BY <2>1, <1>3, <1>4 DEF Stored
  <1> HIDE DEF S
  <1>6. table' \in [Tables -> SUBSET Row] /\ \A t \in Tables : table'[t] = RowsFor(t, S \ {e})
    <2>1. table \in [Tables -> SUBSET Row]
      BY <1>0 DEF TypeOK
    <2>2. CASE IsStored(e)
      <3> DEFINE u == TableOf[e.log.event]
                 left == {row \in table[u] : row.tx_hash # e.log.tx}
      <3>1. table' = [table EXCEPT ![u] = left]
        BY <1>1, <2>2 DEF Delete
      <3>2. u \in Tables /\ left = RowsFor(u, S \ {e})
        BY <2>2, <1>5, TableOfFacts, DeleteFacts DEF S
      <3>3. left \in SUBSET Row
        BY <2>1, <3>2
      <3>4. \A t \in Tables : t # u => RowsFor(t, S \ {e}) = RowsFor(t, S)
        BY RowsForFacts
      <3> HIDE DEF u, left
      <3> QED
        BY <2>1, <3>1, <3>2, <3>3, <3>4, <1>0 DEF S
    <2>3. CASE ~IsStored(e)
      <3>1. table' = table
        BY <1>1, <2>3
      <3>2. \A t \in Tables : RowsFor(t, S \ {e}) = RowsFor(t, S)
        BY <2>3, RowsForFacts
      <3> QED
        BY <2>1, <3>1, <3>2, <1>0 DEF S
    <2> QED
      BY <2>2, <2>3
  <1>7. TypeOK'
    BY <1>0, <1>1, <1>3, <1>6 DEF TypeOK
  <1>8. PhaseInv'
    BY <1>0, <1>1 DEF PhaseInv
  <1>9. PendingInv'
    BY <1>0, <1>3, <1>4 DEF PendingInv
  <1>10. OneEventPerTx'
    BY <1>0, <1>5 DEF OneEventPerTx, S
  <1>11. TablesExact'
    BY <1>5, <1>6 DEF TablesExact, Stored
  <1>12. ValidChain(chain') /\ FailsOnRepeatedEventOnly'
    BY <1>0, <1>1 DEF FailsOnRepeatedEventOnly
  <1> QED
    BY <1>7, <1>8, <1>9, <1>10, <1>11, <1>12 DEF BridgeInv

\* Inserting the row of a committed event, whose transaction has no row yet.
LEMMA CommitEventBridge ==
  ASSUME BridgeInv, CommitEvent \/ CommitOther
  PROVE  BridgeInv'
  <1> DEFINE e == Head(committed)
             S == Stored
  <1>0. /\ TypeOK /\ ValidChain(chain) /\ PhaseInv /\ PendingInv /\ OneEventPerTx
        /\ \A t \in Tables : table[t] = RowsFor(t, Stored)
    BY DEF BridgeInv, TablesExact, Stored
  <1>1. /\ phase = "committing" /\ committed # <<>> /\ committed' = Tail(committed)
        /\ UNCHANGED <<chain, phase, reverted, tip, finished>>
        /\ \/ /\ IsStored(e)
              /\ ~Taken(TableOf[e.log.event], e.log.tx)
              /\ table' = [table EXCEPT ![TableOf[e.log.event]] = @ \cup {RowOf(e)}]
           \/ ~IsStored(e) /\ UNCHANGED table
    BY DEF CommitEvent, CommitOther
  <1>2. committed \in Seq(Entry) /\ Distinct(committed) /\ ToSet(committed) \subseteq BridgeEvents
    BY <1>0 DEF TypeOK, PendingInv
  <1>3. /\ e \in Entry /\ e \in ToSet(committed)
        /\ committed' \in Seq(Entry) /\ Distinct(committed')
        /\ ToSet(committed') = ToSet(committed) \ {e}
    BY <1>1, <1>2, HeadTailFacts
  <1> HIDE DEF e
  <1>4. /\ BridgeEvents' = BridgeEvents /\ e \in BridgeEvents
        /\ reverted = <<>> /\ reverted' = <<>> /\ ToSet(reverted) = {} /\ ToSet(reverted') = {}
    <2>1. BridgeEvents' = BridgeEvents /\ reverted = <<>> /\ reverted' = <<>>
      BY <1>0, <1>1 DEF BridgeEvents, PhaseInv
    <2> QED
      BY <2>1, <1>2, <1>3 DEF ToSet
  <1>5. Stored' = S \cup {e}
    BY <1>2, <1>3, <1>4 DEF Stored
  <1> HIDE DEF S
  <1>6. IsStored(e) => \A f \in S : IsStored(f) /\ f.log.event = e.log.event => f.log.tx # e.log.tx
    <2> SUFFICES ASSUME IsStored(e), NEW f \in S, IsStored(f), f.log.event = e.log.event,
                        f.log.tx = e.log.tx
                 PROVE  FALSE
      OBVIOUS
    <2> DEFINE u == TableOf[e.log.event]
    <2>1. u \in Tables /\ TableOf[f.log.event] = u
      BY TableOfFacts
    <2> HIDE DEF u
    <2>2. RowOf(f) \in RowsFor(u, S)
      BY <2>1 DEF RowsFor
    <2>3. RowOf(f) \in table[u] /\ RowOf(f).tx_hash = e.log.tx
      BY <2>1, <2>2, <1>0 DEF RowOf, S
    <2> QED
      BY <2>3, <1>1 DEF Taken, u
  <1>7. table' \in [Tables -> SUBSET Row] /\ \A t \in Tables : table'[t] = RowsFor(t, S \cup {e})
    <2>1. table \in [Tables -> SUBSET Row]
      BY <1>0 DEF TypeOK
    <2>2. RowOf(e) \in Row
      BY <1>0, <1>4, BridgeEventsFacts
    <2>3. CASE IsStored(e)
      <3> DEFINE u == TableOf[e.log.event]
      <3>1. table' = [table EXCEPT ![u] = @ \cup {RowOf(e)}]
        BY <1>1, <2>3
      <3>2. u \in Tables
        BY <2>3, TableOfFacts
      <3>3. \A t \in Tables : RowsFor(t, S \cup {e}) =
              IF t = u THEN RowsFor(t, S) \cup {RowOf(e)} ELSE RowsFor(t, S)
        BY <2>3, RowsForFacts
      <3> HIDE DEF u
      <3> QED
        BY <2>1, <2>2, <3>1, <3>2, <3>3, <1>0 DEF S
    <2>4. CASE ~IsStored(e)
      <3>1. table' = table
        BY <1>1, <2>4
      <3>2. \A t \in Tables : RowsFor(t, S \cup {e}) = RowsFor(t, S)
        BY <2>4, RowsForFacts
      <3> QED
        BY <2>1, <3>1, <3>2, <1>0 DEF S
    <2> QED
      BY <2>3, <2>4
  <1>8. TypeOK'
    BY <1>0, <1>1, <1>3, <1>7 DEF TypeOK
  <1>9. PhaseInv'
    <2>1. tip # 0
      BY <1>0, <1>1 DEF PhaseInv
    <2> QED
      BY <2>1, <1>1, <1>4 DEF PhaseInv
  <1>10. PendingInv'
    BY <1>0, <1>1, <1>2, <1>3, <1>4 DEF PendingInv, Distinct
  <1>11. OneEventPerTx'
    <2> SUFFICES ASSUME NEW f \in S \cup {e}, NEW g \in S \cup {e}, IsStored(f),
                        f.log.event = g.log.event, f.log.tx = g.log.tx
                 PROVE  f = g
      BY <1>5 DEF OneEventPerTx
    <2>1. IsStored(g)
      BY DEF IsStored
    <2> QED
      BY <2>1, <1>0, <1>6 DEF OneEventPerTx, S
  <1>12. TablesExact'
    BY <1>5, <1>7 DEF TablesExact, Stored
  <1>13. ValidChain(chain') /\ FailsOnRepeatedEventOnly'
    BY <1>0, <1>1 DEF FailsOnRepeatedEventOnly
  <1> QED
    BY <1>8, <1>9, <1>10, <1>11, <1>12, <1>13 DEF BridgeInv

\* A failed insertion: the row that is in its way is of the same transaction,
\* which is in one block of the chain only.
LEMMA CommitFailsBridge ==
  ASSUME BridgeInv, CommitFails
  PROVE  BridgeInv'
  <1> DEFINE e == Head(committed)
  <1>0. /\ TypeOK /\ ValidChain(chain) /\ PhaseInv /\ PendingInv /\ OneEventPerTx /\ TablesExact
        /\ \A t \in Tables : table[t] = RowsFor(t, Stored)
    BY DEF BridgeInv, TablesExact, Stored
  <1>1. /\ phase = "committing" /\ phase' = "failed" /\ committed # <<>>
        /\ IsStored(e) /\ Taken(TableOf[e.log.event], e.log.tx)
        /\ UNCHANGED <<chain, reverted, committed, tip, table, finished>>
    BY DEF CommitFails
  <1>2. committed \in Seq(Entry) /\ Distinct(committed) /\ ToSet(committed) \subseteq BridgeEvents
    BY <1>0 DEF TypeOK, PendingInv
  <1>3. e \in Entry /\ e \in BridgeEvents
    <2>1. e \in Entry /\ e \in ToSet(committed)
      BY <1>1, <1>2, HeadTailFacts
    <2> QED
      BY <2>1, <1>2
  <1>4. BridgeEvents' = BridgeEvents /\ Stored' = Stored /\ ToSet(reverted) = {}
        /\ Head(committed)' = e
    <2>1. reverted = <<>>
      BY <1>0, <1>1 DEF PhaseInv
    <2> QED
      BY <2>1, <1>1 DEF BridgeEvents, Stored, ToSet
  <1> HIDE DEF e
  <1>5. PICK f \in BridgeEvents \ ToSet(committed) :
          IsStored(f) /\ f.log.event = e.log.event /\ f.log.tx = e.log.tx
    <2> DEFINE u == TableOf[e.log.event]
    <2>1. u \in Tables
      BY <1>1, TableOfFacts
    <2> HIDE DEF u
    <2>2. PICK row \in RowsFor(u, Stored) : row.tx_hash = e.log.tx
      BY <2>1, <1>0, <1>1 DEF Taken, u
    <2>3. PICK f \in Stored : IsStored(f) /\ TableOf[f.log.event] = u /\ row = RowOf(f)
      BY <2>2 DEF RowsFor
    <2>4. f.log.tx = e.log.tx
      BY <2>2, <2>3 DEF RowOf
    <2>5. f.log.event = e.log.event
      BY <2>3, <1>1, TableOfFacts DEF u
    <2>6. f \in BridgeEvents \ ToSet(committed)
      BY <2>3, <1>4 DEF Stored
    <2> QED
      BY <2>3, <2>4, <2>5, <2>6
  <1>6. f.number = e.number
    <2>1. \A g \in BridgeEvents : /\ g.number \in DOMAIN chain
                                  /\ g.log.tx \in TxsOf(chain[g.number])
      <3>1. \A g \in Entry : g.number \in Nat /\ g.number - 0 = g.number
        BY OpBridgeConstants DEF Entry
      <3>2. BridgeEvents = EventsOf(0, chain)
        BY <1>0, BridgeEventsFacts
      <3> QED
        BY <3>1, <3>2 DEF EventsOf, TxsOf
    <2> QED
      BY <2>1, <1>0, <1>3, <1>5 DEF ValidChain
  <1>7. FailsOnRepeatedEventOnly'
    BY <1>1, <1>4, <1>5, <1>6 DEF FailsOnRepeatedEventOnly
  <1>8. TypeOK' /\ PhaseInv'
    BY <1>0, <1>1 DEF TypeOK, PhaseInv
  <1>9. PendingInv' /\ OneEventPerTx'
    BY <1>0, <1>1, <1>4 DEF PendingInv, OneEventPerTx
  <1>10. TablesExact'
    BY <1>0, <1>1, <1>4 DEF TablesExact
  <1>11. ValidChain(chain')
    BY <1>0, <1>1
  <1> QED
    BY <1>7, <1>8, <1>9, <1>10, <1>11 DEF BridgeInv

\* The end of the reverted chain, or of the notification.
LEMMA DoneBridge ==
  ASSUME BridgeInv, RevertDone \/ NotificationDone
  PROVE  BridgeInv'
  <1>0. /\ TypeOK /\ ValidChain(chain) /\ PhaseInv /\ PendingInv /\ OneEventPerTx /\ TablesExact
    BY DEF BridgeInv
  <1>1. /\ UNCHANGED <<chain, reverted, committed, tip, table>>
        /\ \/ /\ phase = "reverting" /\ reverted = <<>> /\ finished' = finished
              /\ phase' = IF tip > 0 THEN "committing" ELSE "waiting"
           \/ /\ phase = "committing" /\ committed = <<>> /\ finished' = tip
              /\ phase' = "waiting"
    BY DEF RevertDone, NotificationDone
  <1>2. tip \in Nat
    BY <1>0, OpBridgeConstants DEF TypeOK
  <1>3. BridgeEvents' = BridgeEvents /\ Stored' = Stored
    BY <1>1 DEF BridgeEvents, Stored
  <1>4. TypeOK' /\ PhaseInv'
    BY <1>0, <1>1, <1>2 DEF TypeOK, PhaseInv
  <1>5. PendingInv' /\ OneEventPerTx'
    BY <1>0, <1>1, <1>3 DEF PendingInv, OneEventPerTx
  <1>6. TablesExact'
    BY <1>0, <1>1, <1>3 DEF TablesExact
  <1>7. ValidChain(chain') /\ FailsOnRepeatedEventOnly'
    BY <1>0, <1>1 DEF FailsOnRepeatedEventOnly
  <1> QED
    BY <1>4, <1>5, <1>6, <1>7 DEF BridgeInv

\* Every step of the ExEx preserves the invariant.
LEMMA NextBridge == BridgeInv /\ [Next]_vars => BridgeInv'
  <1> SUFFICES ASSUME BridgeInv, [Next]_vars
               PROVE  BridgeInv'
    OBVIOUS
  <1>1. ASSUME NEW parent \in 0 .. Len(chain), NEW blocks \in BoundedSeq(Blocks, MaxCommit),
               Notify(parent, blocks)
        PROVE  BridgeInv'
    BY <1>1, NotifyBridge
  <1>2. CASE RevertEvent
    BY <1>2, RevertEventBridge
  <1>3. CASE RevertDone \/ NotificationDone
    BY <1>3, DoneBridge
  <1>4. CASE CommitEvent \/ CommitOther
    BY <1>4, CommitEventBridge
  <1>5. CASE CommitFails
    BY <1>5, CommitFailsBridge
  <1>6. CASE UNCHANGED vars
    BY <1>6 DEF vars, BridgeInv, TypeOK, PhaseInv, PendingInv, OneEventPerTx, Stored,
                TablesExact, FailsOnRepeatedEventOnly, BridgeEvents
  <1> QED
    BY <1>1, <1>2, <1>3, <1>4, <1>5, <1>6 DEF Next

LEMMA SpecBridge == Spec => []BridgeInv
  <1> QED
    BY InitBridge, NextBridge, PTL DEF Spec

-----------------------------------------------------------------------------
(***************************************************************************)
(* The theorems.                                                           *)
(***************************************************************************)

\* Every row is one of a bridge event, and the ExEx is always in one of its
\* four phases.
THEOREM BridgeTypeCorrect == Spec => []TypeOK
  <1>1. BridgeInv => TypeOK
    BY DEF BridgeInv
  <1> QED
    BY <1>1, SpecBridge, PTL

\* The deposits and withdrawals tables are the bridge events of the canonical
\* chain, but for those that the notification at hand has not come to, whatever
\* is reorganised.
THEOREM TablesCorrect == Spec => []TablesExact
  <1>1. BridgeInv => TablesExact
    BY DEF BridgeInv
  <1> QED
    BY <1>1, SpecBridge, PTL

\* The UNIQUE constraint on tx_hash is violated only by a transaction with two
\* bridge events of one kind, never by a reorg.
THEOREM InsertionsCorrect == Spec => []FailsOnRepeatedEventOnly
  <1>1. BridgeInv => FailsOnRepeatedEventOnly
    BY DEF BridgeInv
  <1> QED
    BY <1>1, SpecBridge, PTL

\* When FinishedHeight is sent, every bridge event up to it is in its table.
THEOREM FinishedCorrect == Spec => FinishedEventsStored
  <1> DEFINE Sent == finished' # finished =>
                       \A e \in BridgeEvents :
                         e.number <= finished' /\ IsStored(e) =>
                           RowOf(e) \in table[TableOf[e.log.event]]
  <1>1. BridgeInv /\ [Next]_vars => [Sent]_vars
    <2> SUFFICES ASSUME BridgeInv, Next, finished' # finished,
                        NEW e \in BridgeEvents, IsStored(e)
                 PROVE  RowOf(e) \in table[TableOf[e.log.event]]
      OBVIOUS
    <2>1. phase = "committing" /\ committed = <<>>
      BY DEF Next, Notify, RevertEvent, RevertDone, CommitEvent, CommitFails, CommitOther,
             NotificationDone
    <2>2. reverted = <<>>
      BY <2>1 DEF BridgeInv, PhaseInv
    <2>3. e \in (BridgeEvents \ ToSet(committed)) \cup ToSet(reverted)
      BY <2>1, <2>2 DEF ToSet
    <2>4. TableOf[e.log.event] \in Tables
      BY TableOfFacts
    <2> QED
      BY <2>3, <2>4 DEF BridgeInv, TablesExact, RowsFor
  <1> QED
    BY <1>1, SpecBridge, PTL DEF Spec, FinishedEventsStored
=============================================================================
