------------------------- MODULE OracleGossipProofs --------------------------
(***************************************************************************)
(* The oracle's gossip for any tickers, any requests, any capacity of the  *)
(* broadcast channel and any length of the feeds.                          *)
(***************************************************************************)
EXTENDS OracleGossip, FiniteSetTheorems, SequenceTheorems, TLAPS

-----------------------------------------------------------------------------
(***************************************************************************)
(* Sequences: their elements and how often each occurs.                    *)
(***************************************************************************)

\* A sequence is made of its elements.
LEMMA ElementsType ==
  ASSUME NEW A, NEW s \in Seq(A)
  PROVE  ToSet(s) \subseteq A
  BY ElementOfSeq, LenProperties DEF ToSet

\* An element more at the end.
LEMMA AppendFacts ==
  ASSUME NEW A, NEW s \in Seq(A), NEW y \in A
  PROVE  /\ Append(s, y) \in Seq(A)
         /\ Len(Append(s, y)) = Len(s) + 1
         /\ ToSet(Append(s, y)) = ToSet(s) \cup {y}
         /\ \A x : /\ Count(s, x) \in Nat
                   /\ Count(Append(s, y), x) =
                        IF y = x THEN Count(s, x) + 1 ELSE Count(s, x)
  <1> DEFINE t == Append(s, y)
             n == Len(s)
  <1>1. /\ n \in Nat /\ t \in Seq(A) /\ Len(t) = n + 1
        /\ DOMAIN s = 1 .. n /\ DOMAIN t = 1 .. n + 1
        /\ \A i \in 1 .. n : t[i] = s[i]
        /\ t[n + 1] = y
    BY AppendProperties, LenProperties
  <1> HIDE DEF t, n
  <1>2. 1 .. n + 1 = (1 .. n) \cup {n + 1} /\ n + 1 \notin 1 .. n
    BY <1>1
  <1>3. ToSet(t) = ToSet(s) \cup {y}
    BY <1>1, <1>2 DEF ToSet
  <1>4. ASSUME NEW x
        PROVE  /\ Count(s, x) \in Nat
               /\ Count(t, x) = IF y = x THEN Count(s, x) + 1 ELSE Count(s, x)
    <2> DEFINE S == {i \in DOMAIN s : s[i] = x}
               T == {i \in DOMAIN t : t[i] = x}
    <2>1. IsFiniteSet(S)
      <3>1. IsFiniteSet(1 .. n)
        BY <1>1, FS_Interval
      <3> QED
        BY <1>1, <3>1, FS_Subset
    <2>2. T = IF y = x THEN S \cup {n + 1} ELSE S
      BY <1>1, <1>2
    <2>3. n + 1 \notin S
      BY <1>1, <1>2
    <2> HIDE DEF S, T
    <2>4. Cardinality(S) \in Nat
      BY <2>1, FS_CardinalityType
    <2>5. Cardinality(S \cup {n + 1}) = Cardinality(S) + 1
      BY <2>1, <2>3, FS_AddElement
    <2>6. Cardinality(T) = IF y = x THEN Cardinality(S) + 1 ELSE Cardinality(S)
      BY <2>2, <2>5
    <2> QED
      BY <2>4, <2>6 DEF Count, S, T
  <1> QED
    BY <1>1, <1>3, <1>4 DEF t, n

\* The first element taken away.
LEMMA TailFacts ==
  ASSUME NEW A, NEW s \in Seq(A), s # <<>>
  PROVE  /\ Head(s) \in A /\ Tail(s) \in Seq(A)
         /\ Len(Tail(s)) = Len(s) - 1
         /\ ToSet(s) = {Head(s)} \cup ToSet(Tail(s))
         /\ \A x : /\ Count(Tail(s), x) \in Nat
                   /\ Count(s, x) = IF Head(s) = x THEN Count(Tail(s), x) + 1
                                    ELSE Count(Tail(s), x)
  <1> DEFINE t == Tail(s)
             n == Len(t)
  <1>1. /\ n \in Nat /\ t \in Seq(A) /\ Len(s) = n + 1 /\ Head(s) = s[1]
        /\ DOMAIN s = 1 .. n + 1 /\ DOMAIN t = 1 .. n
        /\ \A i \in 1 .. n : t[i] = s[i + 1]
        /\ s[1] \in A
    <2>1. Len(s) \in Nat \ {0} /\ DOMAIN s = 1 .. Len(s)
      BY EmptySeq, LenProperties
    <2>2. /\ t \in Seq(A) /\ Len(t) = Len(s) - 1
          /\ \A i \in 1 .. Len(t) : t[i] = s[i + 1]
      BY HeadTailProperties
    <2>3. DOMAIN t = 1 .. Len(t)
      BY <2>2, LenProperties
    <2>4. Head(s) = s[1] /\ s[1] \in A
      BY <2>1, ElementOfSeq
    <2> QED
      BY <2>1, <2>2, <2>3, <2>4
  <1> HIDE DEF t, n
  <1>2. \A j \in 1 .. n + 1 : j = 1 \/ (j - 1 \in 1 .. n /\ (j - 1) + 1 = j)
    BY <1>1
  <1>3. 1 \in 1 .. n + 1 /\ \A i \in 1 .. n : i + 1 \in 1 .. n + 1 /\ i + 1 # 1
    BY <1>1
  <1>4. ToSet(s) = {Head(s)} \cup ToSet(t)
    <2>1. ASSUME NEW j \in DOMAIN s, j # 1
          PROVE  s[j] \in ToSet(t)
      <3>1. j - 1 \in 1 .. n /\ (j - 1) + 1 = j
        BY <1>1, <1>2, <2>1
      <3>2. t[j - 1] = s[j]
        BY <1>1, <3>1
      <3> QED
        BY <1>1, <3>1, <3>2 DEF ToSet
    <2>2. Head(s) \in ToSet(s) /\ \A i \in DOMAIN t : t[i] \in ToSet(s)
      BY <1>1, <1>3 DEF ToSet
    <2> QED
      BY <1>1, <2>1, <2>2 DEF ToSet
  <1>5. ASSUME NEW x
        PROVE  /\ Count(t, x) \in Nat
               /\ Count(s, x) = IF Head(s) = x THEN Count(t, x) + 1 ELSE Count(t, x)
    <2> DEFINE T == {i \in DOMAIN t : t[i] = x}
               U == {i \in DOMAIN s : s[i] = x /\ i # 1}
               S == {i \in DOMAIN s : s[i] = x}
               shift == [i \in T |-> i + 1]
    <2>1. IsFiniteSet(T)
      <3>1. IsFiniteSet(1 .. n)
        BY <1>1, FS_Interval
      <3> QED
        BY <1>1, <3>1, FS_Subset
    <2>2. ExistsBijection(T, U)
      <3>1. \A i \in T : i \in 1 .. n /\ i \in Nat /\ i + 1 \in U
        BY <1>1, <1>3
      <3>2. \A j \in U : \E i \in T : i + 1 = j
        BY <1>1, <1>2
      <3> HIDE DEF T, U
      <3>3. shift \in [T -> U] /\ \A i \in T : shift[i] = i + 1
        BY <3>1
      <3>4. \A i, j \in T : shift[i] = shift[j] => i = j
        BY <3>1, <3>3
      <3> HIDE DEF shift
      <3>5. shift \in Bijection(T, U)
        BY <3>2, <3>3, <3>4 DEF Bijection, Injection, Surjection, IsInjective
      <3> QED
        BY <3>5 DEF ExistsBijection
    <2>3. IsFiniteSet(U) /\ Cardinality(U) = Cardinality(T)
      BY <2>1, <2>2, FS_Bijection
    <2>4. S = (IF Head(s) = x THEN U \cup {1} ELSE U) /\ 1 \notin U
      BY <1>1, <1>3
    <2> HIDE DEF S, T, U
    <2>5. Cardinality(T) \in Nat
      BY <2>1, FS_CardinalityType
    <2>6. Cardinality(U \cup {1}) = Cardinality(U) + 1
      BY <2>3, <2>4, FS_AddElement
    <2>7. Cardinality(S) = IF Head(s) = x THEN Cardinality(T) + 1 ELSE Cardinality(T)
      BY <2>3, <2>4, <2>6
    <2> QED
      BY <2>5, <2>7 DEF Count, S, T
  <1> QED
    BY <1>1, <1>4, <1>5 DEF t, n

\* Nothing occurs in the empty sequence.
LEMMA EmptyFacts ==
  /\ ToSet(<<>>) = {}
  /\ \A x : Count(<<>>, x) = 0
  <1>1. \A x : {i \in DOMAIN <<>> : <<>>[i] = x} = {}
    OBVIOUS
  <1> QED
    BY <1>1, FS_EmptySet DEF Count, ToSet
-----------------------------------------------------------------------------
(***************************************************************************)
(* The two ends and the messages between them.                             *)
(***************************************************************************)

\* A session has two ends.
LEMMA OtherFacts ==
  ASSUME NEW p \in Peers
  PROVE  /\ Other(p) \in Peers /\ Other(p) # p
         /\ \A q \in Peers : q # p => q = Other(p)
         /\ Other(Other(p)) = p
  <1>1. PICK listener \in Peers \ {Dialer} : Peers = {Dialer, listener}
    BY GossipConstants
  <1>2. \A q \in Peers : Other(q) \in Peers /\ Other(q) # q
    BY <1>1 DEF Other
  <1> QED
    BY <1>1, <1>2

\* What each kind of message is on the wire.
LEMMA EncodedTypes ==
  /\ Encoded("Ping", None) \in Encodings
  /\ Encoded("Pong", None) \in Encodings
  /\ \A d \in Signed : Encoded("SignedTicker", d) \in Encodings
  /\ \A d \in Lists : Encoded("Attestations", d) \in Encodings
  BY DEF Encoded, Encodings, MessageId

\* A message is decoded as what it was encoded as.
LEMMA DecodedFacts ==
  ASSUME NEW m \in Encodings
  PROVE  /\ Decoded(m) = "SignedTicker" => m.id = 2 /\ m.data \in Signed
         /\ Decoded(m) = "Attestations" => m.id = 3 /\ m.data \in Lists
         /\ Decoded(m) \in {"Ping", "Pong"} => m.id \in {0, 1}
  <1>1. m.id \in 0 .. 3
    BY DEF Encodings
  <1>2. DOMAIN MessageId = {"Ping", "Pong", "SignedTicker", "Attestations"}
    BY DEF MessageId
  <1>3. \E kind \in DOMAIN MessageId : MessageId[kind] = m.id
    <2>1. m.id = 0 \/ m.id = 1 \/ m.id = 2 \/ m.id = 3
      BY <1>1
    <2> QED
      BY <1>2, <2>1 DEF MessageId
  <1>4. Decoded(m) \in DOMAIN MessageId /\ MessageId[Decoded(m)] = m.id
    BY <1>3 DEF Decoded
  <1>5. /\ MessageId["Ping"] = 0 /\ MessageId["Pong"] = 1
        /\ MessageId["SignedTicker"] = 2 /\ MessageId["Attestations"] = 3
    BY DEF MessageId
  <1>6. /\ Decoded(m) = "SignedTicker" => m.id = 2
        /\ Decoded(m) = "Attestations" => m.id = 3
        /\ Decoded(m) \in {"Ping", "Pong"} => m.id \in {0, 1}
    BY <1>4, <1>5
  <1>7. /\ m.id = 2 => m.data \in Signed
        /\ m.id = 3 => m.data \in Lists
    BY DEF Encodings
  <1> QED
    BY <1>6, <1>7

\* A sent message is one more at the end of what is under way to q.
LEMMA SentFacts ==
  ASSUME NEW w \in [Peers -> Seq(Encodings)], NEW q \in Peers, NEW kind, NEW d,
         Encoded(kind, d) \in Encodings
  PROVE  /\ Sent(w, q, kind, d) \in [Peers -> Seq(Encodings)]
         /\ Sent(w, q, kind, d)[q] = Append(w[q], Encoded(kind, d))
         /\ \A p \in Peers : p # q => Sent(w, q, kind, d)[p] = w[p]
  <1>1. Append(w[q], Encoded(kind, d)) \in Seq(Encodings)
    BY AppendProperties
  <1> QED
    BY <1>1 DEF Sent

\* A message that is handled was the first one under way to p.
LEMMA TakenFacts ==
  ASSUME TypeOK, NEW p \in Peers, wire[p] # <<>>
  PROVE  /\ Head(wire[p]) \in Encodings
         /\ Taken(p) \in [Peers -> Seq(Encodings)]
         /\ Taken(p)[p] = Tail(wire[p])
         /\ \A q \in Peers : q # p => Taken(p)[q] = wire[q]
  <1>1. wire \in [Peers -> Seq(Encodings)]
    BY DEF TypeOK
  <1>2. Head(wire[p]) \in Encodings /\ Tail(wire[p]) \in Seq(Encodings)
    BY <1>1, TailFacts
  <1> QED
    BY <1>1, <1>2 DEF Taken

\* Waking a connection changes its waker only.
LEMMA WokenType ==
  ASSUME TypeOK, NEW p \in Peers, NEW s
  PROVE  Woken(wakers, p, s) \in [Peers -> (SUBSET Sources) \cup {Running}]
  BY DEF TypeOK, Woken
-----------------------------------------------------------------------------
(***************************************************************************)
(* The inductive invariant.                                                *)
(***************************************************************************)

\* A request in a queue was made of that connection, and for some ticker.
CallsInv ==
  \A p \in Peers : \A r \in ToSet(commands[p]) : asked[r] # None /\ asked[r].peer = p

GossipInv ==
  /\ TypeOK
  /\ CallsInv
  /\ TickersConserved

LEMMA InitGossip == Init => GossipInv
  <1> SUFFICES ASSUME Init
               PROVE  GossipInv
    OBVIOUS
  <1>1. TypeOK
    <2>1. \A A : <<>> \in Seq(A) /\ Len(<<>>) = 0
      OBVIOUS
    <2> QED
      BY <2>1, GossipConstants DEF Init, TypeOK, Running
  <1>2. CallsInv
    BY EmptyFacts DEF Init, CallsInv
  <1>3. TickersConserved
    <2> SUFFICES ASSUME NEW p \in Peers, NEW t \in Tickers
                 PROVE  Count(fed[p], t) =
                          Count(backlog[p], [ticker |-> t, signer |-> p])
                            + Count(wire[Other(p)],
                                    Encoded("SignedTicker", [ticker |-> t, signer |-> p]))
                            + Count(known[Other(p)][t], p)
      BY DEF TickersConserved
    <2>1. /\ fed[p] = <<>> /\ backlog[p] = <<>>
          /\ wire[Other(p)] = <<>> /\ known[Other(p)][t] = <<>>
      BY OtherFacts DEF Init
    <2> QED
      BY <2>1, EmptyFacts
  <1> QED
    BY <1>1, <1>2, <1>3 DEF GossipInv

-----------------------------------------------------------------------------
(***************************************************************************)
(* Types.                                                                  *)
(***************************************************************************)

\* The channel of broadcasts never holds more than its capacity.
LEMMA FeedType ==
  ASSUME TypeOK, NEW p \in Peers, NEW t \in Tickers, Feed(p, t)
  PROVE  TypeOK'
  <1> DEFINE signed == [ticker |-> t, signer |-> p]
             all == Append(backlog[p], signed)
             full == Len(backlog[p]) = Capacity
             new == IF full THEN Tail(all) ELSE all
  <1>1. signed \in Signed
    BY DEF Signed
  <1>2. backlog[p] \in Seq(Signed) /\ Len(backlog[p]) <= Capacity /\ fed[p] \in Seq(Tickers)
    BY DEF TypeOK
  <1> HIDE DEF signed
  <1>3. all \in Seq(Signed) /\ Len(all) = Len(backlog[p]) + 1 /\ Len(backlog[p]) \in Nat
    BY <1>1, <1>2, AppendFacts, LenProperties
  <1>4. all # <<>>
    BY <1>1, <1>2, AppendProperties
  <1>5. Tail(all) \in Seq(Signed) /\ Len(Tail(all)) = Len(all) - 1
    BY <1>3, <1>4, TailFacts
  <1>6. new \in Seq(Signed) /\ Len(new) <= Capacity
    BY <1>2, <1>3, <1>5, GossipConstants
  <1>7. Append(fed[p], t) \in Seq(Tickers)
    BY <1>2, AppendFacts
  <1>8. fed' = [fed EXCEPT ![p] = Append(fed[p], t)]
    BY DEF Feed
  <1>9. fed' \in [Peers -> Seq(Tickers)]
    BY <1>7, <1>8 DEF TypeOK
  <1>10. \/ UNCHANGED <<backlog, lagging, overrun, wakers>>
         \/ /\ backlog' = [backlog EXCEPT ![p] = new]
            /\ lagging' = [lagging EXCEPT ![p] = @ \/ full]
            /\ overrun' = [overrun EXCEPT ![p] = @ \/ full]
            /\ wakers' = Woken(wakers, p, "ticks")
    BY DEF Feed, signed
  <1> HIDE DEF new, full
  <1>11. backlog' \in [Peers -> Seq(Signed)] /\ \A q \in Peers : Len(backlog'[q]) <= Capacity
    <2>1. /\ backlog \in [Peers -> Seq(Signed)]
          /\ \A q \in Peers : Len(backlog[q]) <= Capacity
      BY DEF TypeOK
    <2>2. backlog' = backlog \/ backlog' = [backlog EXCEPT ![p] = new]
      BY <1>10
    <2> QED
      BY <1>6, <2>1, <2>2
  <1>12. lagging' \in [Peers -> BOOLEAN] /\ overrun' \in [Peers -> BOOLEAN]
    <2>1. \A f \in [Peers -> BOOLEAN] : \A b : [f EXCEPT ![p] = @ \/ b] \in [Peers -> BOOLEAN]
      OBVIOUS
    <2> QED
      BY <2>1, <1>10 DEF TypeOK
  <1>13. wakers' \in [Peers -> (SUBSET Sources) \cup {Running}]
    <2>1. wakers' = wakers \/ wakers' = Woken(wakers, p, "ticks")
      BY <1>10
    <2> QED
      BY <2>1, WokenType DEF TypeOK
  <1>14. UNCHANGED <<open, ping, commands, pending, known, wire, asked, answer>>
    BY DEF Feed
  <1> QED
    BY <1>9, <1>11, <1>12, <1>13, <1>14 DEF TypeOK
\* A command that is handled was made by a caller that named its ticker.
LEMMA CommandFacts ==
  ASSUME TypeOK, CallsInv, NEW p \in Peers, commands[p] # <<>>
  PROVE  LET r == Head(commands[p])
         IN  /\ r \in Requests
             /\ asked[r] \in [peer : Peers, ticker : Tickers] /\ asked[r].peer = p
             /\ Tail(commands[p]) \in Seq(Requests)
             /\ ToSet(commands[p]) = {r} \cup ToSet(Tail(commands[p]))
  <1>1. commands[p] \in Seq(Requests)
    BY DEF TypeOK
  <1>2. /\ Head(commands[p]) \in Requests /\ Tail(commands[p]) \in Seq(Requests)
        /\ ToSet(commands[p]) = {Head(commands[p])} \cup ToSet(Tail(commands[p]))
    BY <1>1, TailFacts
  <1>3. asked[Head(commands[p])] # None /\ asked[Head(commands[p])].peer = p
    BY <1>2 DEF CallsInv
  <1> QED
    BY <1>2, <1>3 DEF TypeOK

LEMMA CommandType ==
  ASSUME TypeOK, CallsInv, NEW p \in Peers, HandleCommand(p)
  PROVE  TypeOK'
  <1> DEFINE r == Head(commands[p])
             list == [signers |-> known[p][asked[r].ticker]]
  <1>1. /\ r \in Requests /\ asked[r].ticker \in Tickers
        /\ Tail(commands[p]) \in Seq(Requests)
    BY CommandFacts DEF HandleCommand
  <1>2. list \in Lists
    BY <1>1 DEF TypeOK, Lists
  <1>3. /\ commands' = [commands EXCEPT ![p] = Tail(commands[p])]
        /\ answer' = [x \in Requests |-> IF x = pending[p] THEN "dropped" ELSE answer[x]]
        /\ pending' = [pending EXCEPT ![p] = r]
        /\ wire' = Sent(wire, Other(p), "Attestations", list)
        /\ wakers' = Woken(wakers, Other(p), "conn")
        /\ UNCHANGED <<open, ping, fed, backlog, lagging, known, asked, overrun>>
    BY DEF HandleCommand
  <1> HIDE DEF list, r
  <1>4. wire' \in [Peers -> Seq(Encodings)]
    BY <1>2, <1>3, OtherFacts, EncodedTypes, SentFacts DEF TypeOK
  <1>5. wakers' \in [Peers -> (SUBSET Sources) \cup {Running}]
    BY <1>3, OtherFacts, WokenType
  <1>6. commands' \in [Peers -> Seq(Requests)] /\ pending' \in [Peers -> Requests \cup {None}]
    BY <1>1, <1>3 DEF TypeOK
  <1>7. answer' \in [Requests -> {"none", "waiting", "dropped", "got"}]
    BY <1>3 DEF TypeOK
  <1> QED
    BY <1>3, <1>4, <1>5, <1>6, <1>7 DEF TypeOK

LEMMA RequestType ==
  ASSUME TypeOK, NEW p \in Peers, NEW r \in Requests, NEW t \in Tickers, Request(p, r, t)
  PROVE  TypeOK'
  <1>1. /\ asked' = [asked EXCEPT ![r] = [peer |-> p, ticker |-> t]]
        /\ answer' = [answer EXCEPT ![r] = IF open THEN "waiting" ELSE "dropped"]
        /\ commands' = IF open THEN [commands EXCEPT ![p] = Append(commands[p], r)]
                       ELSE commands
        /\ wakers' = Woken(wakers, p, "commands")
        /\ UNCHANGED <<open, ping, fed, backlog, lagging, pending, known, wire, overrun>>
    BY DEF Request
  <1>2. asked' \in [Requests -> [peer : Peers, ticker : Tickers] \cup {None}]
    BY <1>1 DEF TypeOK
  <1>3. answer' \in [Requests -> {"none", "waiting", "dropped", "got"}]
    BY <1>1 DEF TypeOK
  <1>4. commands' \in [Peers -> Seq(Requests)]
    <2>1. Append(commands[p], r) \in Seq(Requests)
      BY AppendProperties DEF TypeOK
    <2> QED
      BY <1>1, <2>1 DEF TypeOK
  <1>5. wakers' \in [Peers -> (SUBSET Sources) \cup {Running}]
    BY <1>1, WokenType
  <1> QED
    BY <1>1, <1>2, <1>3, <1>4, <1>5 DEF TypeOK

LEMMA CloseType ==
  ASSUME TypeOK, Close
  PROVE  TypeOK'
  <1>1. \A A : <<>> \in Seq(A) /\ Len(<<>>) = 0
    OBVIOUS
  <1>2. answer' \in [Requests -> {"none", "waiting", "dropped", "got"}]
    BY DEF TypeOK, Close
  <1>3. /\ commands' \in [Peers -> Seq(Requests)]
        /\ pending' \in [Peers -> Requests \cup {None}]
        /\ backlog' \in [Peers -> Seq(Signed)]
        /\ \A p \in Peers : Len(backlog'[p]) <= Capacity
        /\ lagging' \in [Peers -> BOOLEAN]
        /\ wire' \in [Peers -> Seq(Encodings)]
    BY <1>1, GossipConstants DEF Close
  <1>4. open' \in BOOLEAN /\ UNCHANGED <<ping, fed, known, wakers, asked, overrun>>
    BY DEF Close
  <1> QED
    BY <1>2, <1>3, <1>4 DEF TypeOK

LEMMA SendType ==
  ASSUME TypeOK, NEW p \in Peers, SendPing(p) \/ SendTick(p)
  PROVE  TypeOK'
  <1>1. Other(p) \in Peers
    BY OtherFacts
  <1>2. wakers' \in [Peers -> (SUBSET Sources) \cup {Running}]
    BY <1>1, WokenType DEF SendPing, SendTick
  <1>3. CASE SendPing(p)
    <2>1. wire' \in [Peers -> Seq(Encodings)]
      BY <1>1, <1>3, EncodedTypes, SentFacts DEF TypeOK, SendPing
    <2>2. ping' \in [Peers -> BOOLEAN]
      BY <1>3 DEF TypeOK, SendPing
    <2> QED
      BY <1>2, <1>3, <2>1, <2>2 DEF TypeOK, SendPing
  <1>4. CASE SendTick(p)
    <2>1. backlog[p] \in Seq(Signed) /\ backlog[p] # <<>>
      BY <1>4 DEF TypeOK, SendTick
    <2>2. /\ Head(backlog[p]) \in Signed /\ Tail(backlog[p]) \in Seq(Signed)
          /\ Len(Tail(backlog[p])) = Len(backlog[p]) - 1 /\ Len(backlog[p]) \in Nat
      BY <2>1, TailFacts, LenProperties
    <2>3. wire' \in [Peers -> Seq(Encodings)]
      BY <1>1, <1>4, <2>2, EncodedTypes, SentFacts DEF TypeOK, SendTick
    <2>4. backlog' \in [Peers -> Seq(Signed)] /\ \A q \in Peers : Len(backlog'[q]) <= Capacity
      <3>1. backlog' = [backlog EXCEPT ![p] = Tail(backlog[p])]
        BY <1>4 DEF SendTick
      <3>2. Len(Tail(backlog[p])) <= Capacity
        BY <2>2, GossipConstants DEF TypeOK
      <3> QED
        BY <2>2, <3>1, <3>2 DEF TypeOK
    <2> QED
      BY <1>2, <1>4, <2>3, <2>4 DEF TypeOK, SendTick
  <1> QED
    BY <1>3, <1>4
\* The message that a connection handles is well formed, and so is the list of
\* signers that it keeps or passes on.
LEMMA HandleType ==
  ASSUME TypeOK, NEW p \in Peers,
         \/ HandlePing(p) \/ HandlePong(p) \/ HandleAttestations(p) \/ HandleTicker(p)
  PROVE  TypeOK'
  <1> DEFINE m == Head(wire[p])
  <1>1. /\ Other(p) \in Peers
        /\ \A s : Woken(wakers, Other(p), s) \in [Peers -> (SUBSET Sources) \cup {Running}]
    BY OtherFacts, WokenType
  <1>2. /\ lagging' = [lagging EXCEPT ![p] = FALSE]
        /\ wire[p] # <<>>
        /\ UNCHANGED <<open, ping, fed, backlog, commands, asked, overrun>>
    BY DEF HandlePing, HandlePong, HandleAttestations, HandleTicker, Receive, NothingToSend
  <1>3. lagging' \in [Peers -> BOOLEAN]
    BY <1>2 DEF TypeOK
  <1>4. m \in Encodings /\ Taken(p) \in [Peers -> Seq(Encodings)]
    BY <1>2, TakenFacts
  <1>5. CASE HandlePing(p)
    <2>1. wire' \in [Peers -> Seq(Encodings)]
      BY <1>1, <1>4, <1>5, EncodedTypes, SentFacts DEF HandlePing
    <2> QED
      BY <1>1, <1>2, <1>3, <1>5, <2>1 DEF TypeOK, HandlePing
  <1>6. CASE HandlePong(p)
    BY <1>2, <1>3, <1>4, <1>6 DEF TypeOK, HandlePong
  <1>7. CASE HandleAttestations(p)
    <2>1. answer' \in [Requests -> {"none", "waiting", "dropped", "got"}]
      BY <1>7 DEF TypeOK, HandleAttestations
    <2>2. pending' \in [Peers -> Requests \cup {None}]
      BY <1>7 DEF TypeOK, HandleAttestations
    <2>3. wire' \in [Peers -> Seq(Encodings)] /\ UNCHANGED <<known, wakers>>
      BY <1>4, <1>7 DEF HandleAttestations
    <2> QED
      BY <1>2, <1>3, <2>1, <2>2, <2>3 DEF TypeOK
  <1>8. CASE HandleTicker(p)
    <2> DEFINE signed == m.data
               list == Append(known[p][signed.ticker], signed.signer)
    <2>1. signed \in Signed
      BY <1>4, <1>8, DecodedFacts DEF HandleTicker, Receive
    <2>2. signed.ticker \in Tickers /\ signed.signer \in Peers
      BY <2>1 DEF Signed
    <2>3. list \in Seq(Peers)
      <3>1. known[p][signed.ticker] \in Seq(Peers)
        BY <2>2 DEF TypeOK
      <3> QED
        BY <2>2, <3>1, AppendProperties
    <2>4. /\ known' = [known EXCEPT ![p][signed.ticker] = list]
          /\ wire' = Sent(Taken(p), Other(p), "Attestations",
                          [signers |-> list])
          /\ wakers' = Woken(wakers, Other(p), "conn")
          /\ UNCHANGED <<pending, answer>>
      BY <1>8 DEF HandleTicker
    <2> HIDE DEF signed, list, m
    <2>5. known' \in [Peers -> [Tickers -> Seq(Peers)]]
      BY <2>2, <2>3, <2>4 DEF TypeOK
    <2>6. [signers |-> list] \in Lists
      BY <2>2, <2>3 DEF Lists
    <2>7. wire' \in [Peers -> Seq(Encodings)]
      BY <1>1, <1>4, <2>4, <2>6, EncodedTypes, SentFacts
    <2> QED
      BY <1>1, <1>2, <1>3, <2>4, <2>5, <2>7 DEF TypeOK
  <1> QED
    BY <1>5, <1>6, <1>7, <1>8

LEMMA ParkType ==
  ASSUME TypeOK, NEW p \in Peers, Park(p)
  PROVE  TypeOK'
  <1>1. lagging' \in [Peers -> BOOLEAN]
    BY DEF TypeOK, Park, NothingToSend
  <1>2. wakers' \in [Peers -> (SUBSET Sources) \cup {Running}]
    BY DEF TypeOK, Park
  <1>3. UNCHANGED <<open, ping, fed, backlog, commands, pending, known, wire, asked,
                    answer, overrun>>
    BY DEF Park
  <1> QED
    BY <1>1, <1>2, <1>3 DEF TypeOK

LEMMA SessionPollsType ==
  ASSUME TypeOK, NEW p \in Peers, SessionPolls(p)
  PROVE  TypeOK'
  <1>1. wakers' \in [Peers -> (SUBSET Sources) \cup {Running}]
    BY DEF TypeOK, SessionPolls
  <1> QED
    BY <1>1 DEF TypeOK, SessionPolls

LEMMA NextType == TypeOK /\ CallsInv /\ [Next]_vars => TypeOK'
  <1> SUFFICES ASSUME TypeOK, CallsInv, [Next]_vars
               PROVE  TypeOK'
    OBVIOUS
  <1>1. CASE UNCHANGED vars
    BY <1>1 DEF TypeOK, vars
  <1>2. CASE Next
    BY <1>2, FeedType, RequestType, CloseType, CommandType, SendType, HandleType, ParkType,
       SessionPollsType
    DEF Next, PollNext
  <1> QED
    BY <1>1, <1>2

-----------------------------------------------------------------------------
(***************************************************************************)
(* The callers.                                                            *)
(***************************************************************************)

\* A request enters the queue of the connection it was made of; afterwards the
\* queue only gets shorter.
LEMMA NextCalls == TypeOK /\ CallsInv /\ [Next]_vars => CallsInv'
  <1> SUFFICES ASSUME TypeOK, CallsInv, [Next]_vars
               PROVE  CallsInv'
    OBVIOUS
  <1>1. ASSUME UNCHANGED <<commands, asked>>
        PROVE  CallsInv'
    BY <1>1 DEF CallsInv
  <1>2. ASSUME NEW p \in Peers, NEW r \in Requests, NEW t \in Tickers, Request(p, r, t)
        PROVE  CallsInv'
    <2>1. /\ asked' = [asked EXCEPT ![r] = [peer |-> p, ticker |-> t]]
          /\ commands' = IF open THEN [commands EXCEPT ![p] = Append(commands[p], r)]
                         ELSE commands
      BY <1>2 DEF Request
    <2>2. asked'[r] # None /\ asked'[r].peer = p
      <3>1. asked'[r] = [peer |-> p, ticker |-> t]
        BY <2>1 DEF TypeOK
      <3>2. asked'[r] \in [peer : Peers, ticker : Tickers]
        BY <3>1
      <3> QED
        BY <3>1, <3>2, GossipConstants
    <2>3. \A x \in Requests : x # r => asked'[x] = asked[x]
      BY <2>1 DEF TypeOK
    <2>4. /\ ToSet(Append(commands[p], r)) = ToSet(commands[p]) \cup {r}
          /\ \A q \in Peers : ToSet(commands[q]) \subseteq Requests
      BY AppendFacts, ElementsType DEF TypeOK
    <2>5. \A q \in Peers :
            ToSet(commands'[q]) = IF open /\ q = p THEN ToSet(commands[q]) \cup {r}
                                  ELSE ToSet(commands[q])
      BY <2>1, <2>4 DEF TypeOK
    <2>6. asked[r] = None
      BY <1>2 DEF Request
    <2>7. ASSUME NEW q \in Peers, NEW x \in ToSet(commands'[q])
          PROVE  asked'[x] # None /\ asked'[x].peer = q
      <3>1. CASE x \in ToSet(commands[q])
        <4>1. x \in Requests /\ asked[x] # None /\ asked[x].peer = q
          BY <2>4, <3>1 DEF CallsInv
        <4> QED
          BY <2>3, <2>6, <4>1
      <3>2. CASE x \notin ToSet(commands[q])
        BY <2>2, <2>5, <2>7, <3>2
      <3> QED
        BY <3>1, <3>2
    <2> QED
      BY <2>7 DEF CallsInv
  <1>3. ASSUME Close
        PROVE  CallsInv'
    <2>1. commands' = [p \in Peers |-> <<>>]
      BY <1>3 DEF Close
    <2>2. \A p \in Peers : ToSet(commands'[p]) = {}
      BY <2>1, EmptyFacts
    <2> QED
      BY <2>2 DEF CallsInv
  <1>4. ASSUME NEW p \in Peers, HandleCommand(p)
        PROVE  CallsInv'
    <2>1. /\ commands' = [commands EXCEPT ![p] = Tail(commands[p])]
          /\ asked' = asked
          /\ commands[p] # <<>>
      BY <1>4 DEF HandleCommand
    <2>2. ToSet(Tail(commands[p])) \subseteq ToSet(commands[p])
      BY <2>1, CommandFacts
    <2>3. \A q \in Peers : ToSet(commands'[q]) \subseteq ToSet(commands[q])
      BY <2>1, <2>2 DEF TypeOK
    <2> QED
      BY <2>1, <2>3 DEF CallsInv
  <1>5. ASSUME NEW p \in Peers, SessionPolls(p) \/ (PollNext(p) /\ ~HandleCommand(p))
        PROVE  UNCHANGED <<commands, asked>>
    BY <1>5 DEF SessionPolls, PollNext, SendPing, SendTick, HandlePing, HandlePong,
                HandleAttestations, HandleTicker, Receive, Park
  <1>6. ASSUME NEW p \in Peers, NEW t \in Tickers, Feed(p, t)
        PROVE  UNCHANGED <<commands, asked>>
    BY <1>6 DEF Feed
  <1> QED
    BY <1>1, <1>2, <1>3, <1>4, <1>5, <1>6 DEF Next, vars
-----------------------------------------------------------------------------
(***************************************************************************)
(* The tickers.                                                            *)
(***************************************************************************)

\* Only a signed ticker is encoded like a signed ticker.
LEMMA EncodedApart ==
  ASSUME NEW signed
  PROVE  /\ \A d : Encoded("Ping", d) # Encoded("SignedTicker", signed)
         /\ \A d : Encoded("Pong", d) # Encoded("SignedTicker", signed)
         /\ \A d : Encoded("Attestations", d) # Encoded("SignedTicker", signed)
         /\ \A d : Encoded("SignedTicker", d) = Encoded("SignedTicker", signed) => d = signed
  <1>1. /\ MessageId["Ping"] = 0 /\ MessageId["Pong"] = 1
        /\ MessageId["SignedTicker"] = 2 /\ MessageId["Attestations"] = 3
    BY DEF MessageId
  <1>2. \A kind, d : Encoded(kind, d).id = MessageId[kind] /\ Encoded(kind, d).data = d
    BY DEF Encoded
  <1> QED
    BY <1>1, <1>2

\* What may be under way to the peers.
Wires == [Peers -> Seq(Encodings)]

\* What is under way after a message more.
LEMMA SentCount ==
  ASSUME NEW w \in Wires, NEW q \in Peers, NEW kind, NEW d,
         Encoded(kind, d) \in Encodings, NEW x, NEW p \in Peers
  PROVE  /\ Count(w[p], x) \in Nat
         /\ Count(Sent(w, q, kind, d)[p], x) =
              IF p = q /\ Encoded(kind, d) = x THEN Count(w[p], x) + 1 ELSE Count(w[p], x)
  <1> DEFINE m == Encoded(kind, d)
             u == w[p]
             v == Sent(w, q, kind, d)[p]
  <1>1. u \in Seq(Encodings) /\ m \in Encodings
    BY DEF Wires
  <1>2. v = IF p = q THEN Append(u, m) ELSE u
    <2>1. Sent(w, q, kind, d)[q] = Append(w[q], Encoded(kind, d))
      BY SentFacts DEF Wires
    <2>2. \A r \in Peers : r # q => Sent(w, q, kind, d)[r] = w[r]
      BY SentFacts DEF Wires
    <2> QED
      BY <2>1, <2>2
  <1> HIDE DEF m, u, v
  <1>3. /\ Count(u, x) \in Nat
        /\ Count(Append(u, m), x) = IF m = x THEN Count(u, x) + 1 ELSE Count(u, x)
    BY <1>1, AppendFacts
  <1>4. Count(v, x) = IF p = q /\ m = x THEN Count(u, x) + 1 ELSE Count(u, x)
    BY <1>2, <1>3
  <1> QED
    BY <1>3, <1>4 DEF m, u, v

\* What is under way after the first message has been taken.
LEMMA TakenCount ==
  ASSUME TypeOK, NEW q \in Peers, wire[q] # <<>>, NEW x, NEW p \in Peers
  PROVE  /\ Count(Taken(q)[p], x) \in Nat
         /\ Count(wire[p], x) =
              IF p = q /\ Head(wire[q]) = x THEN Count(Taken(q)[p], x) + 1
              ELSE Count(Taken(q)[p], x)
  <1>1. Taken(q) \in [Peers -> Seq(Encodings)] /\ \A r \in Peers : wire[r] \in Seq(Encodings)
    BY TakenFacts DEF TypeOK
  <1>2. CASE p = q
    BY <1>1, <1>2, TakenFacts, TailFacts
  <1>3. CASE p # q
    <2>1. Taken(q)[p] = wire[p]
      BY <1>3, TakenFacts
    <2>2. \A y \in Encodings : Count(wire[p], x) \in Nat
      BY <1>1, AppendFacts
    <2>3. Head(wire[q]) \in Encodings
      BY TakenFacts
    <2> QED
      BY <1>3, <2>1, <2>2, <2>3
  <1> QED
    BY <1>2, <1>3

\* Each step moves a ticker on by one place or leaves it where it is.
LEMMA NextConserved ==
  ASSUME TypeOK, CallsInv, TickersConserved, [Next]_vars
  PROVE  TickersConserved'
  <1> SUFFICES ASSUME open', NEW p \in Peers, NEW t \in Tickers, ~overrun'[p]
               PROVE  Count(fed'[p], t) =
                        Count(backlog'[p], [ticker |-> t, signer |-> p])
                          + Count(wire'[Other(p)],
                                  Encoded("SignedTicker", [ticker |-> t, signer |-> p]))
                          + Count(known'[Other(p)][t], p)
    BY DEF TickersConserved
  <1> DEFINE s == [ticker |-> t, signer |-> p]
             E == Encoded("SignedTicker", s)
             o == Other(p)
             Conserved == Count(fed[p], t) =
                            Count(backlog[p], s) + Count(wire[o], E) + Count(known[o][t], p)
  <1>1. s \in Signed /\ E \in Encodings
    BY EncodedTypes DEF Signed
  <1>2. o \in Peers /\ o # p /\ \A q \in Peers : Other(q) = o <=> q = p
    BY OtherFacts
  <1>3. /\ fed[p] \in Seq(Tickers) /\ backlog[p] \in Seq(Signed)
        /\ wire[o] \in Seq(Encodings) /\ known[o][t] \in Seq(Peers)
    BY <1>2 DEF TypeOK
  <1>4. /\ Count(fed[p], t) \in Nat /\ Count(backlog[p], s) \in Nat
        /\ Count(wire[o], E) \in Nat /\ Count(known[o][t], p) \in Nat
    BY <1>1, <1>2, <1>3, AppendFacts
  <1>5. /\ \A d : Encoded("Ping", d) # E
        /\ \A d : Encoded("Pong", d) # E
        /\ \A d : Encoded("Attestations", d) # E
        /\ \A d : Encoded("SignedTicker", d) = E => d = s
    BY EncodedApart
  <1>6. ASSUME open, ~overrun[p]
        PROVE  Conserved
    BY <1>6 DEF TickersConserved
  <1> HIDE DEF s, E, o
  <1>7. ASSUME NEW w \in Wires, NEW q \in Peers, NEW kind, NEW d,
                Encoded(kind, d) \in Encodings
         PROVE  Count(Sent(w, Other(q), kind, d)[o], E) =
                  IF q = p /\ Encoded(kind, d) = E THEN Count(w[o], E) + 1
                  ELSE Count(w[o], E)
    <2>1. Other(q) \in Peers /\ (o = Other(q) <=> q = p)
      BY <1>2, OtherFacts
    <2>2. Encoded(kind, d) \in Encodings /\ o \in Peers
      BY <1>2, <1>7
    <2>3. \A r \in Peers : Count(Sent(w, r, kind, d)[o], E) =
            IF o = r /\ Encoded(kind, d) = E THEN Count(w[o], E) + 1 ELSE Count(w[o], E)
      BY <2>2, SentCount
    <2> QED
      BY <2>1, <2>3
  <1>8. wire \in Wires
    BY DEF TypeOK, Wires
  <1>9. ASSUME UNCHANGED <<open, overrun, fed, backlog, known>>,
               Count(wire'[o], E) = Count(wire[o], E)
        PROVE  Conserved'
    BY <1>6, <1>9
  <1>10. ASSUME UNCHANGED vars
        PROVE  Conserved'
    BY <1>6, <1>10 DEF vars
  <1>11. ASSUME NEW q \in Peers, NEW u \in Tickers, Feed(q, u)
        PROVE  Conserved'
    <2> DEFINE signed == [ticker |-> u, signer |-> q]
    <2>1. open /\ UNCHANGED <<wire, known>>
      BY <1>11 DEF Feed
    <2>2. CASE q # p
      <3>1. overrun'[p] = overrun[p] /\ fed'[p] = fed[p] /\ backlog'[p] = backlog[p]
        BY <1>11, <2>1, <2>2 DEF Feed, TypeOK
      <3> QED
        BY <1>6, <2>1, <3>1
    <2>3. CASE q = p
      <3>1. Len(backlog[p]) # Capacity /\ ~overrun[p]
        BY <1>11, <2>1, <2>3 DEF Feed, TypeOK
      <3>2. fed'[p] = Append(fed[p], u) /\ backlog'[p] = Append(backlog[p], signed)
        BY <1>11, <2>1, <2>3, <3>1 DEF Feed, TypeOK
      <3>3. signed \in Signed
        BY DEF Signed
      <3>4. signed = s <=> u = t
        BY <2>3 DEF s
      <3> HIDE DEF signed
      <3>5. Count(fed'[p], t) = IF u = t THEN Count(fed[p], t) + 1 ELSE Count(fed[p], t)
        BY <1>3, <3>2, AppendFacts
      <3>6. Count(backlog'[p], s) = IF u = t THEN Count(backlog[p], s) + 1
                                    ELSE Count(backlog[p], s)
        BY <1>3, <3>2, <3>3, <3>4, AppendFacts
      <3> QED
        BY <1>4, <1>6, <2>1, <3>1, <3>5, <3>6
    <2> QED
      BY <2>2, <2>3
  <1>12. ASSUME NEW q \in Peers, NEW r \in Requests, NEW u \in Tickers, Request(q, r, u)
         PROVE  Conserved'
    BY <1>9, <1>12 DEF Request
  <1>13. ASSUME NEW q \in Peers, Park(q) \/ SendPing(q) \/ HandlePong(q) \/ HandlePing(q)
                                 \/ HandleAttestations(q)
         PROVE  Conserved'
    <2>1. UNCHANGED <<open, overrun, fed, backlog, known>>
      BY <1>13 DEF Park, SendPing, HandlePong, HandlePing, HandleAttestations, Receive
    <2>3. CASE Park(q)
      BY <1>9, <2>1, <2>3 DEF Park
    <2>4. CASE SendPing(q)
      <3>1. wire' = Sent(wire, Other(q), "Ping", None)
        BY <2>4 DEF SendPing
      <3>2. Count(wire'[o], E) = Count(wire[o], E)
        BY <1>5, <1>7, <1>8, <3>1, EncodedTypes
      <3> QED
        BY <1>9, <2>1, <3>2
    <2>5. ASSUME wire[q] # <<>>, Head(wire[q]) # E
          PROVE  /\ Count(Taken(q)[o], E) = Count(wire[o], E)
                 /\ Taken(q) \in Wires
      BY <1>2, <2>5, TakenCount, TakenFacts DEF Wires
    <2>6. ASSUME wire[q] # <<>>, Decoded(Head(wire[q])) \in {"Ping", "Pong", "Attestations"}
          PROVE  Head(wire[q]) # E
      <3>1. Head(wire[q]).id # 2
        BY <2>6, TakenFacts, DecodedFacts
      <3>2. E.id = 2
        BY DEF E, Encoded, MessageId
      <3> QED
        BY <3>1, <3>2
    <2>7. CASE HandlePong(q) \/ HandleAttestations(q)
      <3>1. /\ wire[q] # <<>> /\ wire' = Taken(q)
            /\ Decoded(Head(wire[q])) \in {"Ping", "Pong", "Attestations"}
        BY <2>7 DEF HandlePong, HandleAttestations, Receive
      <3> QED
        BY <1>9, <2>1, <2>5, <2>6, <3>1
    <2>8. CASE HandlePing(q)
      <3>1. /\ wire[q] # <<>> /\ wire' = Sent(Taken(q), Other(q), "Pong", None)
            /\ Decoded(Head(wire[q])) \in {"Ping", "Pong", "Attestations"}
        BY <2>8 DEF HandlePing, Receive
      <3>2. /\ Count(Taken(q)[o], E) = Count(wire[o], E)
            /\ Taken(q) \in Wires
        BY <2>5, <2>6, <3>1
      <3>3. Count(wire'[o], E) = Count(Taken(q)[o], E)
        BY <1>5, <1>7, <3>1, <3>2, EncodedTypes
      <3> QED
        BY <1>9, <2>1, <3>2, <3>3
    <2> QED
      BY <1>13, <2>3, <2>4, <2>7, <2>8
  <1>14. ASSUME NEW q \in Peers, HandleCommand(q)
         PROVE  Conserved'
    <2> DEFINE list == [signers |-> known[q][asked[Head(commands[q])].ticker]]
    <2>1. /\ UNCHANGED <<open, overrun, fed, backlog, known>>
          /\ wire' = Sent(wire, Other(q), "Attestations", list)
          /\ commands[q] # <<>>
      BY <1>14 DEF HandleCommand
    <2>2. list \in Lists
      <3>1. asked[Head(commands[q])].ticker \in Tickers
        BY <2>1, CommandFacts
      <3> QED
        BY <3>1 DEF TypeOK, Lists
    <2> HIDE DEF list
    <2>3. Count(wire'[o], E) = Count(wire[o], E)
      BY <1>5, <1>7, <1>8, <2>1, <2>2, EncodedTypes
    <2> QED
      BY <1>9, <2>1, <2>3
  <1>15. ASSUME NEW q \in Peers, SendTick(q)
         PROVE  Conserved'
    <2> DEFINE signed == Head(backlog[q])
    <2>1. /\ UNCHANGED <<open, overrun, fed, known>>
          /\ backlog[q] # <<>>
          /\ backlog' = [backlog EXCEPT ![q] = Tail(backlog[q])]
          /\ wire' = Sent(wire, Other(q), "SignedTicker", signed)
      BY <1>15 DEF SendTick
    <2>2. /\ backlog[q] \in Seq(Signed) /\ signed \in Signed
          /\ Encoded("SignedTicker", signed) \in Encodings
      BY <2>1, TailFacts, EncodedTypes DEF TypeOK
    <2>3. Encoded("SignedTicker", signed) = E <=> signed = s
      BY <1>5 DEF E
    <2> HIDE DEF signed
    <2>4. Count(wire'[o], E) = IF q = p /\ signed = s THEN Count(wire[o], E) + 1
                               ELSE Count(wire[o], E)
      BY <1>7, <1>8, <2>1, <2>2, <2>3
    <2>5. /\ Count(backlog'[p], s) \in Nat
          /\ Count(backlog[p], s) = IF q = p /\ signed = s THEN Count(backlog'[p], s) + 1
                                    ELSE Count(backlog'[p], s)
      <3>1. CASE q = p
        <4>1. backlog'[p] = Tail(backlog[p])
          BY <2>1, <3>1 DEF TypeOK
        <4> QED
          BY <2>1, <2>2, <3>1, <4>1, TailFacts DEF signed
      <3>2. CASE q # p
        <4>1. backlog'[p] = backlog[p]
          BY <2>1, <3>2 DEF TypeOK
        <4> QED
          BY <1>4, <3>2, <4>1
      <3> QED
        BY <3>1, <3>2
    <2> QED
      BY <1>4, <1>6, <2>1, <2>4, <2>5
  <1>16. ASSUME NEW q \in Peers, HandleTicker(q)
         PROVE  Conserved'
    <2> DEFINE m == Head(wire[q])
               signed == m.data
               list == Append(known[q][signed.ticker], signed.signer)
    <2>1. /\ UNCHANGED <<open, overrun, fed, backlog>>
          /\ wire[q] # <<>> /\ Decoded(m) = "SignedTicker"
          /\ known' = [known EXCEPT ![q][signed.ticker] = list]
          /\ wire' = Sent(Taken(q), Other(q), "Attestations",
                          [signers |-> list])
      BY <1>16 DEF HandleTicker, Receive, NothingToSend
    <2>2. /\ m \in Encodings /\ m.id = 2 /\ signed \in Signed
          /\ Taken(q) \in Wires
      BY <2>1, TakenFacts, DecodedFacts DEF Wires
    <2>3. signed.ticker \in Tickers /\ signed.signer \in Peers
      BY <2>2 DEF Signed
    <2>4. known[q][signed.ticker] \in Seq(Peers) /\ list \in Seq(Peers)
      BY <2>3, AppendProperties DEF TypeOK
    <2>5. m = E <=> signed.ticker = t /\ signed.signer = p
      <3>1. m = [id |-> 2, data |-> signed]
        BY <2>2 DEF Encodings
      <3>2. E = [id |-> 2, data |-> s]
        BY DEF E, Encoded, MessageId
      <3>3. signed = [ticker |-> signed.ticker, signer |-> signed.signer]
        BY <2>2 DEF Signed
      <3> HIDE DEF m, signed
      <3>4. m = E <=> signed = s
        BY <3>1, <3>2
      <3> QED
        BY <3>3, <3>4 DEF s
    <2>6. [signers |-> list] \in Lists
      BY <2>3, <2>4 DEF Lists
    <2> HIDE DEF m, signed
    <2>7. Count(wire'[o], E) = Count(Taken(q)[o], E)
      <3> HIDE DEF list
      <3> QED
        BY <1>5, <1>7, <2>1, <2>2, <2>6, EncodedTypes
    <2>8. /\ Count(Taken(q)[o], E) \in Nat
          /\ Count(wire[o], E) = IF q = o /\ m = E THEN Count(Taken(q)[o], E) + 1
                                 ELSE Count(Taken(q)[o], E)
      BY <1>2, <2>1, TakenCount DEF m
    <2>9. Count(known'[o][t], p) =
            IF q = o /\ m = E THEN Count(known[o][t], p) + 1 ELSE Count(known[o][t], p)
      <3>1. CASE q = o /\ signed.ticker = t
        <4>1. known'[o][t] = Append(known[o][t], signed.signer)
          BY <1>2, <2>1, <3>1 DEF TypeOK
        <4> QED
          BY <1>3, <2>3, <2>5, <3>1, <4>1, AppendFacts
      <3>2. CASE ~(q = o /\ signed.ticker = t)
        <4>1. known'[o][t] = known[o][t]
          BY <1>2, <2>1, <2>3, <3>2 DEF TypeOK
        <4> QED
          BY <2>5, <3>2, <4>1
      <3> QED
        BY <3>1, <3>2
    <2> QED
      BY <1>4, <1>6, <2>1, <2>7, <2>8, <2>9
  <1>17. ~Close
    BY DEF Close
  <1>18. ASSUME NEW q \in Peers, SessionPolls(q)
         PROVE  Conserved'
    BY <1>9, <1>18 DEF SessionPolls
  <1>19. Conserved'
    BY <1>10, <1>11, <1>12, <1>13, <1>14, <1>15, <1>16, <1>17, <1>18
       DEF Next, PollNext
  <1> QED
    BY <1>19 DEF s, E, o
-----------------------------------------------------------------------------
(***************************************************************************)
(* The theorems.                                                           *)
(***************************************************************************)

LEMMA GossipInvariant == Spec => []GossipInv
  <1>1. GossipInv /\ [Next]_vars => GossipInv'
    BY NextType, NextCalls, NextConserved DEF GossipInv
  <1> QED
    BY <1>1, InitGossip, PTL DEF Spec

\* Messages are well formed and the channel of broadcasts keeps its capacity.
THEOREM GossipTypeCorrect == Spec => []TypeOK
  <1>1. GossipInv => TypeOK
    BY DEF GossipInv
  <1> QED
    BY <1>1, GossipInvariant, PTL

\* While the session lasts and the channel has not overrun, no ticker is lost
\* and none is counted twice, however often the same ticker is fed.
THEOREM TickersCorrect == Spec => []TickersConserved
  <1>1. GossipInv => TickersConserved
    BY DEF GossipInv
  <1> QED
    BY <1>1, GossipInvariant, PTL
=============================================================================
