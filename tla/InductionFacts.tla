---------------------------- MODULE InductionFacts ---------------------------
(***************************************************************************)
(* Induction and recursion without operator parameters: what holds for     *)
(* every natural number is shown by looking at the least one for which it  *)
(* does not, and what a recursive function computes by looking at the least*)
(* argument for which it computes something else.                          *)
(***************************************************************************)
EXTENDS Integers, Sequences, SequencesExt, FiniteSetTheorems, SequenceTheorems,
        WellFoundedInduction, TLAPS

\* A set of natural numbers that is not empty has a least element.
LEMMA LeastNatural ==
  ASSUME NEW T \in SUBSET Nat, T # {}
  PROVE  \E m \in T : \A n \in T : m <= n
  <1>1. PICK t \in T : TRUE
    OBVIOUS
  <1> DEFINE S == 0 .. t
             P == {0 .. m : m \in {n \in T : n <= t}}
  <1>2. IsWellFoundedOn(StrictSubsetOrdering(S), FiniteSubsetsOf(S))
    BY FS_StrictSubsetOrderingWellFounded
  <1>3. P \subseteq FiniteSubsetsOf(S) /\ P # {}
    <2>1. ASSUME NEW m \in T, m <= t
          PROVE  0 .. m \in FiniteSubsetsOf(S)
      <3>1. IsFiniteSet(0 .. m)
        BY FS_Interval
      <3>2. 0 .. m \subseteq S
        BY <2>1
      <3> QED
        BY <3>1, <3>2 DEF FiniteSubsetsOf
    <2> QED
      BY <1>1, <2>1
  <1> HIDE DEF P
  <1>4. PICK x \in P : \A y \in P : ~ (<<y, x>> \in StrictSubsetOrdering(S))
    BY <1>2, <1>3, WFMin
  <1>5. PICK m \in T : m <= t /\ x = 0 .. m
    BY DEF P
  <1>6. ASSUME NEW n \in T, n < m
        PROVE  FALSE
    <2>1. 0 .. n \in P
      BY <1>5, <1>6 DEF P
    <2>2. 0 .. n \subseteq 0 .. m /\ m \in 0 .. m /\ m \notin 0 .. n
      BY <1>6
    <2>3. 0 .. n \in SUBSET S /\ 0 .. m \in SUBSET S
      BY <1>5, <1>6
    <2> QED
      BY <2>1, <2>2, <2>3, <1>4, <1>5 DEF StrictSubsetOrdering
  <1> QED
    BY <1>5, <1>6

\* A set of numbers up to n that holds 0 and goes from each number to the next
\* holds all of them.
LEMMA Induction ==
  ASSUME NEW n \in Nat, NEW T, 0 \in T, \A i \in 1 .. n : i - 1 \in T => i \in T
  PROVE  0 .. n \subseteq T
  <1> DEFINE Bad == {i \in 0 .. n : i \notin T}
  <1> SUFFICES ASSUME Bad # {}
               PROVE  FALSE
    OBVIOUS
  <1>1. Bad \in SUBSET Nat
    OBVIOUS
  <1>2. PICK m \in Bad : \A i \in Bad : m <= i
    BY <1>1, LeastNatural
  <1>3. m \in 1 .. n /\ m - 1 \in 0 .. n /\ m - 1 \notin Bad
    BY <1>2
  <1> QED
    BY <1>3

\* n steps on A, and the values from which and to which they lead from a.
Steps(n, A) == [1 .. n -> [A -> A]]

Computes(f, n, A, a, g) ==
  /\ f \in [0 .. n -> A]
  /\ f[0] = a
  /\ \A i \in 1 .. n : f[i] = g[i][f[i - 1]]

\* A function that is defined by recursion on the numbers up to n exists.
LEMMA Recursion ==
  ASSUME NEW n \in Nat, NEW A, NEW a \in A, NEW g \in Steps(n, A)
  PROVE  \E f : Computes(f, n, A, a, g)
  <1> DEFINE Solves(f, m) == f[0] = a /\ \A i \in 1 .. m : f[i] = g[i][f[i - 1]]
             T == {m \in 0 .. n : \E f \in [0 .. m -> A] : Solves(f, m)}
  <1>1. 0 \in T
    <2> DEFINE h == [i \in 0 .. 0 |-> a]
    <2>1. h \in [0 .. 0 -> A] /\ h[0] = a
      OBVIOUS
    <2> HIDE DEF h
    <2>2. Solves(h, 0)
      BY <2>1
    <2>3. 0 \in 0 .. n
      OBVIOUS
    <2> QED
      BY <2>1, <2>2, <2>3
  <1>2. ASSUME NEW m \in 1 .. n, m - 1 \in T
        PROVE  m \in T
    <2>1. PICK f \in [0 .. m - 1 -> A] : Solves(f, m - 1)
      BY <1>2
    <2> DEFINE h == [i \in 0 .. m |-> IF i = m THEN g[m][f[m - 1]] ELSE f[i]]
    <2>2. m - 1 \in 0 .. m - 1 /\ f[m - 1] \in A
      OBVIOUS
    <2>3. h \in [0 .. m -> A]
      BY <2>2 DEF Steps
    <2>4. h[0] = a
      BY <2>1
    <2>5. ASSUME NEW i \in 1 .. m
          PROVE  h[i] = g[i][h[i - 1]]
      <3>1. i - 1 \in 0 .. m - 1 /\ h[i - 1] = f[i - 1]
        OBVIOUS
      <3>2. CASE i = m
        <4>1. m \in 0 .. m /\ h[m] = g[m][f[m - 1]]
          OBVIOUS
        <4>2. h[m - 1] = f[m - 1]
          BY <3>1, <3>2
        <4> QED
          BY <4>1, <4>2, <3>2, Zenon
      <3>3. CASE i # m
        <4>1. i \in 1 .. m - 1 /\ h[i] = f[i]
          BY <3>3
        <4> QED
          BY <3>1, <4>1, <2>1
      <3> QED
        BY <3>2, <3>3
    <2> HIDE DEF h
    <2>6. Solves(h, m)
      BY <2>4, <2>5
    <2> HIDE DEF Solves
    <2> QED
      BY <2>3, <2>6
  <1> HIDE DEF T
  <1>3. n \in T
    BY <1>1, <1>2, Induction
  <1> QED
    BY <1>3 DEF T, Computes
-----------------------------------------------------------------------------
\* No value is twice in the sequence.
Distinct(s) == \A i, j \in DOMAIN s : s[i] = s[j] => i = j

\* The values of a concatenation are those of its parts, and distinct when they
\* are distinct in each part and the parts have none in common.
LEMMA ConcatFacts ==
  ASSUME NEW A, NEW s \in Seq(A), NEW t \in Seq(A)
  PROVE  /\ s \o t \in Seq(A)
         /\ ToSet(s \o t) = ToSet(s) \cup ToSet(t)
         /\ Distinct(s) /\ Distinct(t) /\ ToSet(s) \cap ToSet(t) = {} => Distinct(s \o t)
  <1> DEFINE u == s \o t
  <1>1. /\ u \in Seq(A) /\ Len(u) = Len(s) + Len(t)
        /\ \A i \in 1 .. Len(s) : u[i] = s[i]
        /\ \A i \in 1 .. Len(t) : u[Len(s) + i] = t[i]
        /\ \A i \in 1 .. Len(u) : i > Len(s) => i - Len(s) \in 1 .. Len(t) /\ u[i] = t[i - Len(s)]
    OBVIOUS
  <1>2. DOMAIN u = 1 .. Len(u) /\ DOMAIN s = 1 .. Len(s) /\ DOMAIN t = 1 .. Len(t)
    BY <1>1
  <1>3. Len(s) \in Nat /\ Len(t) \in Nat
    OBVIOUS
  <1> HIDE DEF u
  <1>4. ToSet(u) = ToSet(s) \cup ToSet(t)
    <2>1. ASSUME NEW i \in DOMAIN u
          PROVE  u[i] \in ToSet(s) \cup ToSet(t)
      <3>1. CASE i <= Len(s)
        <4>1. i \in DOMAIN s /\ u[i] = s[i]
          BY <3>1, <1>1, <1>2, <1>3
        <4> QED
          BY <4>1 DEF ToSet
      <3>2. CASE i > Len(s)
        <4>1. i - Len(s) \in DOMAIN t /\ u[i] = t[i - Len(s)]
          BY <3>2, <1>1, <1>2, <1>3
        <4> QED
          BY <4>1 DEF ToSet
      <3> QED
        BY <3>1, <3>2, <1>2, <1>3
    <2>2. ASSUME NEW i \in DOMAIN s
          PROVE  s[i] \in ToSet(u)
      BY <1>1, <1>2, <1>3 DEF ToSet
    <2>3. ASSUME NEW i \in DOMAIN t
          PROVE  t[i] \in ToSet(u)
      <3>1. Len(s) + i \in DOMAIN u /\ u[Len(s) + i] = t[i]
        BY <1>1, <1>2, <1>3
      <3> QED
        BY <3>1 DEF ToSet
    <2> QED
      BY <2>1, <2>2, <2>3 DEF ToSet
  <1>5. ASSUME Distinct(s), Distinct(t), ToSet(s) \cap ToSet(t) = {},
               NEW i \in DOMAIN u, NEW j \in DOMAIN u, u[i] = u[j]
        PROVE  i = j
    <2>1. /\ (i \in DOMAIN s /\ u[i] = s[i]) \/ (i - Len(s) \in DOMAIN t /\ u[i] = t[i - Len(s)])
          /\ (j \in DOMAIN s /\ u[j] = s[j]) \/ (j - Len(s) \in DOMAIN t /\ u[j] = t[j - Len(s)])
          /\ i \in Int /\ j \in Int
      BY <1>1, <1>2, <1>3
    <2>2. CASE i \in DOMAIN s /\ u[i] = s[i] /\ j \in DOMAIN s /\ u[j] = s[j]
      BY <2>2, <1>5, Zenon DEF Distinct
    <2>3. CASE /\ i - Len(s) \in DOMAIN t /\ u[i] = t[i - Len(s)]
               /\ j - Len(s) \in DOMAIN t /\ u[j] = t[j - Len(s)]
      <3>1. i - Len(s) = j - Len(s)
        BY <2>3, <1>5, Zenon DEF Distinct
      <3> QED
        BY <3>1, <2>1, <1>3
    <2>4. ASSUME NEW k \in DOMAIN s, NEW l \in DOMAIN t, s[k] = t[l]
          PROVE  FALSE
      <3>1. s[k] \in ToSet(s) /\ t[l] \in ToSet(t)
        BY DEF ToSet
      <3> QED
        BY <3>1, <2>4, <1>5
    <2> QED
      BY <2>1, <2>2, <2>3, <2>4, <1>5
  <1> QED
    BY <1>1, <1>4, <1>5 DEF Distinct, u

\* FlattenSeq concatenates one part after the other.
LEMMA FlattenUnfolds ==
  ASSUME NEW A, NEW seqs \in Seq(Seq(A)), Len(seqs) > 0
  PROVE  \E f \in [1 .. Len(seqs) -> Seq(A)] :
           /\ f[1] = seqs[1]
           /\ \A i \in 2 .. Len(seqs) : f[i] = f[i - 1] \o seqs[i]
           /\ FlattenSeq(seqs) = f[Len(seqs)]
  <1> DEFINE n == Len(seqs)
             Is(f) == f = [i \in 1 .. n |-> IF i = 1 THEN seqs[i] ELSE f[i - 1] \o seqs[i]]
             g == [i \in 1 .. n |-> [s \in Seq(A) |-> s \o seqs[i]]]
  <1>1. n \in Nat /\ n > 0 /\ <<>> \in Seq(A) /\ \A i \in 1 .. n : seqs[i] \in Seq(A)
    OBVIOUS
  <1>2. g \in [1 .. n -> [Seq(A) -> Seq(A)]]
    BY <1>1
  <1>3. \A i \in 1 .. n, s \in Seq(A) : g[i][s] = s \o seqs[i]
    BY <1>1
  <1> HIDE DEF g
  <1>4. PICK r : /\ r \in [0 .. n -> Seq(A)]
                 /\ r[0] = <<>>
                 /\ \A i \in 1 .. n : r[i] = g[i][r[i - 1]]
    <2>1. g \in Steps(n, Seq(A))
      BY <1>2 DEF Steps
    <2>2. \E r : Computes(r, n, Seq(A), <<>>, g)
      BY <2>1, <1>1, Recursion
    <2> QED
      BY <2>2 DEF Computes
  <1> DEFINE h == [i \in 1 .. n |-> r[i]]
  <1>5. \A i \in 1 .. n : r[i - 1] \in Seq(A) /\ r[i] = r[i - 1] \o seqs[i]
    <2>1. ASSUME NEW i \in 1 .. n
          PROVE  i - 1 \in 0 .. n
      BY <1>1
    <2> HIDE DEF n
    <2> QED
      BY <1>3, <1>4, <2>1
  <1>6. r[1] = seqs[1]
    <2>1. 1 \in 1 .. n /\ 1 - 1 = 0
      BY <1>1
    <2>2. r[1] = <<>> \o seqs[1] /\ seqs[1] \in Seq(A)
      BY <2>1, <1>1, <1>4, <1>5
    <2> QED
      BY <2>2
  <1>7. Is(h)
    <2>1. ASSUME NEW i \in 1 .. n
          PROVE  r[i] = IF i = 1 THEN seqs[i] ELSE h[i - 1] \o seqs[i]
      <3>1. CASE i = 1
        BY <3>1, <1>6
      <3>2. CASE i # 1
        <4>1. i - 1 \in 1 .. n
          BY <3>2, <1>1
        <4>2. h[i - 1] = r[i - 1]
          BY <4>1
        <4> QED
          BY <3>2, <4>2, <1>5
      <3> QED
        BY <3>1, <3>2
    <2> QED
      BY <2>1
  <1> HIDE DEF h
  <1>8. Is(CHOOSE f : Is(f))
    <2> HIDE DEF Is
    <2> QED
      BY <1>7, Zenon
  <1> DEFINE F == CHOOSE f : Is(f)
  <1>9. FlattenSeq(seqs) = F[n]
    BY <1>1 DEF FlattenSeq
  <1> HIDE DEF F
  <1>10. F = [i \in 1 .. n |-> IF i = 1 THEN seqs[i] ELSE F[i - 1] \o seqs[i]]
    BY <1>8 DEF F
  <1>11. F[1] = seqs[1] /\ \A i \in 2 .. n : F[i] = F[i - 1] \o seqs[i]
    <2>1. \A i \in 1 .. n : F[i] = IF i = 1 THEN seqs[i] ELSE F[i - 1] \o seqs[i]
      BY <1>10
    <2>2. 1 \in 1 .. n /\ \A i \in 2 .. n : i \in 1 .. n /\ i # 1
      BY <1>1
    <2> HIDE DEF n
    <2> QED
      BY <2>1, <2>2
  <1>12. \A i \in 1 .. n : F[i] \in Seq(A)
    <2> DEFINE T == {i \in 0 .. n : i = 0 \/ F[i] \in Seq(A)}
    <2>1. ASSUME NEW i \in 1 .. n, i - 1 \in T
          PROVE  i \in T
      <3>1. CASE i = 1
        BY <3>1, <1>1, <1>11
      <3>2. CASE i # 1
        <4>1. i \in 2 .. n /\ F[i - 1] \in Seq(A) /\ seqs[i] \in Seq(A)
          BY <3>2, <2>1, <1>1
        <4>2. F[i] = F[i - 1] \o seqs[i]
          BY <4>1, <1>11
        <4>3. F[i] \in Seq(A)
          BY <4>1, <4>2
        <4> QED
          BY <4>3
      <3> QED
        BY <3>1, <3>2
    <2>2. 0 \in T
      BY <1>1
    <2>3. 0 .. n \subseteq T
      <3> HIDE DEF T, n
      <3> QED
        BY <1>1, <2>1, <2>2, Induction
    <2>4. \A i \in 1 .. n : i \in 0 .. n /\ i # 0
      BY <1>1
    <2> HIDE DEF n
    <2> QED
      BY <2>3, <2>4
  <1>13. F \in [1 .. n -> Seq(A)]
    <2>1. F = [i \in 1 .. n |-> F[i]]
      BY <1>10
    <2> HIDE DEF n
    <2> QED
      BY <2>1, <1>12
  <1> QED
    BY <1>9, <1>11, <1>13

\* The values of a flattened sequence are those of its parts, and distinct when
\* they are distinct in each part and no two parts have one in common.
LEMMA FlattenFacts ==
  ASSUME NEW A, NEW seqs \in Seq(Seq(A))
  PROVE  /\ FlattenSeq(seqs) \in Seq(A)
         /\ ToSet(FlattenSeq(seqs)) = UNION {ToSet(seqs[i]) : i \in DOMAIN seqs}
         /\ /\ \A i \in DOMAIN seqs : Distinct(seqs[i])
            /\ \A i, j \in DOMAIN seqs : i # j => ToSet(seqs[i]) \cap ToSet(seqs[j]) = {}
            => Distinct(FlattenSeq(seqs))
  <1> DEFINE n == Len(seqs)
             Parts == /\ \A i \in DOMAIN seqs : Distinct(seqs[i])
                      /\ \A i, j \in DOMAIN seqs :
                           i # j => ToSet(seqs[i]) \cap ToSet(seqs[j]) = {}
             Union(i) == UNION {ToSet(seqs[j]) : j \in 1 .. i}
  <1>1. n \in Nat /\ DOMAIN seqs = 1 .. n /\ \A i \in 1 .. n : seqs[i] \in Seq(A)
    OBVIOUS
  <1>2. CASE n = 0
    <2>1. FlattenSeq(seqs) = seqs /\ seqs = <<>> /\ DOMAIN seqs = {}
      BY <1>1, <1>2 DEF FlattenSeq
    <2> QED
      BY <2>1 DEF ToSet, Distinct
  <1>3. CASE n > 0
    <2>1. PICK f \in [1 .. n -> Seq(A)] :
            /\ f[1] = seqs[1]
            /\ \A i \in 2 .. n : f[i] = f[i - 1] \o seqs[i]
            /\ FlattenSeq(seqs) = f[n]
      BY <1>3, FlattenUnfolds
    <2> HIDE DEF n, Parts
    <2> DEFINE T == {i \in 0 .. n : i = 0 \/ (ToSet(f[i]) = Union(i)
                                              /\ (Parts => Distinct(f[i])))}
    <2>2. ASSUME NEW i \in 1 .. n, i - 1 \in T
          PROVE  i \in T
      <3>1. CASE i = 1
        <4>1. f[1] = seqs[1] /\ 1 \in 1 .. n /\ 1 .. 1 = {1}
          BY <2>1, <1>1, <1>3
        <4>2. Union(1) = ToSet(seqs[1])
          BY <4>1
        <4>3. Parts => Distinct(f[1])
          BY <4>1, <1>1 DEF Parts
        <4> QED
          BY <3>1, <4>1, <4>2, <4>3
      <3>2. CASE i # 1
        <4>1. i \in 2 .. n /\ i - 1 \in 1 .. n /\ i - 1 # 0
          BY <3>2, <1>1
        <4>2. ToSet(f[i - 1]) = Union(i - 1) /\ (Parts => Distinct(f[i - 1]))
          BY <4>1, <2>2
        <4>3. f[i - 1] \in Seq(A) /\ seqs[i] \in Seq(A) /\ f[i] = f[i - 1] \o seqs[i]
          BY <4>1, <2>1, <1>1
        <4>4. 1 .. i = (1 .. i - 1) \cup {i} /\ i \notin 1 .. i - 1 /\ 1 .. i \subseteq 1 .. n
          BY <4>1, <1>1
        <4>5. Union(i) = Union(i - 1) \cup ToSet(seqs[i])
          BY <4>4
        <4>6. Parts => Distinct(seqs[i]) /\ Union(i - 1) \cap ToSet(seqs[i]) = {}
          <5> SUFFICES ASSUME Parts
                       PROVE  Distinct(seqs[i]) /\ Union(i - 1) \cap ToSet(seqs[i]) = {}
            OBVIOUS
          <5>1. Distinct(seqs[i])
            BY <1>1 DEF Parts
          <5>2. \A j \in 1 .. i - 1 : ToSet(seqs[j]) \cap ToSet(seqs[i]) = {}
            BY <4>4, <1>1 DEF Parts
          <5> QED
            BY <5>1, <5>2
        <4>7. /\ ToSet(f[i]) = ToSet(f[i - 1]) \cup ToSet(seqs[i])
              /\ Distinct(f[i - 1]) /\ Distinct(seqs[i])
                   /\ ToSet(f[i - 1]) \cap ToSet(seqs[i]) = {} => Distinct(f[i])
          BY <4>3, ConcatFacts
        <4> HIDE DEF Union
        <4>8. ToSet(f[i]) = Union(i) /\ (Parts => Distinct(f[i]))
          BY <4>2, <4>5, <4>6, <4>7
        <4> QED
          BY <4>8
      <3> QED
        BY <3>1, <3>2
    <2>3. 0 \in T
      BY <1>1
    <2>4. 0 .. n \subseteq T
      <3> HIDE DEF T
      <3> QED
        BY <1>1, <2>2, <2>3, Induction
    <2>5. n \in T /\ n # 0 /\ n \in 1 .. n
      <3>1. n \in 0 .. n /\ n # 0 /\ n \in 1 .. n
        BY <1>1, <1>3
      <3> HIDE DEF T
      <3> QED
        BY <2>4, <3>1
    <2>6. ToSet(f[n]) = Union(n) /\ (Parts => Distinct(f[n])) /\ f[n] \in Seq(A)
      BY <2>5
    <2> QED
      BY <2>6, <2>1, <1>1 DEF Parts
  <1> QED
    BY <1>1, <1>2, <1>3
\* What the first value and the rest of a sequence have to do with its values.
LEMMA HeadTailFacts ==
  ASSUME NEW A, NEW s \in Seq(A), s # <<>>, Distinct(s)
  PROVE  /\ Head(s) \in A
         /\ Head(s) \in ToSet(s)
         /\ Tail(s) \in Seq(A)
         /\ Distinct(Tail(s))
         /\ ToSet(Tail(s)) = ToSet(s) \ {Head(s)}
  <1>1. /\ Len(s) \in Nat /\ Len(s) > 0 /\ DOMAIN s = 1 .. Len(s)
        /\ Head(s) = s[1] /\ Head(s) \in A
        /\ Tail(s) \in Seq(A) /\ Len(Tail(s)) = Len(s) - 1
        /\ DOMAIN Tail(s) = 1 .. Len(s) - 1
        /\ \A i \in 1 .. Len(s) - 1 : Tail(s)[i] = s[i + 1]
    OBVIOUS
  <1>2. Head(s) \in ToSet(s)
    BY <1>1 DEF ToSet
  <1>3. Distinct(Tail(s))
    <2> SUFFICES ASSUME NEW i \in 1 .. Len(s) - 1, NEW j \in 1 .. Len(s) - 1,
                        Tail(s)[i] = Tail(s)[j]
                 PROVE  i = j
      BY <1>1 DEF Distinct
    <2>1. i + 1 \in DOMAIN s /\ j + 1 \in DOMAIN s /\ s[i + 1] = s[j + 1]
      BY <1>1
    <2>2. i + 1 = j + 1
      BY <2>1 DEF Distinct
    <2> QED
      BY <2>2
  <1>4. ASSUME NEW x \in ToSet(Tail(s))
        PROVE  x \in ToSet(s) \ {Head(s)}
    <2>1. PICK i \in 1 .. Len(s) - 1 : x = Tail(s)[i]
      BY <1>1 DEF ToSet
    <2>2. i + 1 \in DOMAIN s /\ 1 \in DOMAIN s /\ i + 1 # 1 /\ x = s[i + 1]
      BY <2>1, <1>1
    <2> QED
      BY <2>2, <1>1 DEF ToSet, Distinct
  <1>5. ASSUME NEW x \in ToSet(s), x # Head(s)
        PROVE  x \in ToSet(Tail(s))
    <2>1. PICK i \in 1 .. Len(s) : x = s[i]
      BY <1>1 DEF ToSet
    <2>2. i - 1 \in DOMAIN Tail(s) /\ Tail(s)[i - 1] = s[i]
      BY <2>1, <1>1, <1>5
    <2> QED
      BY <2>1, <2>2 DEF ToSet
  <1> QED
    BY <1>1, <1>2, <1>3, <1>4, <1>5
=============================================================================
