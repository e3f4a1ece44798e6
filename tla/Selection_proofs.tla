-------------------------- MODULE Selection_proofs --------------------------
(***************************************************************************)
(* Facts about data that the proofs of several components need: every set  *)
(* of numbers has a least one, which stands for induction; every finite    *)
(* set has an entry that no other beats; and what Select keeps.            *)
(***************************************************************************)
EXTENDS Selection, FiniteSetTheorems, SequenceTheorems, TLAPS

\* The least number of a set, from the well-founded inclusion of finite sets.
THEOREM LeastNumber ==
  ASSUME NEW T \in SUBSET Nat, T # {}
  PROVE  \E n \in T : \A m \in T : n <= m
<1> DEFINE Below == {1..n : n \in T}
           R == StrictSubsetOrdering(Nat)
<1>1. IsWellFoundedOn(R, FiniteSubsetsOf(Nat))
  BY FS_StrictSubsetOrderingWellFounded
<1>2. Below \subseteq FiniteSubsetsOf(Nat) /\ Below # {}
  <2>1. ASSUME NEW n \in T PROVE 1..n \in FiniteSubsetsOf(Nat)
    <3>1. n \in Int /\ 1 \in Int /\ 1..n \subseteq Nat
      OBVIOUS
    <3>2. IsFiniteSet(1..n)
      BY <3>1, FS_Interval
    <3> QED
      BY <3>1, <3>2 DEF FiniteSubsetsOf
  <2> QED
    BY <2>1
<1>3. \E x \in Below : \A y \in Below : ~ (<<y, x>> \in R)
  <2> HIDE DEF Below, R
  <2> QED
    BY <1>1, <1>2, WFMin, Zenon
<1>4. PICK n \in T : \A m \in T : ~(<<1..m, 1..n>> \in R)
  BY <1>3
<1>5. ASSUME NEW m \in T, m < n PROVE FALSE
  <2>1. 1..m \subseteq 1..n /\ 1..m \subseteq Nat /\ 1..n \subseteq Nat
    BY <1>5
  <2>2. n \in 1..n /\ n \notin 1..m
    BY <1>5
  <2>3. <<1..m, 1..n>> \in R
    BY <2>1, <2>2, Zenon DEF StrictSubsetOrdering
  <2> QED
    BY <1>4, <2>3
<1> QED
  BY <1>5

\* Induction up to a bound, for a property given as the set of numbers that have it.
LEMMA UpTo ==
  ASSUME NEW n \in Nat, NEW P, 0 \in P, \A i \in 0..(n - 1) : i \in P => i + 1 \in P
  PROVE  \A i \in 0..n : i \in P
<1> SUFFICES ASSUME NEW i \in 0..n, i \notin P PROVE FALSE
  OBVIOUS
<1> DEFINE T == (0..n) \ P
<1>1. T \in SUBSET Nat /\ T # {}
  OBVIOUS
<1>2. PICK least \in T : \A m \in T : least <= m
  <2> HIDE DEF T
  <2> QED
    BY <1>1, LeastNumber
<1>3. least # 0 /\ least - 1 \in 0..(n - 1) /\ least - 1 \in 0..n /\ (least - 1) + 1 = least
  BY <1>2
<1>4. least - 1 \in P
  BY <1>2, <1>3
<1> QED
  BY <1>2, <1>3, <1>4

\* f starts with first, and next gives each later value from its place and the one before.
Solves(f, n, first, next) == f[0] = first /\ \A i \in 1..n : f[i] = next[<<i, f[i - 1]>>]

\* A recursion over 1..n has a function that satisfies it, of the type it keeps.
THEOREM Recursion ==
  ASSUME NEW n \in Nat, NEW V, NEW first \in V, NEW next \in [(1..n) \X V -> V]
  PROVE  \E f \in [0..n -> V] : Solves(f, n, first, next)
<1> DEFINE P == {m \in 0..n : \E f \in [0..m -> V] : Solves(f, m, first, next)}
<1>1. 0 \in P
  <2> DEFINE f == [i \in 0..0 |-> first]
  <2>1. f \in [0..0 -> V] /\ Solves(f, 0, first, next) /\ 0 \in 0..n
    BY DEF Solves
  <2> HIDE DEF f
  <2> QED
    BY <2>1
<1>2. ASSUME NEW m \in 0..(n - 1), m \in P PROVE m + 1 \in P
  <2>1. PICK f \in [0..m -> V] : Solves(f, m, first, next)
    BY <1>2
  <2>2. m \in Nat /\ m + 1 \in 1..n /\ m + 1 \in 0..n /\ m \in 0..m /\ (m + 1) - 1 = m
    OBVIOUS
  <2> DEFINE v == next[<<m + 1, f[m]>>]
             g == [i \in 0..(m + 1) |-> IF i = m + 1 THEN v ELSE f[i]]
  <2>3. v \in V
    BY <2>1, <2>2 DEF Solves
  <2>4. g \in [0..(m + 1) -> V]
    <3> HIDE DEF v
    <3>1. ASSUME NEW i \in 0..(m + 1), i # m + 1 PROVE i \in 0..m
      BY <3>1
    <3> QED
      BY <2>1, <2>3, <3>1
  <2>5. \A i \in 0..m : g[i] = f[i]
    BY <2>2
  <2>6. g[m + 1] = v
    BY <2>2
  <2>7. Solves(g, m + 1, first, next)
    <3> HIDE DEF g
    <3>1. g[0] = first
      BY <2>1, <2>2, <2>5 DEF Solves
    <3>2. ASSUME NEW i \in 1..(m + 1) PROVE g[i] = next[<<i, g[i - 1]>>]
      <4>1. CASE i = m + 1
        BY <2>2, <2>5, <2>6, <4>1
      <4>2. CASE i # m + 1
        <5>1. i \in 1..m /\ i \in 0..m /\ i - 1 \in 0..m
          BY <4>2
        <5> QED
          BY <2>1, <2>5, <5>1 DEF Solves
      <4> QED
        BY <4>1, <4>2
    <3> QED
      BY <3>1, <3>2 DEF Solves
  <2> HIDE DEF g
  <2> QED
    BY <2>2, <2>4, <2>7
<1>3. n \in P
  <2> HIDE DEF P
  <2>1. \A i \in 0..n : i \in P
    BY <1>1, <1>2, UpTo
  <2> QED
    BY <2>1
<1> QED
  BY <1>3

\* The recursion of Select is well defined, and what it keeps are entries that qualify.
LEMMA SelectLoop ==
  ASSUME NEW D, NEW s \in Seq(D), NEW S
  PROVE  \E kept :
           /\ kept[0] = <<>>
           /\ \A i \in 1..Len(s) :
                kept[i] = IF s[i] \in S THEN Append(kept[i - 1], s[i]) ELSE kept[i - 1]
           /\ Select(s, S) = kept[Len(s)]
<1> DEFINE V == Seq(D \cap S)
           next == [x \in (1..Len(s)) \X V |-> IF s[x[1]] \in S THEN Append(x[2], s[x[1]]) ELSE x[2]]
           Keeps(f) == f = [i \in 0..Len(s) |-> IF i = 0 THEN <<>>
                              ELSE IF s[i] \in S THEN Append(f[i - 1], s[i]) ELSE f[i - 1]]
<1>1. Len(s) \in Nat /\ \A i \in 1..Len(s) : s[i] \in D
  OBVIOUS
<1>2. ASSUME NEW x \in (1..Len(s)) \X V PROVE next[x] \in V
  <2>1. x[1] \in 1..Len(s) /\ x[2] \in V
    OBVIOUS
  <2>2. s[x[1]] \in S => s[x[1]] \in D \cap S
    BY <1>1, <2>1
  <2>3. next[x] = IF s[x[1]] \in S THEN Append(x[2], s[x[1]]) ELSE x[2]
    OBVIOUS
  <2> HIDE DEF next
  <2>4. s[x[1]] \in S => Append(x[2], s[x[1]]) \in V
    BY <2>1, <2>2
  <2> QED
    BY <2>1, <2>3, <2>4
<1>3. next \in [(1..Len(s)) \X V -> V] /\ <<>> \in V
  <2>1. next = [x \in (1..Len(s)) \X V |-> next[x]]
    BY Zenon
  <2>2. <<>> \in V
    OBVIOUS
  <2> HIDE DEF next, V
  <2> QED
    BY <1>2, <2>1, <2>2
<1>4. PICK f \in [0..Len(s) -> V] :
        f[0] = <<>> /\ \A i \in 1..Len(s) : f[i] = next[<<i, f[i - 1]>>]
  <2> DEFINE n == Len(s)
             first == <<>>
  <2>1. n \in Nat
    BY <1>1
  <2>2. first \in V
    BY <1>3
  <2>3. next \in [(1..n) \X V -> V]
    BY <1>3
  <2> HIDE DEF next, V, Keeps, n, first
  <2>4. \E f \in [0..n -> V] : Solves(f, n, first, next)
    BY <2>1, <2>2, <2>3, Recursion, Zenon
  <2> QED
    BY <2>4 DEF n, first, Solves
<1>5. ASSUME NEW i \in 1..Len(s)
      PROVE  f[i] = IF s[i] \in S THEN Append(f[i - 1], s[i]) ELSE f[i - 1]
  <2>1. i - 1 \in 0..Len(s)
    BY <1>1
  <2>2. <<i, f[i - 1]>> \in (1..Len(s)) \X V
    BY <2>1
  <2>3. f[i] = next[<<i, f[i - 1]>>]
    BY <1>4
  <2> HIDE DEF V
  <2> QED
    BY <2>2, <2>3
<1>6. Keeps(f)
  <2> HIDE DEF next, V
  <2>1. ASSUME NEW i \in 0..Len(s)
        PROVE  f[i] = IF i = 0 THEN <<>>
                      ELSE IF s[i] \in S THEN Append(f[i - 1], s[i]) ELSE f[i - 1]
    <3>1. i = 0 \/ i \in 1..Len(s)
      BY <1>1
    <3> QED
      BY <1>4, <1>5, <3>1
  <2>2. f = [i \in 0..Len(s) |-> f[i]]
    BY Zenon
  <2> QED
    BY <2>1, <2>2
<1> DEFINE kept == CHOOSE g : Keeps(g)
<1>7. Keeps(kept) /\ Select(s, S) = kept[Len(s)]
  <2>1. Keeps(kept)
    <3> HIDE DEF Keeps
    <3> QED
      BY <1>6
  <2>2. Select(s, S) = kept[Len(s)]
    BY DEF Select
  <2> QED
    BY <2>1, <2>2
<1> HIDE DEF kept
<1>8. kept[0] = <<>>
  <2>1. 0 \in 0..Len(s)
    BY <1>1
  <2> QED
    BY <1>7, <2>1
<1>9. ASSUME NEW i \in 1..Len(s)
      PROVE  kept[i] = IF s[i] \in S THEN Append(kept[i - 1], s[i]) ELSE kept[i - 1]
  <2>1. i \in 0..Len(s) /\ i # 0
    BY <1>1
  <2> QED
    BY <1>7, <2>1
<1> HIDE DEF Keeps
<1> QED
  BY <1>7, <1>8, <1>9

\* What is selected from a sequence are its entries that qualify.
THEOREM SelectEntries ==
  ASSUME NEW D, NEW s \in Seq(D), NEW S
  PROVE  /\ Select(s, S) \in Seq(D \cap S)
         /\ {Select(s, S)[k] : k \in DOMAIN Select(s, S)} = {s[k] : k \in DOMAIN s} \cap S
<1> DEFINE Good(q, i) == /\ q \in Seq(D \cap S)
                         /\ {q[k] : k \in DOMAIN q} = {s[k] : k \in 1..i} \cap S
<1>1. Len(s) \in Nat /\ DOMAIN s = 1..Len(s) /\ \A k \in 1..Len(s) : s[k] \in D
  OBVIOUS
<1>2. PICK kept :
        /\ kept[0] = <<>>
        /\ \A i \in 1..Len(s) :
             kept[i] = IF s[i] \in S THEN Append(kept[i - 1], s[i]) ELSE kept[i - 1]
        /\ Select(s, S) = kept[Len(s)]
  <2> HIDE DEF Good
  <2> QED
    BY SelectLoop
<1> DEFINE P == {i \in 0..Len(s) : Good(kept[i], i)}
<1>3. 0 \in P
  <2>1. 0 \in 0..Len(s)
    BY <1>1
  <2>2. kept[0] = <<>>
    BY <1>2
  <2>3. <<>> \in Seq(D \cap S) /\ DOMAIN <<>> = {} /\ 1..0 = {}
    OBVIOUS
  <2>4. Good(<<>>, 0)
    BY <2>3, Zenon
  <2> HIDE DEF Good
  <2> QED
    BY <2>1, <2>2, <2>4
<1>4. ASSUME NEW i \in 0..(Len(s) - 1), i \in P PROVE i + 1 \in P
  <2>1. i + 1 \in 1..Len(s) /\ i + 1 \in 0..Len(s) /\ i + 1 # 0 /\ (i + 1) - 1 = i /\ i \in Nat
    BY <1>1
  <2>2. kept[i + 1] = IF s[i + 1] \in S THEN Append(kept[i], s[i + 1]) ELSE kept[i]
    BY <1>2, <2>1
  <2>3. {s[k] : k \in 1..(i + 1)} = {s[k] : k \in 1..i} \cup {s[i + 1]}
    BY <2>1
  <2>4. s[i + 1] \in D
    BY <1>1, <2>1
  <2>5. Good(kept[i], i)
    BY <1>4
  <2>6. Good(kept[i + 1], i + 1)
    <3>1. CASE s[i + 1] \in S
      <4> DEFINE q == kept[i]
                 r == Append(q, s[i + 1])
      <4>1. r \in Seq(D \cap S)
        BY <2>4, <2>5, <3>1
      <4>2. DOMAIN q = 1..Len(q) /\ Len(q) \in Nat /\ DOMAIN r = 1..(Len(q) + 1)
        BY <2>5, <2>4, <3>1
      <4>3. r[Len(q) + 1] = s[i + 1] /\ \A k \in 1..Len(q) : r[k] = q[k]
        BY <2>5, <2>4, <3>1
      <4>4. {r[k] : k \in DOMAIN r} = {q[k] : k \in DOMAIN q} \cup {s[i + 1]}
        <5> HIDE DEF r, q
        <5>1. ASSUME NEW k \in DOMAIN r PROVE r[k] \in {q[m] : m \in DOMAIN q} \cup {s[i + 1]}
          BY <4>2, <4>3
        <5>2. ASSUME NEW k \in DOMAIN q PROVE k \in DOMAIN r /\ r[k] = q[k]
          BY <4>2, <4>3
        <5>3. Len(q) + 1 \in DOMAIN r
          BY <4>2
        <5> QED
          BY <4>3, <5>1, <5>2, <5>3
      <4>5. Good(r, i + 1)
        <5>1. {q[k] : k \in DOMAIN q} = {s[k] : k \in 1..i} \cap S
          BY <2>5
        <5> HIDE DEF r, q
        <5>2. {r[k] : k \in DOMAIN r} = {s[k] : k \in 1..(i + 1)} \cap S
          BY <2>3, <3>1, <4>4, <5>1
        <5> QED
          BY <4>1, <5>2
      <4> HIDE DEF Good
      <4> QED
        BY <2>2, <3>1, <4>5
    <3>2. CASE s[i + 1] \notin S
      BY <2>2, <2>3, <2>5, <3>2
    <3> QED
      BY <3>1, <3>2
  <2> QED
    BY <2>1, <2>6
<1>5. Len(s) \in P
  <2> HIDE DEF P
  <2>1. \A i \in 0..Len(s) : i \in P
    BY <1>1, <1>3, <1>4, UpTo
  <2> QED
    BY <1>1, <2>1
<1>6. Good(kept[Len(s)], Len(s)) /\ Select(s, S) = kept[Len(s)]
  BY <1>2, <1>5
<1> HIDE DEF P
<1> QED
  BY <1>1, <1>6

\* A nonempty finite set has an entry that no other beats, for any transitive order
\* that beats nothing with itself, given as the set of its pairs.
LEMMA Unbeaten ==
  ASSUME NEW S, IsFiniteSet(S), S # {}, NEW R,
         \A x \in S : <<x, x>> \notin R,
         \A x, y, z \in S : <<x, y>> \in R /\ <<y, z>> \in R => <<x, z>> \in R
  PROVE  \E x \in S : \A y \in S : <<y, x>> \notin R
<1> DEFINE Beaters(x) == {y \in S : <<y, x>> \in R}
           T == {Cardinality(Beaters(x)) : x \in S}
<1>1. ASSUME NEW x \in S PROVE IsFiniteSet(Beaters(x)) /\ Cardinality(Beaters(x)) \in Nat
  <2>1. IsFiniteSet(Beaters(x))
    BY FS_Subset
  <2> QED
    BY <2>1, FS_CardinalityType
<1>2. T \in SUBSET Nat /\ T # {}
  <2> HIDE DEF Beaters
  <2> QED
    BY <1>1
<1>3. PICK n \in T : \A m \in T : n <= m
  <2> HIDE DEF T
  <2> QED
    BY <1>2, LeastNumber
<1>4. PICK x \in S : n = Cardinality(Beaters(x))
  BY <1>3
<1>5. ASSUME NEW y \in S, <<y, x>> \in R PROVE FALSE
  <2>1. Beaters(y) \subseteq Beaters(x) /\ Beaters(y) # Beaters(x)
    BY <1>5
  <2>2. Cardinality(Beaters(y)) < Cardinality(Beaters(x))
    <3> HIDE DEF Beaters
    <3>1. Cardinality(Beaters(y)) <= Cardinality(Beaters(x))
          /\ (Cardinality(Beaters(y)) = Cardinality(Beaters(x)) => Beaters(y) = Beaters(x))
      BY <1>1, <2>1, FS_Subset
    <3> QED
      BY <1>1, <2>1, <3>1
  <2>3. n <= Cardinality(Beaters(y))
    <3> HIDE DEF Beaters
    <3> QED
      BY <1>3
  <2> QED
    <3> HIDE DEF Beaters, T
    <3> QED
      BY <1>1, <1>4, <2>2, <2>3
<1> QED
  BY <1>5
=============================================================================
