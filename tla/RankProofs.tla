---------------------------- MODULE RankProofs -----------------------------
(***************************************************************************)
(* Lemmas the proofs about several modules use: induction over the rounds  *)
(* of a loop, by the least round where the claim fails, the rounds of a    *)
(* walk through a graph, and the ranks of a finite set of numbers, which   *)
(* are the numbers from 0 up, one for each member and in their order.      *)
(***************************************************************************)
EXTENDS Ranks, FiniteSetTheorems, WellFoundedInduction, TLAPS

-----------------------------------------------------------------------------
(* Induction over natural numbers.                                         *)

\* Every nonempty set of natural numbers has a least member.
LEMMA LeastNumber ==
    ASSUME NEW T, T \subseteq Nat, T # {}
    PROVE  \E m \in T : \A n \in T : m <= n
<1>1. IsWellFoundedOn(OpToRel(<, Nat), Nat)
  BY NatLessThanWellFounded, Zenon
<1>2. PICK m \in T : \A n \in T : <<n, m>> \notin OpToRel(<, Nat)
  BY <1>1, WFMin, Zenon
<1>3. ASSUME NEW n \in T PROVE m <= n
  <2>1. <<n, m>> \notin OpToRel(<, Nat)
    BY <1>2, Zenon
  <2>2. n \in Nat /\ m \in Nat
    OBVIOUS
  <2>3. ~(n < m)
    BY <2>1, <2>2, Zenon DEF OpToRel
  <2> QED
    BY <2>2, <2>3
<1> QED
  BY <1>3

\* Induction over the rounds of a loop: a set that has 0, and with every number
\* below num the next one, has them all.
LEMMA Rounds ==
    ASSUME NEW num \in Nat, NEW Good, 0 \in Good,
           \A n \in 1 .. num : n - 1 \in Good => n \in Good
    PROVE  0 .. num \subseteq Good
<1> DEFINE Bad == {n \in 0 .. num : n \notin Good}
<1>1. SUFFICES ASSUME Bad # {} PROVE FALSE
  OBVIOUS
<1>2. PICK m \in Bad : \A n \in Bad : m <= n
  <2>1. Bad \subseteq Nat
    OBVIOUS
  <2> HIDE DEF Bad
  <2> QED
    BY <1>1, <2>1, LeastNumber
<1>3. m \in 1 .. num /\ m - 1 \in 0 .. num /\ m - 1 \notin Bad
  BY <1>2
<1> QED
  BY <1>3

-----------------------------------------------------------------------------
(* Walking a graph.                                                        *)

\* What n rounds of expanding everything found reach from S in a graph g, as a
\* function on the rounds.
Spread(g, S, n) ==
    CHOOSE f : f = [i \in 0 .. n |-> IF i = 0 THEN S ELSE f[i - 1] \cup UNION {g[x] : x \in f[i - 1]}]

\* The function exists, and each round adds the lists of what was reached before.
LEMMA SpreadRounds ==
    ASSUME NEW g, NEW S, NEW n \in Nat
    PROVE  /\ Spread(g, S, n)[0] = S
           /\ \A i \in 1 .. n :
                 Spread(g, S, n)[i] = Spread(g, S, n)[i - 1] \cup UNION {g[x] : x \in Spread(g, S, n)[i - 1]}
<1> DEFINE Grown(T) == T \cup UNION {g[x] : x \in T}
           Solves(f, m) == f = [i \in 0 .. m |-> IF i = 0 THEN S ELSE Grown(f[i - 1])]
           Good == {m \in 0 .. n : \E f : Solves(f, m)}
           reach == CHOOSE f : f = [i \in 0 .. n |-> IF i = 0 THEN S ELSE Grown(f[i - 1])]
<1>1. Spread(g, S, n) = reach
  BY DEF Spread
<1> HIDE DEF Grown
<1>2. 0 \in Good
  <2>1. Solves([i \in 0 .. 0 |-> S], 0)
    OBVIOUS
  <2>2. \E f : Solves(f, 0)
    <3> HIDE DEF Solves
    <3> QED
      BY <2>1
  <2> QED
    BY <2>2
<1>3. ASSUME NEW m \in 1 .. n, m - 1 \in Good PROVE m \in Good
  <2>1. PICK f : Solves(f, m - 1)
    BY <1>3
  <2> DEFINE h == [i \in 0 .. m |-> IF i = m THEN Grown(f[m - 1]) ELSE f[i]]
  <2>2. ASSUME NEW i \in 0 .. m PROVE h[i] = IF i = 0 THEN S ELSE Grown(h[i - 1])
    <3>1. CASE i = m
      BY <3>1
    <3>2. CASE i # m
      <4>1. i \in 0 .. m - 1 /\ h[i] = f[i]
        BY <3>2
      <4>2. f[i] = IF i = 0 THEN S ELSE Grown(f[i - 1])
        BY <2>1, <4>1
      <4>3. i # 0 => h[i - 1] = f[i - 1]
        BY <4>1
      <4> QED
        BY <4>1, <4>2, <4>3
    <3> QED
      BY <3>1, <3>2
  <2>3. h = [i \in 0 .. m |-> h[i]]
    OBVIOUS
  <2> HIDE DEF h
  <2>4. Solves(h, m)
    BY <2>2, <2>3
  <2> QED
    BY <2>4
<1>4. \E f : Solves(f, n)
  <2> HIDE DEF Good
  <2>1. 0 .. n \subseteq Good
    BY <1>2, <1>3, Rounds
  <2>2. n \in Good
    BY <2>1
  <2> QED
    BY <2>2 DEF Good
<1>5. reach = [i \in 0 .. n |-> IF i = 0 THEN S ELSE Grown(reach[i - 1])]
  <2>1. reach = CHOOSE f : Solves(f, n)
    OBVIOUS
  <2> HIDE DEF reach
  <2>2. Solves(reach, n)
    <3> HIDE DEF Solves
    <3> QED
      BY <1>4, <2>1
  <2> QED
    BY <2>2
<1> HIDE DEF reach
<1>6. reach[0] = S /\ \A i \in 1 .. n : reach[i] = Grown(reach[i - 1])
  <2>1. 0 \in 0 .. n /\ \A i \in 1 .. n : i \in 0 .. n /\ i # 0
    OBVIOUS
  <2> QED
    BY <1>5, <2>1
<1> QED
  BY <1>1, <1>6 DEF Grown

\* What is reached stays within what encloses the start and is closed under the lists.
LEMMA SpreadWithin ==
    ASSUME NEW g, NEW S, NEW n \in Nat, NEW C, S \subseteq C, \A x \in C : g[x] \subseteq C
    PROVE  Spread(g, S, n)[n] \subseteq C
<1> DEFINE r == Spread(g, S, n)
           Good == {i \in 0 .. n : r[i] \subseteq C}
<1>1. r[0] = S /\ \A i \in 1 .. n : r[i] = r[i - 1] \cup UNION {g[x] : x \in r[i - 1]}
  BY SpreadRounds
<1> HIDE DEF r
<1>2. 0 \in Good
  BY <1>1
<1>3. ASSUME NEW i \in 1 .. n, i - 1 \in Good PROVE i \in Good
  BY <1>1, <1>3
<1>4. 0 .. n \subseteq Good
  <2> HIDE DEF Good
  <2> QED
    BY <1>2, <1>3, Rounds
<1> QED
  BY <1>4 DEF r

-----------------------------------------------------------------------------
(* Ranks.                                                                  *)

\* A rank counts, and a smaller member has a smaller one.
LEMMA RankType ==
    ASSUME NEW S, IsFiniteSet(S), S \subseteq Nat, NEW x
    PROVE  /\ Rank(x, S) \in Nat /\ Rank(x, S) <= Cardinality(S)
           /\ IsFiniteSet({z \in S : z < x})
<1>1. {z \in S : z < x} \in SUBSET S
  OBVIOUS
<1> QED
  BY <1>1, FS_Subset, FS_CardinalityType DEF Rank

LEMMA RankLess ==
    ASSUME NEW S, IsFiniteSet(S), S \subseteq Nat, NEW x \in S, NEW y \in Nat, x < y
    PROVE  Rank(x, S) < Rank(y, S)
<1> DEFINE A == {z \in S : z < x}
           B == {z \in S : z < y}
<1>1. A \in SUBSET B /\ x \in B /\ x \notin A
  <2>1. \A z \in S : z \in Nat /\ (z < x => z < y) /\ ~(x < x)
    OBVIOUS
  <2> QED
    BY <2>1
<1>2. IsFiniteSet(B) /\ Rank(x, S) \in Nat /\ Rank(y, S) \in Nat
  BY RankType
<1>3. Cardinality(A) <= Cardinality(B) /\ (Cardinality(B) = Cardinality(A) => B = A)
  BY <1>1, <1>2, FS_Subset
<1> QED
  BY <1>1, <1>2, <1>3 DEF Rank

\* Members have different ranks, below the number of members.
LEMMA RankInjective ==
    ASSUME NEW S, IsFiniteSet(S), S \subseteq Nat, NEW x \in S, NEW y \in S, Rank(x, S) = Rank(y, S)
    PROVE  x = y
<1>1. x \in Nat /\ y \in Nat /\ Rank(x, S) \in Nat
  BY RankType
<1>2. ASSUME x < y PROVE FALSE
  <2>1. Rank(x, S) < Rank(y, S)
    BY <1>1, <1>2, RankLess
  <2> QED
    BY <1>1, <2>1
<1>3. ASSUME y < x PROVE FALSE
  <2>1. Rank(y, S) < Rank(x, S)
    BY <1>1, <1>3, RankLess
  <2> QED
    BY <1>1, <2>1
<1> QED
  BY <1>1, <1>2, <1>3

LEMMA RankBelow ==
    ASSUME NEW S, IsFiniteSet(S), S \subseteq Nat, NEW x \in S
    PROVE  Rank(x, S) < Cardinality(S)
<1> DEFINE A == {z \in S : z < x}
<1>1. A \in SUBSET S /\ x \notin A
  OBVIOUS
<1>2. Cardinality(A) <= Cardinality(S) /\ (Cardinality(S) = Cardinality(A) => S = A)
  BY <1>1, FS_Subset
<1>3. Rank(x, S) \in Nat /\ Cardinality(S) \in Nat
  BY RankType, FS_CardinalityType
<1> QED
  BY <1>1, <1>2, <1>3 DEF Rank

\* A rank is not above the number itself.
LEMMA RankAtMost ==
    ASSUME NEW S, IsFiniteSet(S), S \subseteq Nat, NEW x \in Nat
    PROVE  Rank(x, S) <= x
<1> DEFINE A == {z \in S : z < x}
<1>1. A \in SUBSET (0 .. x - 1)
  <2>1. \A z \in S : z < x => z \in 0 .. x - 1
    OBVIOUS
  <2> QED
    BY <2>1
<1>2. IsFiniteSet(0 .. x - 1) /\ Cardinality(0 .. x - 1) = x
  BY FS_Interval
<1>3. Cardinality(A) <= x
  BY <1>1, <1>2, FS_Subset
<1> QED
  BY <1>3 DEF Rank

\* Every number below the number of members is the rank of one.
LEMMA RankOnto ==
    ASSUME NEW S, IsFiniteSet(S), S \subseteq Nat, NEW i \in 0 .. Cardinality(S) - 1
    PROVE  \E x \in S : Rank(x, S) = i
<1> DEFINE T == 0 .. Cardinality(S) - 1
           f == [x \in S |-> Rank(x, S)]
<1>1. Cardinality(S) \in Nat
  BY FS_CardinalityType
<1>2. IsFiniteSet(T) /\ Cardinality(T) = Cardinality(S)
  BY <1>1, FS_Interval
<1>3. f \in Injection(S, T)
  <2>1. ASSUME NEW x \in S PROVE Rank(x, S) \in T
    <3>1. Rank(x, S) \in Nat
      BY RankType
    <3>2. Rank(x, S) < Cardinality(S)
      BY RankBelow
    <3> QED
      BY <1>1, <3>1, <3>2
  <2>2. f \in [S -> T]
    BY <2>1
  <2>3. \A x, y \in S : f[x] = f[y] => x = y
    BY RankInjective
  <2> QED
    BY <2>2, <2>3 DEF Injection, IsInjective
<1>4. f \in Surjection(S, T)
  BY <1>2, <1>3, FS_Injection
<1> QED
  BY <1>4 DEF Surjection

\* The members in order: each once, at its rank.
LEMMA RankOrderType ==
    ASSUME NEW S, IsFiniteSet(S), S \subseteq Nat
    PROVE  /\ Cardinality(S) \in Nat
           /\ RankOrder(S) \in [1 .. Cardinality(S) -> S]
           /\ \A n \in 1 .. Cardinality(S) : Rank(RankOrder(S)[n], S) = n - 1
           /\ \A x \in S : /\ Rank(x, S) + 1 \in 1 .. Cardinality(S)
                           /\ RankOrder(S)[Rank(x, S) + 1] = x
<1> DEFINE k == Cardinality(S)
           At(n) == CHOOSE x \in S : Rank(x, S) = n - 1
<1>1. k \in Nat
  BY FS_CardinalityType
<1>2. ASSUME NEW n \in 1 .. k PROVE At(n) \in S /\ Rank(At(n), S) = n - 1
  <2>1. n - 1 \in 0 .. Cardinality(S) - 1
    BY <1>1
  <2>2. \E x \in S : Rank(x, S) = n - 1
    BY <2>1, RankOnto
  <2> QED
    BY <2>2
<1>3. RankOrder(S) = [n \in 1 .. k |-> At(n)]
  BY DEF RankOrder
<1> HIDE DEF At
<1>4. RankOrder(S) \in [1 .. k -> S] /\ \A n \in 1 .. k : Rank(RankOrder(S)[n], S) = n - 1
  BY <1>2, <1>3
<1>5. ASSUME NEW x \in S PROVE Rank(x, S) + 1 \in 1 .. k /\ RankOrder(S)[Rank(x, S) + 1] = x
  <2>1. Rank(x, S) \in Nat /\ Rank(x, S) < k
    BY RankType, RankBelow
  <2>2. Rank(x, S) + 1 \in 1 .. k
    BY <1>1, <2>1
  <2> DEFINE y == RankOrder(S)[Rank(x, S) + 1]
  <2>3. y \in S /\ Rank(y, S) = Rank(x, S)
    BY <1>4, <2>1, <2>2
  <2> HIDE DEF y
  <2>4. y = x
    BY <2>3, RankInjective
  <2> QED
    BY <2>2, <2>4 DEF y
<1> QED
  BY <1>1, <1>4, <1>5
=============================================================================
